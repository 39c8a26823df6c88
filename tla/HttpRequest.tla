---------------------------- MODULE HttpRequest ----------------------------
(***************************************************************************)
(* What the workers of the web server do with the bytes of a connection:   *)
(* HttpRequest (webServer/code/http/httprequest.cpp), HttpConn::process,   *)
(* the choice of the page in HttpResponse, and UserStore (auth/            *)
(* userstore.cpp), which all connections share, in both its builds.        *)
(*                                                                         *)
(* Text is a sequence of tokens.  A line is two halves, so that it can     *)
(* arrive cut, and CR and LF are tokens of their own; a half is more than  *)
(* two bytes.  A pass of the loop of parse() is a step, since the workers  *)
(* of two connections run side by side.  Names and passwords are what      *)
(* ParseFromUrlencoded_ leaves of them; it treats equal spellings equally. *)
(***************************************************************************)
EXTENDS Integers, Sequences, FiniteSetsExt

CONSTANTS
    Peers,          \* connections
    Pages,          \* names of pages
    Texts,          \* names and passwords of users
    Requests,       \* peer -> what its client may ask for, a set of Request
    UserLines,      \* the lines of users.conf, pairs of a name and a password
    Served, Hidden, \* paths of the files everybody may read, of other files
    Cuts,           \* bound: peer -> how much one read may take, besides everything
    MaxAsked,       \* bound: peer -> requests of that connection
    MaxRestarts     \* bound: restarts of the server

\* A path is a name and whether ".html" follows it.  The form of a POST has a
\* name and a password; ended tells whether CRLF follows it.
Path    == Pages \X BOOLEAN
Request == [method : {"GET", "POST"}, path : Path, keep : BOOLEAN,
            name : Texts, password : Texts, ended : BOOLEAN]

ASSUME HttpAssumption ==
    /\ {"", "index", "register", "login", "welcome", "video", "picture", "error",
        "400", "403", "404"} \subseteq Pages
    /\ Requests \in [Peers -> SUBSET Request]
    /\ UserLines \in Seq(Texts \X Texts)
    /\ Cuts \in [Peers -> SUBSET Nat]
    /\ MaxAsked \in [Peers -> Nat] /\ MaxRestarts \in Nat

VARIABLES
    build,          \* "memory", or "sqlite" with -DUSE_SQLITE
    opened,         \* the database is open
    accounts,       \* s_users, or the table users: name -> password
    restarts,
    wire,           \* peer -> text that has not been read
    readBuff,       \* peer -> readBuff_
    request,        \* peer -> request_
    phase,          \* peer -> what the server does with the connection
    asked,          \* peer -> requests sent, in order
    answers,        \* peer -> answers, in order
    fresh,          \* peers of whom something was read since the last answer
    tidy            \* peers whose requests came one at a time, each whole

store    == <<build, opened, accounts, restarts>>
network  == <<wire, asked>>
history  == <<answers, fresh, tidy>>
httpVars == <<store, network, readBuff, request, phase, history>>
-----------------------------------------------------------------------------
(* Text.                                                                   *)

Token(r, kind, half) == [of |-> r, kind |-> kind, half |-> half]
Line(r, kind) == <<Token(r, kind, 1), Token(r, kind, 2)>>
CRLF(r)       == <<Token(r, "CR", 0), Token(r, "LF", 0)>>

Text(r) ==
    Line(r, "start") \o CRLF(r)
        \o (IF r.keep THEN Line(r, "Connection") \o CRLF(r) ELSE << >>)
        \o (IF r.method = "POST"
            THEN Line(r, "Content-Type") \o CRLF(r) \o CRLF(r) \o Line(r, "form")
                     \o (IF r.ended THEN CRLF(r) ELSE << >>)
            ELSE CRLF(r))

EndsAt(text) == {k \in 1 .. Len(text) - 1 : text[k].kind = "CR" /\ text[k + 1].kind = "LF"}

\* The first line, or everything when there is no CRLF.
FirstLine(text) ==
    IF EndsAt(text) = {} THEN text ELSE SubSeq(text, 1, Min(EndsAt(text)) - 1)

\* What RetrieveUntil leaves; a line without CRLF is not retrieved.
Rest(text) ==
    IF EndsAt(text) = {} THEN text ELSE SubSeq(text, Min(EndsAt(text)) + 2, Len(text))

\* A whole line of this kind; whitespace may follow it.
Begins(line, kind) ==
    Len(line) >= 2 /\ line[1].kind = kind /\ line[1].half = 1 /\ line[2].half = 2

Exactly(line, kind) == Begins(line, kind) /\ Len(line) = 2

HasColon(line) ==
    \E k \in 1 .. Len(line) : line[k].half = 1 /\ line[k].kind \in {"Connection", "Content-Type"}

AtMostTwoBytes(text) == Len(text) <= 2 /\ \A k \in 1 .. Len(text) : text[k].half = 0
-----------------------------------------------------------------------------
(* UserStore.  A password is a text and whether it is all of that text.    *)

LinesOf(n) == {i \in 1 .. Len(UserLines) : UserLines[i][1] = n}

\* LoadFromFile in memory: a later line replaces an earlier one.
LoadInMemory ==
    [n \in {UserLines[i][1] : i \in 1 .. Len(UserLines)} |->
        <<UserLines[Max(LinesOf(n))][2], TRUE>>]

\* LoadFromFile into a table: INSERT OR IGNORE.
LoadInDatabase(table) ==
    [n \in DOMAIN table \cup {UserLines[i][1] : i \in 1 .. Len(UserLines)} |->
        IF n \in DOMAIN table THEN table[n] ELSE <<UserLines[Min(LinesOf(n))][2], TRUE>>]

Register(n, p) ==
    accounts' = [m \in DOMAIN accounts \cup {n} |-> IF m = n THEN p ELSE accounts[m]]

Matches(n, p) == n \in DOMAIN accounts /\ accounts[n] = p

\* Mutant: a name that is known is registered again.
MutVerifyInMemory(n, p, isLogin, ok) ==
    IF isLogin
    THEN ok = Matches(n, p) /\ UNCHANGED accounts
    ELSE ok = TRUE /\ Register(n, p)

\* Verify with the outcome ok, under its mutex, in memory.
VerifyInMemory(n, p, isLogin, ok) ==
    IF isLogin
    THEN ok = Matches(n, p) /\ UNCHANGED accounts
    ELSE /\ ok = (n \notin DOMAIN accounts)
         /\ IF ok THEN Register(n, p) ELSE UNCHANGED accounts

\* Mutant: INSERT OR REPLACE.
MutVerifyInDatabase(n, p, isLogin, ok) ==
    IF ~opened \/ isLogin
    THEN ok = (opened /\ Matches(n, p)) /\ UNCHANGED accounts
    ELSE ok = TRUE /\ Register(n, p)

\* The same in the database: SELECT; or INSERT OR IGNORE, and whether a row has
\* changed.
VerifyInDatabase(n, p, isLogin, ok) ==
    IF ~opened \/ isLogin
    THEN ok = (opened /\ Matches(n, p)) /\ UNCHANGED accounts
    ELSE /\ ok = (n \notin DOMAIN accounts)
         /\ IF ok THEN Register(n, p) ELSE UNCHANGED accounts

\* An empty name or password is refused before the store is asked.
Verify(n, p, isLogin, ok) ==
    \/ (n = "" \/ p[1] = "") /\ ok = FALSE /\ UNCHANGED accounts
    \/ n # "" /\ p[1] # "" /\ build = "memory" /\ VerifyInMemory(n, p, isLogin, ok)
    \/ n # "" /\ p[1] # "" /\ build = "sqlite" /\ VerifyInDatabase(n, p, isLogin, ok)
-----------------------------------------------------------------------------
(* The connections.                                                        *)

NoPath    == <<"", FALSE>>
NoAccount == << >>

\* request_ after Init.  post, keep and typed: the method is POST, Connection is
\* keep-alive, Content-Type is that of a form.  account is what Verify accepted.
Blank == [state |-> "REQUEST_LINE", path |-> NoPath, post |-> FALSE,
          keep |-> FALSE, typed |-> FALSE, account |-> NoAccount]

HttpInit ==
    /\ build \in {"memory", "sqlite"}
    /\ opened = TRUE
    /\ accounts = IF build = "memory" THEN LoadInMemory ELSE LoadInDatabase(<< >>)
    /\ restarts = 0
    /\ wire = [c \in Peers |-> << >>]
    /\ readBuff = [c \in Peers |-> << >>]
    /\ request = [c \in Peers |-> Blank]
    /\ phase = [c \in Peers |-> "reading"]
    /\ asked = [c \in Peers |-> << >>]
    /\ answers = [c \in Peers |-> << >>]
    /\ fresh = {} /\ tidy = Peers

\* A client sends a request, whether or not the last one is answered.
Ask(c, r) ==
    /\ phase[c] # "closed"
    /\ Len(asked[c]) < MaxAsked[c]
    /\ wire' = [wire EXCEPT ![c] = @ \o Text(r)]
    /\ asked' = [asked EXCEPT ![c] = Append(@, r)]
    /\ UNCHANGED <<store, readBuff, request, phase, history>>

\* text is the next request to be answered, all of it, and no body is left open.
IsNextRequest(c, text) ==
    /\ Len(answers[c]) < Len(asked[c])
    /\ LET r == asked[c][Len(answers[c]) + 1]
       IN text = Text(r) /\ (r.method = "POST" => r.ended)

\* Mutant: request_ is not initialised again.
MutBegin(c, text) ==
    /\ UNCHANGED request
    /\ phase' = [phase EXCEPT ![c] = IF text = << >> THEN "reading"
                                     ELSE IF request[c].state = "FINISH" THEN "answering"
                                     ELSE "parsing"]

\* HttpConn::process, up to the first pass of the loop of parse, when readBuff_
\* holds the text.
Begin(c, text) ==
    /\ request' = [request EXCEPT ![c] = Blank]
    /\ phase' = [phase EXCEPT ![c] = IF text = << >> THEN "reading" ELSE "parsing"]

\* OnRead_: what has arrived is read, any part of what was sent.
Read(c, k) ==
    /\ phase[c] = "reading"
    /\ k \in 1 .. Len(wire[c])
    /\ k \in Cuts[c] \cup {Len(wire[c])}
    /\ readBuff' = [readBuff EXCEPT ![c] = @ \o SubSeq(wire[c], 1, k)]
    /\ wire' = [wire EXCEPT ![c] = SubSeq(@, k + 1, Len(@))]
    /\ Begin(c, readBuff[c] \o SubSeq(wire[c], 1, k))
    /\ fresh' = fresh \cup {c}
    /\ tidy' = IF IsNextRequest(c, readBuff'[c]) THEN tidy ELSE tidy \ {c}
    /\ UNCHANGED <<store, asked, answers>>

\* The end of a pass of the loop.  A line without CRLF ends the loop.
EndPass(c, state) ==
    /\ readBuff' = [readBuff EXCEPT ![c] = Rest(@)]
    /\ phase' = [phase EXCEPT ![c] =
                    IF EndsAt(readBuff[c]) = {} \/ Rest(readBuff[c]) = << >> \/ state = "FINISH"
                    THEN "answering" ELSE "parsing"]

DEFAULT_HTML == {"index", "register", "login", "welcome", "video", "picture"}

ParsePath(path) ==
    CASE path = NoPath -> <<"index", TRUE>>
      [] path[1] \in DEFAULT_HTML -> <<path[1], TRUE>>
      [] OTHER -> path

ParseRequestLine(c) ==
    LET line == FirstLine(readBuff[c])
    IN /\ phase[c] = "parsing" /\ request[c].state = "REQUEST_LINE"
       /\ IF Begins(line, "start")
          THEN /\ request' = [request EXCEPT ![c].state = "HEADERS",
                                             ![c].path = ParsePath(line[1].of.path),
                                             ![c].post = line[1].of.method = "POST"]
               /\ EndPass(c, "HEADERS")
          ELSE /\ phase' = [phase EXCEPT ![c] = "refusing"]
               /\ UNCHANGED <<request, readBuff>>
       /\ UNCHANGED <<store, network, history>>

\* Mutant: the empty line does not end the headers.
MutAfterHeader(c, line) == IF AtMostTwoBytes(readBuff[c]) THEN "FINISH" ELSE "HEADERS"

\* The state after a header line: one without a colon ends the headers, and
\* nothing but an empty line left over ends the request.
AfterHeader(c, line) ==
    IF AtMostTwoBytes(readBuff[c]) THEN "FINISH"
    ELSE IF HasColon(line) THEN "HEADERS" ELSE "BODY"

ParseHeader(c) ==
    LET line == FirstLine(readBuff[c])
    IN /\ phase[c] = "parsing" /\ request[c].state = "HEADERS"
       /\ request' = [request EXCEPT ![c].state = AfterHeader(c, line),
                                     ![c].keep = @ \/ Exactly(line, "Connection"),
                                     ![c].typed = @ \/ Exactly(line, "Content-Type")]
       /\ EndPass(c, AfterHeader(c, line))
       /\ UNCHANGED <<store, network, history>>

\* The accounts a body can name: a form does, of a form that is cut the name and
\* what there is of the password, if the cut is not before it.
Named(line) ==
    IF Begins(line, "form")
    THEN {<<line[1].of.name, <<line[1].of.password, TRUE>>>>}
    ELSE IF line # << >> /\ line[1].kind = "form" /\ line[1].half = 1
    THEN {NoAccount, <<line[1].of.name, <<line[1].of.password, FALSE>>>>}
    ELSE {NoAccount}

\* ParsePost_, with the account a the body names.
ParsePost(c, a) ==
    LET path == request[c].path
        tagged == request[c].post /\ request[c].typed
                      /\ path \in {<<"register", TRUE>>, <<"login", TRUE>>}
    IN \/ /\ tagged /\ a # NoAccount
          /\ \E ok \in BOOLEAN :
                /\ Verify(a[1], a[2], path[1] = "login", ok)
                /\ request' = [request EXCEPT
                       ![c].state = "FINISH",
                       ![c].path = <<IF ok THEN "welcome" ELSE "error", TRUE>>,
                       ![c].account = IF ok THEN a ELSE NoAccount]
       \/ /\ tagged /\ a = NoAccount
          /\ request' = [request EXCEPT ![c].state = "FINISH", ![c].path = <<"error", TRUE>>]
          /\ UNCHANGED accounts
       \/ /\ ~tagged
          /\ request' = [request EXCEPT ![c].state = "FINISH"]
          /\ UNCHANGED accounts

ParseBody(c) ==
    /\ phase[c] = "parsing" /\ request[c].state = "BODY"
    /\ \E a \in Named(FirstLine(readBuff[c])) : ParsePost(c, a)
    /\ EndPass(c, "FINISH")
    /\ UNCHANGED <<build, opened, restarts, network, history>>
-----------------------------------------------------------------------------
(* HttpResponse.                                                           *)

\* MakeResponse: a path that is no file, or names the directory, is not found.
CodeOf(path, code) ==
    IF path \notin Served \cup Hidden THEN 404
    ELSE IF path \in Hidden THEN 403
    ELSE code

PageOf(path, code) ==
    CASE code = 404 -> <<"404", TRUE>>
      [] code = 403 -> <<"403", TRUE>>
      [] code = 400 -> <<"400", TRUE>>
      [] OTHER      -> path

\* The response is made and written; OnWrite_ goes on with the connection or
\* closes it.
Respond(c) ==
    /\ phase[c] \in {"answering", "refusing"}
    /\ LET path == request[c].path
           code == CodeOf(path, IF phase[c] = "answering" THEN 200 ELSE 400)
       IN answers' = [answers EXCEPT ![c] =
              Append(@, [code |-> code, page |-> PageOf(path, code),
                         account |-> request[c].account, fresh |-> c \in fresh])]
    /\ fresh' = fresh \ {c}
    /\ IF request[c].keep
       THEN Begin(c, readBuff[c])
       ELSE phase' = [phase EXCEPT ![c] = "closed"] /\ UNCHANGED request
    /\ UNCHANGED <<store, network, readBuff, tidy>>

\* The server ends and is started again, and the clients connect again.  The
\* table is kept, what is in memory is not; the database may fail to open.
Restart ==
    /\ restarts < MaxRestarts
    /\ restarts' = restarts + 1
    /\ \/ /\ build = "memory"
          /\ accounts' = LoadInMemory /\ UNCHANGED opened
       \/ /\ build = "sqlite"
          /\ accounts' = LoadInDatabase(accounts) /\ opened' = TRUE
       \/ /\ build = "sqlite"
          /\ opened' = FALSE /\ UNCHANGED accounts
    /\ wire' = [c \in Peers |-> << >>]
    /\ readBuff' = [c \in Peers |-> << >>]
    /\ request' = [c \in Peers |-> Blank]
    /\ phase' = [c \in Peers |-> "reading"]
    /\ asked' = [c \in Peers |-> << >>]
    /\ answers' = [c \in Peers |-> << >>]
    /\ fresh' = {} /\ tidy' = Peers
    /\ UNCHANGED build

Serve(c) ==
    \/ ParseRequestLine(c) \/ ParseHeader(c) \/ ParseBody(c) \/ Respond(c)

HttpNext ==
    \/ \E c \in Peers :
          \/ \E r \in Requests[c] : Ask(c, r)
          \/ \E k \in 1 .. Len(wire[c]) : Read(c, k)
          \/ Serve(c)
    \/ Restart

HttpSpec == HttpInit /\ [][HttpNext]_httpVars
-----------------------------------------------------------------------------
(* Properties.                                                             *)

Password == Texts \X BOOLEAN
Account  == {NoAccount} \cup (Texts \X Password)
TokenSet == [of : Request, half : 0 .. 2,
             kind : {"start", "Connection", "Content-Type", "form", "CR", "LF"}]
State    == [state : {"REQUEST_LINE", "HEADERS", "BODY", "FINISH"}, path : Path,
             post : BOOLEAN, keep : BOOLEAN, typed : BOOLEAN, account : Account]
Answer   == [code : {200, 400, 403, 404}, page : Path, account : Account,
             fresh : BOOLEAN]

\* Type correctness.
HttpTypeOK ==
    /\ build \in {"memory", "sqlite"} /\ opened \in BOOLEAN
    /\ DOMAIN accounts \subseteq Texts
    /\ \A n \in DOMAIN accounts : accounts[n] \in Password
    /\ restarts \in Nat
    /\ wire \in [Peers -> Seq(TokenSet)] /\ readBuff \in [Peers -> Seq(TokenSet)]
    /\ request \in [Peers -> State]
    /\ phase \in [Peers -> {"reading", "parsing", "answering", "refusing", "closed"}]
    /\ asked \in [Peers -> Seq(Request)]
    /\ answers \in [Peers -> Seq(Answer)]
    /\ fresh \subseteq Peers /\ tidy \subseteq Peers

\* Whoever is shown the page of success for a form he sent has the account that he
\* named, with the password he gave, whatever others register at the same time
\* (httprequest.cpp:197, userstore.cpp:65): one of two that register a name wins.
\* A GET of that page names no account; it is answered with the page to anybody.
WelcomeMeansAccount ==
    \A c \in Peers : \A i \in 1 .. Len(answers[c]) :
        LET a == answers[c][i].account IN a # NoAccount => Matches(a[1], a[2])

\* Every account is still there, with its password, or the store began anew.
Remembers ==
    \/ \A n \in DOMAIN accounts : n \in DOMAIN accounts' /\ accounts'[n] = accounts[n]
    \/ build = "memory" /\ restarts' # restarts

\* An account keeps its password (userstore.cpp:64, 185).  Only a restart of the
\* build without a database forgets accounts.
AccountsKept == [][Remembers]_httpVars

\* What a request of its own deserves.
Deserved(r, a) ==
    IF r.method = "POST" /\ ParsePath(r.path)[1] \in {"login", "register"}
    THEN a.page[1] = IF a.account = <<r.name, <<r.password, TRUE>>>> THEN "welcome" ELSE "error"
    ELSE /\ a.code = CodeOf(ParsePath(r.path), 200)
         /\ a.page = PageOf(ParsePath(r.path), a.code)

\* Requests that arrive one at a time, each whole, and whose bodies end with
\* CRLF, are answered one to one and in order, each as it deserves, and the
\* connection lives exactly as long as they ask (httpconn.cpp:97).
WholeRequestsAnswered ==
    \A c \in tidy :
        /\ \A i \in 1 .. Len(answers[c]) :
              i <= Len(asked[c]) /\ Deserved(asked[c][i], answers[c][i])
        /\ \A i \in 1 .. Len(answers[c]) :
              asked[c][i].keep <=> (i < Len(answers[c]) \/ phase[c] # "closed")

\* Text stays in the buffer when a line is cut, when a body does not end with
\* CRLF (httprequest.cpp:63), or when a request was sent before the answer to the
\* one before; it is parsed from the start after the answer.  All the same no request
\* is answered twice but for one refusal, and no form is acted on twice.
ActedOnOnce ==
    \A c \in Peers :
        /\ Len(answers[c]) <= Len(asked[c]) + 1
        /\ Cardinality({i \in 1 .. Len(answers[c]) : answers[c][i].account # NoAccount})
               <= Cardinality({i \in 1 .. Len(asked[c]) : asked[c][i].method = "POST"})
-----------------------------------------------------------------------------
(* Inductive strengthening.                                                *)

\* The pages ParsePost_ answers with can be read.
OutcomePages == {<<"welcome", TRUE>>, <<"error", TRUE>>} \subseteq Served \ Hidden

\* What is left of the text of a request: the form, from the empty line on, from the
\* type on, and from the connection on.
FormOf(r)      == IF r.method = "POST" THEN Line(r, "form") \o CRLF(r) ELSE << >>
EmptyLineOf(r) == CRLF(r) \o FormOf(r)
TypeOf(r)      == IF r.method = "POST" THEN Line(r, "Content-Type") \o CRLF(r) \o EmptyLineOf(r)
                                       ELSE EmptyLineOf(r)
KeepOf(r)      == IF r.keep THEN Line(r, "Connection") \o CRLF(r) \o TypeOf(r) ELSE TypeOf(r)

\* What parse() knows of the request r while the text is left, and when it is done.
KnowsHeaders(r, q) ==
    q.path = ParsePath(r.path) /\ q.post = (r.method = "POST") /\ q.account = NoAccount

Midway(r, q, text) ==
    \/ q = Blank /\ text = Text(r)
    \/ /\ q.state = "HEADERS" /\ KnowsHeaders(r, q)
       /\ \/ ~q.keep /\ ~q.typed /\ text = KeepOf(r)
          \/ q.keep = r.keep /\ ~q.typed /\ text = TypeOf(r)
          \/ q.keep = r.keep /\ q.typed = (r.method = "POST") /\ text = EmptyLineOf(r)
    \/ /\ q.state = "BODY" /\ KnowsHeaders(r, q)
       /\ r.method = "POST" /\ q.keep = r.keep /\ q.typed
       /\ text = FormOf(r)

Known(r, q) ==
    /\ q.keep = r.keep
    /\ IF r.method = "POST" /\ ParsePath(r.path)[1] \in {"login", "register"}
       THEN q.path = <<IF q.account = <<r.name, <<r.password, TRUE>>>> THEN "welcome"
                       ELSE "error", TRUE>>
       ELSE q.path = ParsePath(r.path)

\* The request that is served, of a peer whose requests come one at a time.
Current(c) == asked[c][Len(answers[c]) + 1]

TidyFor(c) ==
    /\ Len(answers[c]) <= Len(asked[c])
    /\ \A i \in 1 .. Len(answers[c]) : Deserved(asked[c][i], answers[c][i])
    /\ \A i \in 1 .. Len(answers[c]) :
          asked[c][i].keep <=> (i < Len(answers[c]) \/ phase[c] # "closed")
    /\ phase[c] \notin {"reading", "closed"} =>
          /\ Len(answers[c]) < Len(asked[c])
          /\ Current(c).method = "POST" => Current(c).ended
    /\ phase[c] = "parsing" => Midway(Current(c), request[c], readBuff[c])
    /\ phase[c] = "answering" => Known(Current(c), request[c]) /\ readBuff[c] = << >>
    /\ phase[c] # "refusing"

TidyInv == \A c \in tidy : TidyFor(c)

\* How many of a sequence are in a set.
Count(s, A) == Cardinality({k \in 1 .. Len(s) : s[k] \in A})

Starts  == {x \in TokenSet : x.kind = "start" /\ x.half = 1}
Forms   == {x \in TokenSet : x.kind = "form" /\ x.half = 1}
Posts   == {r \in Request : r.method = "POST"}
Accepted == {a \in Answer : a.account # NoAccount}

\* Text that has not been retrieved, of this kind.
Unread(c, A) == Count(readBuff[c], A) + Count(wire[c], A)

\* An answer that goes on with the connection has retrieved its request line, and a
\* refusal ends the connection.
AnswersFor(c) ==
    /\ phase[c] = "closed" => Len(answers[c]) <= Len(asked[c]) + 1
    /\ phase[c] = "reading" \/ (phase[c] = "parsing" /\ request[c].state = "REQUEST_LINE") =>
          Len(answers[c]) + Unread(c, Starts) <= Len(asked[c])
    /\ phase[c] = "parsing" /\ request[c].state = "REQUEST_LINE" => ~request[c].keep
    /\ phase[c] = "parsing" /\ request[c].state # "REQUEST_LINE" =>
          Len(answers[c]) + 1 + Unread(c, Starts) <= Len(asked[c])
    /\ phase[c] = "answering" =>
          \/ Len(answers[c]) + 1 + Unread(c, Starts) <= Len(asked[c])
          \/ Len(answers[c]) <= Len(asked[c]) /\ ~request[c].keep
    /\ phase[c] = "refusing" => Len(answers[c]) <= Len(asked[c]) /\ ~request[c].keep

AnswersInv == \A c \in Peers : AnswersFor(c)

\* A form that is acted on is retrieved, or stays first in the buffer, and then it is
\* refused.
FormFirst(c) == readBuff[c] # << >> /\ readBuff[c][1] \in Forms

FormsFor(c) ==
    LET acted == Count(answers[c], Accepted)
        sent  == Count(asked[c], Posts)
    IN /\ acted <= sent
       /\ phase[c] \in {"reading", "parsing", "refusing"} => request[c].account = NoAccount
       /\ phase[c] = "reading" => acted + Unread(c, Forms) <= sent
       /\ phase[c] = "parsing" =>
             \/ acted + Unread(c, Forms) <= sent
             \/ /\ request[c].state = "REQUEST_LINE" /\ FormFirst(c)
                /\ acted + Unread(c, Forms) <= sent + 1
       /\ phase[c] = "answering" =>
             \/ acted + Unread(c, Forms) <= sent /\ request[c].account = NoAccount
             \/ acted + 1 + Unread(c, Forms) <= sent
             \/ acted + Unread(c, Forms) <= sent /\ FormFirst(c)

FormsInv == \A c \in Peers : FormsFor(c)
=============================================================================
