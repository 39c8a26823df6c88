-------------------------- MODULE ComponentProofs --------------------------
(***************************************************************************)
(* Theorems about parts that stand alone: the requests of the web server's *)
(* clients and the accounts they share, for every set of connections,      *)
(* requests and users; its timer, for every number of timers; the string   *)
(* search, for every alphabet and length; and both buffers, for every size *)
(* and length of a piece.                                                  *)
(***************************************************************************)
EXTENDS HeapTimer, HttpRequest, LibraryBytes,
        FiniteSetTheorems, SequenceTheorems, WellFoundedInduction, TLAPS

-----------------------------------------------------------------------------
(* Text.                                                                   *)

LEMMA RangeOfNat ==
    ASSUME NEW m \in Nat, NEW k \in 1 .. m
    PROVE  k \in Nat
OBVIOUS

LEMMA NextNat ==
    ASSUME NEW u \in Nat
    PROVE  u + 1 \in Nat /\ u + 1 # u
OBVIOUS

LEMMA LeastExists ==
    ASSUME NEW S \in SUBSET Nat, S # {}
    PROVE  \E x \in S : \A y \in S : x <= y
<1>1. PICK x \in S : \A y \in S : ~ (<<y, x>> \in OpToRel(<, Nat))
  BY WFMin, NatLessThanWellFounded
<1>2. \A y \in S : ~(y < x)
  <2> SUFFICES ASSUME NEW y \in S, y < x
               PROVE  <<y, x>> \in OpToRel(<, Nat)
    BY <1>1
  <2>1. x \in Nat /\ y \in Nat
    OBVIOUS
  <2> QED
    BY <2>1, Zenon DEF OpToRel
<1> QED
  BY <1>2

LEMMA MinExists ==
    ASSUME NEW S \in SUBSET Nat, S # {}
    PROVE  Min(S) \in S
BY LeastExists DEF Min

LEMMA MaxExists ==
    ASSUME NEW u \in Nat, NEW S \in SUBSET (1 .. u), S # {}
    PROVE  Max(S) \in S
<1> DEFINE V == {u - x : x \in S}
<1>1. \A x \in S : x \in Int /\ u - x \in Nat
  OBVIOUS
<1>2. V \in SUBSET Nat /\ V # {}
  BY <1>1, Zenon
<1>3. PICK r \in V : \A y \in V : r <= y
  BY <1>2, LeastExists
<1>4. PICK x \in S : r = u - x
  OBVIOUS
<1>5. \A y \in S : u - x <= u - y
  BY <1>3, <1>4
<1>6. \A y \in S : x >= y
  BY <1>1, <1>5
<1> QED
  BY <1>6 DEF Max

LEMMA LineType ==
    ASSUME NEW r \in Request
    PROVE  /\ \A kind \in {"start", "Connection", "Content-Type", "form"} :
                  Line(r, kind) \in Seq(TokenSet)
           /\ CRLF(r) \in Seq(TokenSet)
<1>1. ASSUME NEW x \in TokenSet, NEW y \in TokenSet PROVE <<x, y>> \in Seq(TokenSet)
  BY <1>1
<1>2. \A kind \in {"start", "Connection", "Content-Type", "form", "CR", "LF"} :
        \A half \in 0 .. 2 : Token(r, kind, half) \in TokenSet
  BY DEF Token, TokenSet
<1>3. 0 \in 0 .. 2 /\ 1 \in 0 .. 2 /\ 2 \in 0 .. 2
  OBVIOUS
<1>4. CRLF(r) \in Seq(TokenSet)
  BY <1>1, <1>2, <1>3, Zenon DEF CRLF
<1>5. \A kind \in {"start", "Connection", "Content-Type", "form"} :
        Line(r, kind) \in Seq(TokenSet)
  BY <1>1, <1>2, <1>3, Zenon DEF Line
<1> QED
  BY <1>4, <1>5

LEMMA TextType ==
    ASSUME NEW r \in Request
    PROVE  Text(r) \in Seq(TokenSet)
<1> DEFINE Q == Seq(TokenSet)
           Header == IF r.keep THEN Line(r, "Connection") \o CRLF(r) ELSE << >>
           Ending == IF r.ended THEN CRLF(r) ELSE << >>
           Body == Line(r, "Content-Type") \o CRLF(r) \o CRLF(r) \o Line(r, "form") \o Ending
           Tail_ == IF r.method = "POST" THEN Body ELSE CRLF(r)
<1>1. \A s, v \in Q : s \o v \in Q
  BY ConcatProperties
<1>2. << >> \in Q
  BY EmptySeq
<1>3. CRLF(r) \in Q /\ Line(r, "Connection") \in Q /\ Line(r, "Content-Type") \in Q
      /\ Line(r, "form") \in Q /\ Line(r, "start") \in Q
  BY LineType
<1>4. Header \in Q /\ Ending \in Q
  BY <1>1, <1>2, <1>3
<1> HIDE DEF Q, Header, Ending
<1>5. Body \in Q
  BY <1>1, <1>3, <1>4
<1> HIDE DEF Body
<1>6. Tail_ \in Q
  BY <1>3, <1>5
<1> HIDE DEF Tail_
<1>7. Text(r) = Line(r, "start") \o CRLF(r) \o Header \o Tail_
  BY DEF Text, Header, Tail_, Body, Ending
<1> QED
  BY <1>1, <1>3, <1>4, <1>6, <1>7 DEF Q

LEMMA PartType ==
    ASSUME NEW t \in Seq(TokenSet), NEW m \in Nat \ {0}, NEW u \in Int, u <= Len(t)
    PROVE  SubSeq(t, m, u) \in Seq(TokenSet)
<1>1. \A l \in m .. u : t[l] \in TokenSet
  BY ElementOfSeq, LenProperties
<1> QED
  BY <1>1, SubSeqProperties

LEMMA CutType ==
    ASSUME NEW t \in Seq(TokenSet), NEW k \in 1 .. Len(t)
    PROVE  SubSeq(t, 1, k) \in Seq(TokenSet) /\ SubSeq(t, k + 1, Len(t)) \in Seq(TokenSet)
<1>1. Len(t) \in Nat
  BY LenProperties
<1>2. \A m \in Nat : \A j \in 1 .. m : /\ 1 \in Nat \ {0} /\ j \in Int /\ j <= m
                                      /\ j + 1 \in Nat \ {0} /\ m \in Int /\ m <= m
  OBVIOUS
<1>3. /\ 1 \in Nat \ {0} /\ k \in Int /\ k <= Len(t)
      /\ k + 1 \in Nat \ {0} /\ Len(t) \in Int /\ Len(t) <= Len(t)
  BY <1>1, <1>2, Zenon
<1>4. SubSeq(t, 1, k) \in Seq(TokenSet)
  BY <1>3, PartType, Zenon
<1>5. SubSeq(t, k + 1, Len(t)) \in Seq(TokenSet)
  BY <1>3, PartType, Zenon
<1> QED
  BY <1>4, <1>5

LEMMA FirstToken ==
    ASSUME NEW t \in Seq(TokenSet), Len(t) >= 2
    PROVE  t[1] \in TokenSet
<1>1. 1 \in 1 .. Len(t)
  BY LenProperties
<1> QED
  BY <1>1, ElementOfSeq

\* The line that is parsed, and what is left after it, is text.
LEMMA RestType ==
    ASSUME NEW t \in Seq(TokenSet)
    PROVE  FirstLine(t) \in Seq(TokenSet) /\ Rest(t) \in Seq(TokenSet)
<1>1. CASE EndsAt(t) = {}
  BY <1>1 DEF FirstLine, Rest
<1>2. CASE EndsAt(t) # {}
  <2>1. Len(t) \in Nat
    BY LenProperties
  <2>2. EndsAt(t) \in SUBSET Nat
    BY <2>1 DEF EndsAt
  <2>3. Min(EndsAt(t)) \in EndsAt(t)
    BY <1>2, <2>2, MinExists
  <2>4. Min(EndsAt(t)) \in 1 .. Len(t) - 1
    BY <2>3 DEF EndsAt
  <2>5. SubSeq(t, 1, Min(EndsAt(t)) - 1) \in Seq(TokenSet)
    BY <2>1, <2>4, PartType
  <2>6. SubSeq(t, Min(EndsAt(t)) + 2, Len(t)) \in Seq(TokenSet)
    BY <2>1, <2>4, PartType
  <2> QED
    BY <1>2, <2>5, <2>6 DEF FirstLine, Rest
<1> QED
  BY <1>1, <1>2

LEMMA NamedType ==
    ASSUME NEW line \in Seq(TokenSet), NEW a \in Named(line)
    PROVE  a \in Account
<1>1. Begins(line, "form") => line # << >>
  BY EmptySeq DEF Begins
<1>2. line # << >> => line[1] \in TokenSet
  BY ElementOfSeq, LenProperties, EmptySeq
<1>3. line # << >> => line[1].of.name \in Texts /\ line[1].of.password \in Texts
  BY <1>2 DEF TokenSet, Request
<1>4. \A u, p \in Texts, whole \in BOOLEAN : <<u, <<p, whole>>>> \in Account
  BY DEF Account, Password
<1>5. NoAccount \in Account
  BY DEF Account
<1>6. CASE Begins(line, "form")
  <2>1. a = <<line[1].of.name, <<line[1].of.password, TRUE>>>>
    BY <1>6 DEF Named
  <2> QED
    BY <1>1, <1>3, <1>4, <1>6, <2>1, Zenon
<1>7. CASE line # << >> /\ a = <<line[1].of.name, <<line[1].of.password, FALSE>>>>
  BY <1>3, <1>4, <1>7, Zenon
<1>8. CASE a = NoAccount
  BY <1>5, <1>8
<1> QED
  BY <1>6, <1>7, <1>8 DEF Named

-----------------------------------------------------------------------------
(* The accounts.                                                           *)

StoreOK ==
    /\ DOMAIN accounts \subseteq Texts
    /\ \A u \in DOMAIN accounts : accounts[u] \in Password

\* The account a is in the table.
Has(table, a) == a[1] \in DOMAIN table /\ table[a[1]] = a[2]

\* What every account is after a step, it was before.
Kept == \A u \in DOMAIN accounts : u \in DOMAIN accounts' /\ accounts'[u] = accounts[u]

\* A new account is only made where there was none, and success means that the
\* account is there.
LEMMA VerifyFacts ==
    ASSUME StoreOK, NEW u \in Texts, NEW p \in Password, NEW isLogin, NEW ok \in BOOLEAN,
           Verify(u, p, isLogin, ok)
    PROVE  StoreOK' /\ Kept /\ (ok => u \in DOMAIN accounts' /\ accounts'[u] = p)
<1>1. CASE UNCHANGED accounts /\ (ok => Matches(u, p))
  BY <1>1 DEF StoreOK, Kept, Matches
<1>2. CASE u \notin DOMAIN accounts /\ Register(u, p)
  BY <1>2 DEF StoreOK, Kept, Register
<1>3. \/ UNCHANGED accounts /\ (ok => Matches(u, p))
      \/ u \notin DOMAIN accounts /\ Register(u, p)
  BY DEF Verify, VerifyInMemory, VerifyInDatabase
<1> QED
  BY <1>1, <1>2, <1>3

\* A user's line is found by Min and Max.
LEMMA LineOfUser ==
    ASSUME HttpAssumption, NEW l \in 1 .. Len(UserLines)
    PROVE  LET u == UserLines[l][1]
           IN /\ u \in Texts
              /\ UserLines[Min(LinesOf(u))][2] \in Texts
              /\ UserLines[Max(LinesOf(u))][2] \in Texts
<1> DEFINE u == UserLines[l][1]
<1>1. Len(UserLines) \in Nat
  BY LenProperties DEF HttpAssumption
<1>2. \A k \in 1 .. Len(UserLines) : UserLines[k] \in Texts \X Texts
  BY ElementOfSeq DEF HttpAssumption
<1>3. LinesOf(u) \in SUBSET (1 .. Len(UserLines)) /\ l \in LinesOf(u)
  BY DEF LinesOf
<1> HIDE DEF u
<1>4. LinesOf(u) \in SUBSET Nat
  <2>1. \A k \in 1 .. Len(UserLines) : k \in Nat
    BY <1>1, RangeOfNat
  <2> QED
    BY <1>1, <1>3, <2>1, Zenon
<1>5. Min(LinesOf(u)) \in LinesOf(u)
  BY <1>3, <1>4, MinExists
<1>6. Max(LinesOf(u)) \in LinesOf(u)
  BY <1>1, <1>3, MaxExists
<1>7. UserLines[Min(LinesOf(u))] \in Texts \X Texts /\ UserLines[Max(LinesOf(u))] \in Texts \X Texts
  BY <1>2, <1>3, <1>5, <1>6
<1>8. u \in Texts
  BY <1>2 DEF u
<1> QED
  BY <1>7, <1>8 DEF u

UsersOfFile == {UserLines[l][1] : l \in 1 .. Len(UserLines)}

LEMMA PasswordsOfFile ==
    ASSUME HttpAssumption, NEW u \in UsersOfFile
    PROVE  /\ u \in Texts
           /\ <<UserLines[Min(LinesOf(u))][2], TRUE>> \in Password
           /\ <<UserLines[Max(LinesOf(u))][2], TRUE>> \in Password
<1>1. PICK l \in 1 .. Len(UserLines) : u = UserLines[l][1]
  BY DEF UsersOfFile
<1>2. /\ u \in Texts
      /\ UserLines[Min(LinesOf(u))][2] \in Texts
      /\ UserLines[Max(LinesOf(u))][2] \in Texts
  BY <1>1, LineOfUser
<1> QED
  BY <1>2 DEF Password

LEMMA MemoryFacts ==
    ASSUME HttpAssumption
    PROVE  /\ DOMAIN LoadInMemory \subseteq Texts
           /\ \A u \in DOMAIN LoadInMemory : LoadInMemory[u] \in Password
<1>1. DOMAIN LoadInMemory = UsersOfFile
  BY DEF LoadInMemory, UsersOfFile
<1>2. ASSUME NEW u \in UsersOfFile PROVE LoadInMemory[u] \in Password
  <2>1. LoadInMemory[u] = <<UserLines[Max(LinesOf(u))][2], TRUE>>
    BY DEF LoadInMemory, UsersOfFile
  <2> QED
    BY <2>1, PasswordsOfFile, Zenon
<1>3. \A u \in UsersOfFile : u \in Texts
  BY PasswordsOfFile
<1> QED
  BY <1>1, <1>2, <1>3

LEMMA DatabaseFacts ==
    ASSUME HttpAssumption, NEW t,
           DOMAIN t \subseteq Texts, \A u \in DOMAIN t : t[u] \in Password
    PROVE  /\ DOMAIN LoadInDatabase(t) \subseteq Texts
           /\ \A u \in DOMAIN LoadInDatabase(t) : LoadInDatabase(t)[u] \in Password
           /\ \A u \in DOMAIN t : u \in DOMAIN LoadInDatabase(t) /\ LoadInDatabase(t)[u] = t[u]
<1>1. DOMAIN LoadInDatabase(t) = DOMAIN t \cup UsersOfFile
  BY DEF LoadInDatabase, UsersOfFile
<1>2. ASSUME NEW u \in DOMAIN t PROVE LoadInDatabase(t)[u] = t[u]
  BY DEF LoadInDatabase
<1>3. ASSUME NEW u \in UsersOfFile, u \notin DOMAIN t
      PROVE  LoadInDatabase(t)[u] \in Password
  <2>1. LoadInDatabase(t)[u] = <<UserLines[Min(LinesOf(u))][2], TRUE>>
    BY <1>3 DEF LoadInDatabase, UsersOfFile
  <2> QED
    BY <2>1, PasswordsOfFile, Zenon
<1>4. \A u \in UsersOfFile : u \in Texts
  BY PasswordsOfFile
<1> QED
  BY <1>1, <1>2, <1>3, <1>4

LEMMA EmptyTable ==
    DOMAIN << >> = {}
<1>1. << >> \in Seq({}) /\ Len(<< >>) = 0
  BY EmptySeq
<1>2. DOMAIN << >> = 1 .. 0
  BY <1>1, LenProperties
<1> QED
  BY <1>2

LEMMA LoadFacts ==
    ASSUME HttpAssumption
    PROVE  /\ accounts = LoadInMemory => StoreOK
           /\ accounts = LoadInDatabase(<< >>) => StoreOK
           /\ accounts' = LoadInMemory => StoreOK'
           /\ StoreOK /\ accounts' = LoadInDatabase(accounts) => StoreOK' /\ Kept
<1>1. accounts = LoadInMemory => StoreOK
  BY MemoryFacts, Zenon DEF StoreOK
<1>2. accounts' = LoadInMemory => StoreOK'
  BY MemoryFacts, Zenon DEF StoreOK
<1>3. accounts = LoadInDatabase(<< >>) => StoreOK
  <2>1. /\ DOMAIN LoadInDatabase(<< >>) \subseteq Texts
        /\ \A u \in DOMAIN LoadInDatabase(<< >>) : LoadInDatabase(<< >>)[u] \in Password
    BY EmptyTable, DatabaseFacts
  <2> QED
    BY <2>1, Zenon DEF StoreOK
<1>4. ASSUME StoreOK, accounts' = LoadInDatabase(accounts)
      PROVE  StoreOK' /\ Kept
  <2>1. /\ DOMAIN LoadInDatabase(accounts) \subseteq Texts
        /\ \A u \in DOMAIN LoadInDatabase(accounts) :
              LoadInDatabase(accounts)[u] \in Password
        /\ \A u \in DOMAIN accounts :
              /\ u \in DOMAIN LoadInDatabase(accounts)
              /\ LoadInDatabase(accounts)[u] = accounts[u]
    BY <1>4, DatabaseFacts, Zenon DEF StoreOK
  <2> QED
    BY <1>4, <2>1, Zenon DEF StoreOK, Kept
<1> QED
  BY <1>1, <1>2, <1>3, <1>4
-----------------------------------------------------------------------------
(* The types.                                                              *)

PhaseSet == {"reading", "parsing", "answering", "refusing", "closed"}

LEMMA BlankType ==
    ASSUME HttpAssumption
    PROVE  Blank \in State
<1>1. NoPath \in Path
  BY DEF NoPath, Path, HttpAssumption
<1>2. NoAccount \in Account
  BY DEF Account
<1> QED
  BY <1>1, <1>2 DEF Blank, State

LEMMA PathType ==
    ASSUME HttpAssumption, NEW p \in Path
    PROVE  ParsePath(p) \in Path
<1>1. <<"index", TRUE>> \in Path
  BY DEF Path, HttpAssumption
<1>2. <<p[1], TRUE>> \in Path
  BY DEF Path
<1> QED
  BY <1>1, <1>2, Zenon DEF ParsePath

LEMMA PageType ==
    ASSUME HttpAssumption, NEW p \in Path, NEW code
    PROVE  PageOf(p, code) \in Path
<1>1. <<"404", TRUE>> \in Path /\ <<"403", TRUE>> \in Path /\ <<"400", TRUE>> \in Path
  BY DEF Path, HttpAssumption
<1> QED
  BY <1>1, Zenon DEF PageOf

\* The answer Respond writes to a request for this path.
Outcome(path, ph) == CodeOf(path, IF ph = "answering" THEN 200 ELSE 400)
AnswerTo(path, ph, a, c, S) ==
    [code |-> Outcome(path, ph), page |-> PageOf(path, Outcome(path, ph)),
     account |-> a, fresh |-> c \in S]

LEMMA CodeType ==
    ASSUME NEW path, NEW ph, NEW p \in Path, NEW a \in Account, NEW c, NEW S
    PROVE  [code |-> Outcome(path, ph), page |-> p, account |-> a, fresh |-> c \in S] \in Answer
BY DEF Outcome, CodeOf, Answer

LEMMA AnswerType ==
    ASSUME HttpAssumption, NEW path \in Path, NEW ph, NEW a \in Account, NEW c, NEW S
    PROVE  AnswerTo(path, ph, a, c, S) \in Answer
<1>1. \A code : PageOf(path, code) \in Path
  BY PageType
<1> QED
  BY <1>1, CodeType, Zenon DEF AnswerTo

LEMMA BeginType ==
    ASSUME HttpAssumption, HttpTypeOK, NEW c \in Peers, NEW text, Begin(c, text)
    PROVE  request' \in [Peers -> State] /\ phase' \in [Peers -> PhaseSet]
BY BlankType DEF Begin, HttpTypeOK, PhaseSet

LEMMA EndPassType ==
    ASSUME HttpAssumption, HttpTypeOK, NEW c \in Peers, NEW state, EndPass(c, state)
    PROVE  readBuff' \in [Peers -> Seq(TokenSet)] /\ phase' \in [Peers -> PhaseSet]
<1>1. readBuff[c] \in Seq(TokenSet)
  BY DEF HttpTypeOK
<1>2. Rest(readBuff[c]) \in Seq(TokenSet)
  BY <1>1, RestType
<1>3. readBuff' = [readBuff EXCEPT ![c] = Rest(readBuff[c])]
  BY DEF EndPass
<1>4. readBuff' \in [Peers -> Seq(TokenSet)]
  BY <1>2, <1>3, Zenon DEF HttpTypeOK
<1>5. phase' \in [Peers -> PhaseSet]
  BY DEF EndPass, HttpTypeOK, PhaseSet
<1> QED
  BY <1>4, <1>5

LEMMA TypeInit ==
    ASSUME HttpAssumption, HttpInit
    PROVE  HttpTypeOK
<1>1. StoreOK
  BY LoadFacts DEF HttpInit
<1>2. << >> \in Seq(TokenSet) /\ << >> \in Seq(Request) /\ << >> \in Seq(Answer)
  BY EmptySeq
<1>3. \A T : << >> \in T => [c \in Peers |-> << >>] \in [Peers -> T]
  BY Zenon
<1>4. /\ wire \in [Peers -> Seq(TokenSet)] /\ readBuff \in [Peers -> Seq(TokenSet)]
      /\ asked \in [Peers -> Seq(Request)] /\ answers \in [Peers -> Seq(Answer)]
  BY <1>2, <1>3, Zenon DEF HttpInit
<1>5. request \in [Peers -> State] /\ phase \in [Peers -> PhaseSet]
  BY BlankType DEF HttpInit, PhaseSet
<1>6. /\ build \in {"memory", "sqlite"} /\ opened \in BOOLEAN /\ restarts \in Nat
      /\ fresh \subseteq Peers /\ tidy \subseteq Peers
  BY DEF HttpInit
<1> QED
  BY <1>1, <1>4, <1>5, <1>6 DEF HttpTypeOK, StoreOK, PhaseSet

LEMMA TypeAsk ==
    ASSUME HttpAssumption, HttpTypeOK, NEW c \in Peers, NEW r \in Requests[c], Ask(c, r)
    PROVE  HttpTypeOK'
<1>1. r \in Request
  BY DEF HttpAssumption
<1>2. wire[c] \o Text(r) \in Seq(TokenSet)
  BY <1>1, TextType, ConcatProperties DEF HttpTypeOK
<1>3. Append(asked[c], r) \in Seq(Request)
  BY <1>1, AppendProperties DEF HttpTypeOK
<1>4. wire' \in [Peers -> Seq(TokenSet)]
  BY <1>2, Zenon DEF Ask, HttpTypeOK
<1>5. asked' \in [Peers -> Seq(Request)]
  BY <1>3, Zenon DEF Ask, HttpTypeOK
<1>6. UNCHANGED <<build, opened, accounts, restarts, readBuff, request, phase, answers,
                  fresh, tidy>>
  BY DEF Ask, store, history
<1> QED
  BY <1>4, <1>5, <1>6 DEF HttpTypeOK

LEMMA TypeRead ==
    ASSUME HttpAssumption, HttpTypeOK, NEW c \in Peers, NEW k \in 1 .. Len(wire[c]),
           Read(c, k)
    PROVE  HttpTypeOK'
<1>1. wire[c] \in Seq(TokenSet) /\ readBuff[c] \in Seq(TokenSet)
  BY DEF HttpTypeOK
<1>4. /\ SubSeq(wire[c], 1, k) \in Seq(TokenSet)
      /\ SubSeq(wire[c], k + 1, Len(wire[c])) \in Seq(TokenSet)
  BY <1>1, CutType
<1>6. readBuff[c] \o SubSeq(wire[c], 1, k) \in Seq(TokenSet)
  BY <1>1, <1>4, ConcatProperties
<1>7. readBuff' \in [Peers -> Seq(TokenSet)]
  BY <1>6, Zenon DEF Read, HttpTypeOK
<1>8. wire' \in [Peers -> Seq(TokenSet)]
  BY <1>4, Zenon DEF Read, HttpTypeOK
<1>9. request' \in [Peers -> State] /\ phase' \in [Peers -> PhaseSet]
  BY BeginType DEF Read
<1>10. fresh' \subseteq Peers /\ tidy' \subseteq Peers
  BY DEF Read, HttpTypeOK
<1>11. UNCHANGED <<build, opened, accounts, restarts, asked, answers>>
  BY DEF Read, store
<1> QED
  BY <1>7, <1>8, <1>9, <1>10, <1>11 DEF HttpTypeOK, PhaseSet

LEMMA TypeRequestLine ==
    ASSUME HttpAssumption, HttpTypeOK, NEW c \in Peers, ParseRequestLine(c)
    PROVE  HttpTypeOK'
<1> DEFINE line == FirstLine(readBuff[c])
<1>1. request' \in [Peers -> State] /\ phase' \in [Peers -> PhaseSet]
      /\ readBuff' \in [Peers -> Seq(TokenSet)]
  <2>1. CASE Begins(line, "start")
    <3>1. readBuff[c] \in Seq(TokenSet)
      BY DEF HttpTypeOK
    <3>2. line \in Seq(TokenSet)
      BY <3>1, RestType
    <3>3. line[1] \in TokenSet
      <4>1. Len(line) >= 2
        BY <2>1 DEF Begins
      <4> HIDE DEF line
      <4> QED
        BY <3>2, <4>1, FirstToken
    <3>4. ParsePath(line[1].of.path) \in Path
      BY <3>3, PathType DEF TokenSet, Request
    <3>5. request[c] \in State
      BY DEF HttpTypeOK
    <3> DEFINE s == [request[c] EXCEPT !.state = "HEADERS", !.path = ParsePath(line[1].of.path),
                                       !.post = line[1].of.method = "POST"]
    <3>6. (line[1].of.method = "POST") \in BOOLEAN
      OBVIOUS
    <3> HIDE DEF line
    <3>7. s \in State
      BY <3>4, <3>5, <3>6 DEF State
    <3>8. request' = [request EXCEPT ![c] = s]
      BY <2>1 DEF ParseRequestLine, line
    <3> HIDE DEF s
    <3>9. request' \in [Peers -> State]
      BY <3>7, <3>8 DEF HttpTypeOK
    <3>10. EndPass(c, "HEADERS")
      BY <2>1 DEF ParseRequestLine, line
    <3> QED
      BY <3>9, <3>10, EndPassType
  <2>2. CASE ~Begins(line, "start")
    BY <2>2 DEF ParseRequestLine, HttpTypeOK, PhaseSet
  <2> QED
    BY <2>1, <2>2
<1>2. UNCHANGED <<build, opened, accounts, restarts, wire, asked, answers, fresh, tidy>>
  BY DEF ParseRequestLine, store, network, history
<1> QED
  BY <1>1, <1>2 DEF HttpTypeOK, PhaseSet
LEMMA TypeHeader ==
    ASSUME HttpAssumption, HttpTypeOK, NEW c \in Peers, ParseHeader(c)
    PROVE  HttpTypeOK'
<1> DEFINE line == FirstLine(readBuff[c])
           s == [request[c] EXCEPT !.state = AfterHeader(c, line),
                                   !.keep = request[c].keep \/ Exactly(line, "Connection"),
                                   !.typed = request[c].typed \/ Exactly(line, "Content-Type")]
<1>1. AfterHeader(c, line) \in {"REQUEST_LINE", "HEADERS", "BODY", "FINISH"}
  BY DEF AfterHeader
<1>2. request[c] \in State
  BY DEF HttpTypeOK
<1>3. /\ (request[c].keep \/ Exactly(line, "Connection")) \in BOOLEAN
      /\ (request[c].typed \/ Exactly(line, "Content-Type")) \in BOOLEAN
  OBVIOUS
<1>4. s \in State
  BY <1>1, <1>2, <1>3 DEF State
<1>5. request' = [request EXCEPT ![c] = s]
  BY DEF ParseHeader
<1>6. EndPass(c, AfterHeader(c, line))
  BY DEF ParseHeader
<1> HIDE DEF s, line
<1>7. request' \in [Peers -> State]
  BY <1>4, <1>5 DEF HttpTypeOK
<1>8. readBuff' \in [Peers -> Seq(TokenSet)] /\ phase' \in [Peers -> PhaseSet]
  BY <1>6, EndPassType
<1>9. UNCHANGED <<build, opened, accounts, restarts, wire, asked, answers, fresh, tidy>>
  BY DEF ParseHeader, store, network, history
<1> QED
  BY <1>7, <1>8, <1>9 DEF HttpTypeOK, PhaseSet

\* What a body does: the request ends, an account is kept as it was, and an
\* account that is accepted is there.
LEMMA BodyFacts ==
    ASSUME HttpAssumption, HttpTypeOK, NEW c \in Peers, ParseBody(c)
    PROVE  /\ StoreOK' /\ Kept
           /\ \E s \in State :
                 /\ request' = [request EXCEPT ![c] = s]
                 /\ \/ s.account = NoAccount
                    \/ s.account = request[c].account
                    \/ Has(accounts', s.account)
<1>1. PICK a \in Named(FirstLine(readBuff[c])) : ParsePost(c, a)
  BY DEF ParseBody
<1>2. a \in Account
  <2>1. readBuff[c] \in Seq(TokenSet)
    BY DEF HttpTypeOK
  <2>2. FirstLine(readBuff[c]) \in Seq(TokenSet)
    BY <2>1, RestType
  <2> QED
    BY <2>2, NamedType
<1>3. request[c] \in State
  BY DEF HttpTypeOK
<1>4. StoreOK
  BY DEF HttpTypeOK, StoreOK
<1>5. /\ <<"welcome", TRUE>> \in Path
      /\ <<"error", TRUE>> \in Path
  BY DEF HttpAssumption, Path
<1>6. NoAccount \in Account
  BY DEF Account
<1>7. CASE \E isLogin, ok \in BOOLEAN :
              /\ a # NoAccount
              /\ Verify(a[1], a[2], isLogin, ok)
              /\ request' = [request EXCEPT
                     ![c].state = "FINISH",
                     ![c].path = <<IF ok THEN "welcome" ELSE "error", TRUE>>,
                     ![c].account = IF ok THEN a ELSE NoAccount]
  <2>1. PICK isLogin, ok \in BOOLEAN :
              /\ a # NoAccount
              /\ Verify(a[1], a[2], isLogin, ok)
              /\ request' = [request EXCEPT
                     ![c].state = "FINISH",
                     ![c].path = <<IF ok THEN "welcome" ELSE "error", TRUE>>,
                     ![c].account = IF ok THEN a ELSE NoAccount]
    BY <1>7
  <2>2. a[1] \in Texts /\ a[2] \in Password
    BY <1>2, <2>1 DEF Account
  <2>3. StoreOK' /\ Kept /\ (ok => Has(accounts', a))
    BY <1>4, <2>1, <2>2, VerifyFacts DEF Has
  <2> DEFINE page == <<IF ok THEN "welcome" ELSE "error", TRUE>>
             who == IF ok THEN a ELSE NoAccount
             s == [request[c] EXCEPT !.state = "FINISH", !.path = page, !.account = who]
  <2>4. page \in Path
    BY <1>5
  <2>5. who \in Account
    BY <1>2, <1>6
  <2>6. who = NoAccount \/ Has(accounts', who)
    BY <2>3 DEF Has
  <2>7. request' = [request EXCEPT ![c] = s]
    BY <2>1
  <2> HIDE DEF page, who
  <2>8. s \in State /\ s.account = who
    BY <1>3, <2>4, <2>5 DEF State
  <2> QED
    BY <2>3, <2>6, <2>7, <2>8, Zenon
<1>8. CASE /\ request' = [request EXCEPT ![c].state = "FINISH", ![c].path = <<"error", TRUE>>]
           /\ UNCHANGED accounts
  <2> DEFINE s == [request[c] EXCEPT !.state = "FINISH", !.path = <<"error", TRUE>>]
  <2>1. s \in State /\ s.account = request[c].account
    BY <1>3, <1>5 DEF State
  <2>2. request' = [request EXCEPT ![c] = s]
    BY <1>8
  <2>3. StoreOK' /\ Kept
    BY <1>4, <1>8 DEF StoreOK, Kept
  <2> QED
    BY <2>1, <2>2, <2>3, Zenon
<1>9. CASE /\ request' = [request EXCEPT ![c].state = "FINISH"]
           /\ UNCHANGED accounts
  <2> DEFINE s == [request[c] EXCEPT !.state = "FINISH"]
  <2>1. s \in State /\ s.account = request[c].account
    BY <1>3 DEF State
  <2>2. request' = [request EXCEPT ![c] = s]
    BY <1>9
  <2>3. StoreOK' /\ Kept
    BY <1>4, <1>9 DEF StoreOK, Kept
  <2> QED
    BY <2>1, <2>2, <2>3, Zenon
<1> QED
  BY <1>1, <1>7, <1>8, <1>9, Zenon DEF ParsePost

LEMMA TypeBody ==
    ASSUME HttpAssumption, HttpTypeOK, NEW c \in Peers, ParseBody(c)
    PROVE  HttpTypeOK'
<1>1. request' \in [Peers -> State]
  BY BodyFacts, Zenon DEF HttpTypeOK
<1>2. StoreOK'
  BY BodyFacts
<1>3. readBuff' \in [Peers -> Seq(TokenSet)] /\ phase' \in [Peers -> PhaseSet]
  BY EndPassType DEF ParseBody
<1>4. UNCHANGED <<build, opened, restarts, wire, asked, answers, fresh, tidy>>
  BY DEF ParseBody, network, history
<1> QED
  BY <1>1, <1>2, <1>3, <1>4 DEF HttpTypeOK, PhaseSet, StoreOK

LEMMA TypeRespond ==
    ASSUME HttpAssumption, HttpTypeOK, NEW c \in Peers, Respond(c)
    PROVE  HttpTypeOK'
<1> DEFINE answer == AnswerTo(request[c].path, phase[c], request[c].account, c, fresh)
<1>1. request[c] \in State /\ answers[c] \in Seq(Answer)
  BY DEF HttpTypeOK
<1>2. request[c].path \in Path /\ request[c].account \in Account
  BY <1>1 DEF State
<1>4. answers' = [answers EXCEPT ![c] = Append(answers[c], answer)]
  BY DEF Respond, AnswerTo, Outcome
<1>6. answer \in Answer
  BY <1>2, AnswerType, Zenon
<1> HIDE DEF answer
<1>7. Append(answers[c], answer) \in Seq(Answer)
  BY <1>1, <1>6, AppendProperties
<1>8. answers' \in [Peers -> Seq(Answer)]
  BY <1>4, <1>7, Zenon DEF HttpTypeOK
<1>9. request' \in [Peers -> State] /\ phase' \in [Peers -> PhaseSet]
  <2>1. CASE Begin(c, readBuff[c])
    BY <2>1, BeginType
  <2>2. CASE phase' = [phase EXCEPT ![c] = "closed"] /\ UNCHANGED request
    BY <2>2 DEF HttpTypeOK, PhaseSet
  <2> QED
    BY <2>1, <2>2 DEF Respond
<1>10. fresh' \subseteq Peers
  BY DEF Respond, HttpTypeOK
<1>11. UNCHANGED <<build, opened, accounts, restarts, wire, asked, readBuff, tidy>>
  BY DEF Respond, store, network
<1> QED
  BY <1>8, <1>9, <1>10, <1>11 DEF HttpTypeOK, PhaseSet

LEMMA TypeRestart ==
    ASSUME HttpAssumption, HttpTypeOK, Restart
    PROVE  HttpTypeOK'
<1>1. StoreOK
  BY DEF HttpTypeOK, StoreOK
<1>2. StoreOK'
  <2>1. CASE accounts' = LoadInMemory
    BY <2>1, LoadFacts
  <2>2. CASE accounts' = LoadInDatabase(accounts)
    BY <1>1, <2>2, LoadFacts
  <2>3. CASE UNCHANGED accounts
    BY <1>1, <2>3 DEF StoreOK
  <2> QED
    BY <2>1, <2>2, <2>3 DEF Restart
<1>3. << >> \in Seq(TokenSet) /\ << >> \in Seq(Request) /\ << >> \in Seq(Answer)
  BY EmptySeq
<1>4. \A T : << >> \in T => [c \in Peers |-> << >>] \in [Peers -> T]
  BY Zenon
<1>5. /\ wire' \in [Peers -> Seq(TokenSet)] /\ readBuff' \in [Peers -> Seq(TokenSet)]
      /\ asked' \in [Peers -> Seq(Request)] /\ answers' \in [Peers -> Seq(Answer)]
  BY <1>3, <1>4, Zenon DEF Restart
<1>6. request' \in [Peers -> State] /\ phase' \in [Peers -> PhaseSet]
  BY BlankType DEF Restart, PhaseSet
<1>7. restarts' \in Nat
  <2>1. restarts \in Nat /\ restarts' = restarts + 1
    BY Zenon DEF Restart, HttpTypeOK
  <2> QED
    BY <2>1, NextNat, Zenon
<1>8. opened' \in BOOLEAN
  <2>1. opened' = TRUE \/ opened' = FALSE \/ opened' = opened
    BY Zenon DEF Restart
  <2>2. opened \in BOOLEAN
    BY DEF HttpTypeOK
  <2> QED
    BY <2>1, <2>2, Zenon
<1>9. build' \in {"memory", "sqlite"} /\ fresh' \subseteq Peers /\ tidy' \subseteq Peers
  <2>1. build' = build /\ fresh' = {} /\ tidy' = Peers
    BY Zenon DEF Restart
  <2> QED
    BY <2>1 DEF HttpTypeOK
<1> QED
  BY <1>2, <1>5, <1>6, <1>7, <1>8, <1>9 DEF HttpTypeOK, PhaseSet, StoreOK
LEMMA TypeStep ==
    ASSUME HttpAssumption, HttpTypeOK, [HttpNext]_httpVars
    PROVE  HttpTypeOK'
<1>1. ASSUME NEW c \in Peers, NEW r \in Requests[c], Ask(c, r) PROVE HttpTypeOK'
  BY <1>1, TypeAsk
<1>2. ASSUME NEW c \in Peers, NEW k \in 1 .. Len(wire[c]), Read(c, k) PROVE HttpTypeOK'
  BY <1>2, TypeRead
<1>3. ASSUME NEW c \in Peers, Serve(c) PROVE HttpTypeOK'
  BY <1>3, TypeRequestLine, TypeHeader, TypeBody, TypeRespond DEF Serve
<1>4. CASE Restart
  BY <1>4, TypeRestart
<1>5. CASE UNCHANGED httpVars
  BY <1>5 DEF HttpTypeOK, httpVars, store, network, history
<1> QED
  BY <1>1, <1>2, <1>3, <1>4, <1>5 DEF HttpNext

\* Every state of the requests and of the accounts has its type (httprequest.h:54,
\* userstore.h:27).
THEOREM TypeCorrect == HttpSpec => []HttpTypeOK
<1>1. HttpInit => HttpTypeOK
  BY TypeInit, HttpAssumption
<1>2. HttpTypeOK /\ [HttpNext]_httpVars => HttpTypeOK'
  BY TypeStep, HttpAssumption
<1> QED
  BY <1>1, <1>2, PTL DEF HttpSpec

-----------------------------------------------------------------------------
(* The accounts are kept, and whoever is welcome has one.                  *)

\* A step keeps every account, or it restarts the server without a database.
LEMMA KeptStep ==
    ASSUME HttpAssumption, HttpTypeOK, HttpNext
    PROVE  Kept \/ (Restart /\ build = "memory")
<1>1. ASSUME UNCHANGED accounts PROVE Kept
  BY <1>1 DEF Kept
<1>2. ASSUME NEW c \in Peers, NEW r \in Requests[c], Ask(c, r) PROVE Kept
  BY <1>1, <1>2 DEF Ask, store
<1>3. ASSUME NEW c \in Peers, NEW k \in 1 .. Len(wire[c]), Read(c, k) PROVE Kept
  BY <1>1, <1>3 DEF Read, store
<1>4. ASSUME NEW c \in Peers, Serve(c) PROVE Kept
  <2>1. CASE ParseRequestLine(c)
    BY <1>1, <2>1 DEF ParseRequestLine, store
  <2>2. CASE ParseHeader(c)
    BY <1>1, <2>2 DEF ParseHeader, store
  <2>3. CASE ParseBody(c)
    BY <2>3, BodyFacts
  <2>4. CASE Respond(c)
    BY <1>1, <2>4 DEF Respond, store
  <2> QED
    BY <1>4, <2>1, <2>2, <2>3, <2>4 DEF Serve
<1>5. CASE Restart
  <2>1. CASE accounts' = LoadInDatabase(accounts)
    <3>1. StoreOK
      BY DEF HttpTypeOK, StoreOK
    <3> QED
      BY <2>1, <3>1, LoadFacts
  <2>2. CASE UNCHANGED accounts
    BY <1>1, <2>2
  <2>3. CASE build = "memory"
    BY <1>5, <2>3
  <2> QED
    BY <1>5, <2>1, <2>2, <2>3 DEF Restart
<1> QED
  BY <1>2, <1>3, <1>4, <1>5 DEF HttpNext

\* An account keeps its password whatever the connections do at the same time; only
\* a restart of the build without a database forgets it (userstore.cpp:64, 185).
THEOREM AccountsAreKept == HttpSpec => AccountsKept
<1>1. ASSUME HttpTypeOK, [HttpNext]_httpVars
      PROVE  [Remembers]_httpVars
  <2>1. CASE UNCHANGED httpVars
    BY <2>1
  <2>2. CASE Kept
    BY <2>2 DEF Kept, Remembers
  <2>3. CASE Restart /\ build = "memory"
    <3>1. restarts \in Nat
      BY <1>1 DEF HttpTypeOK
    <3>2. restarts' = restarts + 1
      BY <2>3 DEF Restart
    <3>3. restarts' # restarts
      BY <3>1, <3>2, NextNat, Zenon
    <3> QED
      BY <2>3, <3>3 DEF Remembers
  <2> QED
    BY <1>1, <2>1, <2>2, <2>3, KeptStep, HttpAssumption
<1> QED
  BY <1>1, TypeCorrect, PTL DEF HttpSpec, AccountsKept

\* What a request has been granted is there, and stays there until it is answered.
Granted ==
    /\ WelcomeMeansAccount
    /\ \A c \in Peers : LET a == request[c].account IN a # NoAccount => Matches(a[1], a[2])

\* An account that is there stays there.
LEMMA MatchesKept ==
    ASSUME Kept, NEW a, a # NoAccount => Matches(a[1], a[2])
    PROVE  a # NoAccount => Has(accounts', a)
BY DEF Kept, Matches, Has

LEMMA GrantedInit ==
    ASSUME HttpInit
    PROVE  Granted
<1>1. Len(<< >>) = 0
  BY EmptySeq
<1>2. \A c \in Peers : answers[c] = << >> /\ request[c] = Blank
  BY DEF HttpInit
<1>3. WelcomeMeansAccount
  BY <1>1, <1>2 DEF WelcomeMeansAccount
<1> QED
  BY <1>2, <1>3 DEF Granted, Blank

\* The answers are kept, or one with the account of the request is added.
LEMMA AnswersGranted ==
    ASSUME HttpTypeOK, Granted, Kept,
           \/ UNCHANGED answers
           \/ \E c \in Peers : \E x : /\ x.account = request[c].account
                                     /\ answers' = [answers EXCEPT ![c] = Append(@, x)]
    PROVE  WelcomeMeansAccount'
<1>1. CASE UNCHANGED answers
  BY <1>1, MatchesKept, Zenon DEF Granted, WelcomeMeansAccount, Matches, Has
<1>2. ASSUME NEW c \in Peers, NEW x, x.account = request[c].account,
             answers' = [answers EXCEPT ![c] = Append(@, x)]
      PROVE  WelcomeMeansAccount'
  <2>1. \A d \in Peers : answers[d] \in Seq(Answer)
    BY DEF HttpTypeOK
  <2>2. SUFFICES ASSUME NEW d \in Peers, NEW l \in 1 .. Len(answers'[d])
                 PROVE  LET a == answers'[d][l].account
                        IN  a # NoAccount => Has(accounts', a)
    BY DEF WelcomeMeansAccount, Matches, Has
  <2>3. CASE l \in 1 .. Len(answers[d]) /\ answers'[d][l] = answers[d][l]
    BY <2>3, MatchesKept, Zenon DEF Granted, WelcomeMeansAccount
  <2>4. CASE d = c /\ answers'[d][l] = x
    BY <1>2, <2>4, MatchesKept, Zenon DEF Granted
  <2>5. \/ l \in 1 .. Len(answers[d]) /\ answers'[d][l] = answers[d][l]
        \/ d = c /\ answers'[d][l] = x
    <3>1. CASE d # c
      <4>1. answers'[d] = answers[d]
        BY <1>2, <3>1 DEF HttpTypeOK
      <4> QED
        BY <4>1
    <3>2. CASE d = c
      <4>1. answers'[c] = Append(answers[c], x)
        BY <1>2 DEF HttpTypeOK
      <4>2. answers[c] \in Seq(Answer \cup {x})
        BY <2>1, SeqMonotonic
      <4> QED
        BY <3>2, <4>1, <4>2, AppendProperties
    <3> QED
      BY <3>1, <3>2
  <2> QED
    BY <2>3, <2>4, <2>5
<1> QED
  BY <1>1, <1>2
\* The requests are kept or emptied, or one is granted what is there.
LEMMA RequestsGranted ==
    ASSUME HttpTypeOK, Granted, Kept,
           \A d \in Peers :
              \/ request'[d].account = request[d].account
              \/ request'[d].account = NoAccount
              \/ Has(accounts', request'[d].account)
    PROVE  \A d \in Peers : LET a == request'[d].account
                            IN  a # NoAccount => Has(accounts', a)
BY MatchesKept, Zenon DEF Granted

LEMMA BeginKeeps ==
    ASSUME HttpTypeOK, NEW c \in Peers, NEW text, Begin(c, text)
    PROVE  \A d \in Peers : \/ request'[d].account = request[d].account
                            \/ request'[d].account = NoAccount
BY DEF Begin, Blank, HttpTypeOK

LEMMA SameAccount ==
    ASSUME HttpTypeOK, NEW c \in Peers, NEW s, s.account = request[c].account,
           request' = [request EXCEPT ![c] = s]
    PROVE  \A d \in Peers : request'[d].account = request[d].account
BY DEF HttpTypeOK

LEMMA GrantedStep ==
    ASSUME HttpAssumption, HttpTypeOK, Granted, HttpNext, ~Restart
    PROVE  Granted'
<1>1. Kept
  BY KeptStep
<1>2. \/ UNCHANGED answers
      \/ \E c \in Peers : \E x : /\ x.account = request[c].account
                                /\ answers' = [answers EXCEPT ![c] = Append(@, x)]
  <2>1. ASSUME NEW c \in Peers, Respond(c)
        PROVE  \E x : x.account = request[c].account
                      /\ answers' = [answers EXCEPT ![c] = Append(@, x)]
    <3> DEFINE x == AnswerTo(request[c].path, phase[c], request[c].account, c, fresh)
    <3>1. answers' = [answers EXCEPT ![c] = Append(answers[c], x)]
      BY <2>1 DEF Respond, AnswerTo, Outcome
    <3>2. x.account = request[c].account
      BY DEF AnswerTo
    <3> HIDE DEF x
    <3> QED
      BY <3>1, <3>2
  <2>2. ASSUME NEW c \in Peers,
               \/ \E r \in Requests[c] : Ask(c, r)
               \/ \E k \in 1 .. Len(wire[c]) : Read(c, k)
               \/ ParseRequestLine(c) \/ ParseHeader(c) \/ ParseBody(c)
        PROVE  UNCHANGED answers
    BY <2>2 DEF Ask, Read, ParseRequestLine, ParseHeader, ParseBody, history
  <2> QED
    BY <2>1, <2>2 DEF HttpNext, Serve
<1>3. WelcomeMeansAccount'
  BY <1>1, <1>2, AnswersGranted
<1>4. \A d \in Peers :
         \/ request'[d].account = request[d].account
         \/ request'[d].account = NoAccount
         \/ Has(accounts', request'[d].account)
  <2>1. ASSUME NEW c \in Peers, NEW r \in Requests[c], Ask(c, r) PROVE UNCHANGED request
    BY <2>1 DEF Ask
  <2>2. ASSUME NEW c \in Peers, NEW k \in 1 .. Len(wire[c]), Read(c, k)
        PROVE  \A d \in Peers : \/ request'[d].account = request[d].account
                                \/ request'[d].account = NoAccount
    BY <2>2, BeginKeeps DEF Read
  <2>3. ASSUME NEW c \in Peers, ParseRequestLine(c) \/ ParseHeader(c)
        PROVE  \A d \in Peers : request'[d].account = request[d].account
    <3> DEFINE line == FirstLine(readBuff[c])
    <3>1. request[c] \in State
      BY DEF HttpTypeOK
    <3>2. CASE ParseRequestLine(c)
      <4> DEFINE s == [request[c] EXCEPT !.state = "HEADERS",
                                         !.path = ParsePath(line[1].of.path),
                                         !.post = line[1].of.method = "POST"]
      <4>1. s.account = request[c].account
        BY <3>1 DEF State
      <4>2. UNCHANGED request \/ request' = [request EXCEPT ![c] = s]
        BY <3>2 DEF ParseRequestLine
      <4> HIDE DEF s
      <4> QED
        BY <4>1, <4>2, SameAccount
    <3>3. CASE ParseHeader(c)
      <4> DEFINE s == [request[c] EXCEPT !.state = AfterHeader(c, line),
                           !.keep = request[c].keep \/ Exactly(line, "Connection"),
                           !.typed = request[c].typed \/ Exactly(line, "Content-Type")]
      <4>1. s.account = request[c].account
        BY <3>1 DEF State
      <4>2. request' = [request EXCEPT ![c] = s]
        BY <3>3 DEF ParseHeader
      <4> HIDE DEF s
      <4> QED
        BY <4>1, <4>2, SameAccount
    <3> QED
      BY <2>3, <3>2, <3>3
  <2>4. ASSUME NEW c \in Peers, Respond(c)
        PROVE  \A d \in Peers : \/ request'[d].account = request[d].account
                                \/ request'[d].account = NoAccount
    BY <2>4, BeginKeeps DEF Respond
  <2>5. ASSUME NEW c \in Peers, ParseBody(c)
        PROVE  \A d \in Peers :
                  \/ request'[d].account = request[d].account
                  \/ request'[d].account = NoAccount
                  \/ Has(accounts', request'[d].account)
    <3>1. PICK s \in State :
                 /\ request' = [request EXCEPT ![c] = s]
                 /\ \/ s.account = NoAccount
                    \/ s.account = request[c].account
                    \/ Has(accounts', s.account)
      BY <2>5, BodyFacts
    <3> QED
      BY <3>1 DEF HttpTypeOK
  <2> QED
    BY <2>1, <2>2, <2>3, <2>4, <2>5 DEF HttpNext, Serve
<1>5. \A d \in Peers : LET a == request'[d].account
                       IN  a # NoAccount => Has(accounts', a)
  BY <1>1, <1>4, RequestsGranted
<1> QED
  BY <1>3, <1>5, Zenon DEF Granted, Matches, Has

LEMMA GrantedRestart ==
    ASSUME Restart
    PROVE  Granted'
<1>1. Len(<< >>) = 0
  BY EmptySeq
<1>2. \A c \in Peers : answers'[c] = << >> /\ request'[c] = Blank
  BY DEF Restart
<1>3. WelcomeMeansAccount'
  BY <1>1, <1>2 DEF WelcomeMeansAccount
<1> QED
  BY <1>2, <1>3 DEF Granted, Blank

\* Whoever is shown the page of success has the account that he named, with the
\* password he gave, whatever others register at the same time (httprequest.cpp:197,
\* userstore.cpp:65).
THEOREM WelcomeIsRight == HttpSpec => []WelcomeMeansAccount
<1>1. HttpInit => Granted
  BY GrantedInit
<1>2. HttpTypeOK /\ Granted /\ [HttpNext]_httpVars => Granted'
  <2>1. CASE UNCHANGED httpVars
    BY <2>1 DEF Granted, WelcomeMeansAccount, Matches, httpVars, store, history
  <2> QED
    BY <2>1, GrantedStep, GrantedRestart, HttpAssumption
<1>3. Granted => WelcomeMeansAccount
  BY DEF Granted
<1> QED
  BY <1>1, <1>2, <1>3, TypeCorrect, PTL DEF HttpSpec

-----------------------------------------------------------------------------
(* Lines of a text.                                                        *)

LineKinds == {"start", "Connection", "Content-Type", "form"}

LEMMA MinIs ==
    ASSUME NEW S \in SUBSET Nat, NEW m \in S, \A y \in S : m <= y
    PROVE  Min(S) = m
<1>1. Min(S) \in S /\ \A y \in S : Min(S) <= y
  BY DEF Min
<1>2. Min(S) <= m /\ m <= Min(S) /\ m \in Nat /\ Min(S) \in Nat
  BY <1>1
<1> QED
  BY <1>2

LEMMA EndOfConcat ==
    ASSUME NEW S, NEW s \in Seq(S), NEW t \in Seq(S), Len(t) # 0
    PROVE  SubSeq(s \o t, Len(s) + 1, Len(s) + Len(t)) = t
<1>1. Len(s) \in Nat /\ Len(t) \in Nat
  BY LenProperties
<1>2. ASSUME NEW k \in Len(s) + 1 .. Len(s) + Len(t), NEW m \in Len(s) + 1 .. Len(s) + Len(t),
             k - Len(s) = 1, m - Len(s) = Len(t)
      PROVE  SubSeq(s \o t, k, m) = t
  <2>1. SubSeq(s \o t, k, m) = SubSeq(t, k - Len(s), m - Len(s))
    BY SubSeqOfConcat2
  <2> QED
    BY <1>2, <2>1, SubSeqFull
<1>3. /\ Len(s) + 1 \in Len(s) + 1 .. Len(s) + Len(t)
      /\ Len(s) + Len(t) \in Len(s) + 1 .. Len(s) + Len(t)
      /\ (Len(s) + 1) - Len(s) = 1 /\ (Len(s) + Len(t)) - Len(s) = Len(t)
  BY <1>1
<1> QED
  BY <1>2, <1>3, Zenon

\* A text is cut at the first CRLF.
LEMMA CutAt ==
    ASSUME NEW r \in Request, NEW p \in Seq(TokenSet), NEW t \in Seq(TokenSet),
           \A k \in 1 .. Len(p) : p[k].kind # "CR"
    PROVE  LET s == p \o CRLF(r) \o t
           IN  /\ s \in Seq(TokenSet) /\ Len(s) = Len(p) + 2 + Len(t)
               /\ EndsAt(s) # {} /\ FirstLine(s) = p /\ Rest(s) = t
<1> DEFINE a == Len(p)
           C == CRLF(r)
           q == p \o C
           s == q \o t
<1>1. C \in Seq(TokenSet) /\ Len(C) = 2 /\ C[1].kind = "CR" /\ C[2].kind = "LF"
  <2>1. C \in Seq(TokenSet)
    BY LineType
  <2> QED
    BY <2>1 DEF CRLF, Token
<1>2. a \in Nat /\ Len(t) \in Nat
  BY LenProperties
<1> HIDE DEF C, a
<1>3. /\ q \in Seq(TokenSet) /\ Len(q) = a + 2
      /\ \A k \in 1 .. a : q[k] = p[k]
      /\ q[a + 1] = C[1] /\ q[a + 2] = C[2]
  <2>1. /\ q \in Seq(TokenSet) /\ Len(q) = a + Len(C)
        /\ \A k \in 1 .. a + Len(C) : q[k] = IF k <= a THEN p[k] ELSE C[k - a]
    BY <1>1, ConcatProperties DEF a
  <2> HIDE DEF q
  <2>2. a + 1 \in 1 .. a + 2 /\ a + 2 \in 1 .. a + 2 /\ \A k \in 1 .. a : k \in 1 .. a + 2
    BY <1>2
  <2>3. (a + 1) - a = 1 /\ (a + 2) - a = 2 /\ ~(a + 1 <= a) /\ ~(a + 2 <= a)
    BY <1>2
  <2>4. q[a + 1] = C[1] /\ q[a + 2] = C[2]
    BY <1>1, <2>1, <2>2, <2>3
  <2>5. \A k \in 1 .. a : q[k] = p[k]
    BY <1>1, <1>2, <2>1, <2>2
  <2> QED
    BY <1>1, <2>1, <2>4, <2>5
<1>4. s = q \o t
  OBVIOUS
<1> HIDE DEF s
<1>5. SubSeq(q, 1, a) = p
  <2>1. CASE a = 0
    <3>1. p = << >>
      BY <2>1, EmptySeq DEF a
    <3> QED
      BY <2>1, <3>1, SubSeqEmpty
  <2>2. CASE a # 0
    <3>1. 1 \in 1 .. a /\ a \in 1 .. a
      BY <1>2, <2>2
    <3>2. SubSeq(q, 1, a) = SubSeq(p, 1, a)
      BY <1>1, <3>1, SubSeqOfConcat1 DEF a
    <3> QED
      BY <3>2, SubSeqFull DEF a
  <2> QED
    BY <2>1, <2>2
<1> HIDE DEF q
<1>6. /\ s \in Seq(TokenSet) /\ Len(s) = a + 2 + Len(t)
      /\ \A k \in 1 .. a + 2 : s[k] = q[k]
  <2> DEFINE b == Len(q)
             e == Len(t)
  <2>1. /\ s \in Seq(TokenSet) /\ Len(s) = b + e
        /\ \A k \in 1 .. b + e : s[k] = IF k <= b THEN q[k] ELSE t[k - b]
    <3>1. /\ q \o t \in Seq(TokenSet) /\ Len(q \o t) = b + e
          /\ \A k \in 1 .. b + e : (q \o t)[k] = IF k <= b THEN q[k] ELSE t[k - b]
      BY <1>3, ConcatProperties, Zenon
    <3> QED
      BY <1>4, <3>1, Zenon
  <2>2. b = a + 2 /\ e \in Nat
    BY <1>2, <1>3
  <2> HIDE DEF b, e
  <2>3. \A k \in 1 .. a + 2 : k \in 1 .. b + e /\ k <= b
    BY <1>2, <2>2
  <2>4. Len(s) = a + 2 + e
    BY <2>1, <2>2
  <2>5. Len(s) = a + 2 + Len(t)
    BY <2>4 DEF e
  <2> QED
    BY <2>1, <2>3, <2>5
<1>7. a + 1 \in EndsAt(s)
  <2>1. a + 1 \in 1 .. a + 2 /\ a + 2 \in 1 .. a + 2 /\ (a + 1) + 1 = a + 2
    BY <1>2
  <2>2. s[a + 1] = C[1] /\ s[a + 2] = C[2]
    BY <1>3, <1>6, <2>1
  <2>3. a + 1 \in 1 .. Len(s) - 1
    BY <1>2, <1>6
  <2> QED
    BY <1>1, <2>1, <2>2, <2>3 DEF EndsAt
<1>8. \A k \in EndsAt(s) : k \in Nat /\ a + 1 <= k
  <2> SUFFICES ASSUME NEW k \in EndsAt(s) PROVE k \in Nat /\ a + 1 <= k
    OBVIOUS
  <2>1. k \in 1 .. Len(s) - 1 /\ s[k].kind = "CR"
    BY DEF EndsAt
  <2>2. \A m \in 1 .. a : p[m].kind # "CR"
    BY DEF a
  <2>3. k \in 1 .. a => s[k] = p[k]
    BY <1>2, <1>3, <1>6
  <2> QED
    BY <1>2, <2>1, <2>2, <2>3
<1>9. Min(EndsAt(s)) = a + 1
  BY <1>7, <1>8, MinIs
<1>10. FirstLine(s) = SubSeq(s, 1, a)
  <2>1. FirstLine(s) = SubSeq(s, 1, Min(EndsAt(s)) - 1)
    BY <1>7 DEF FirstLine
  <2>2. Min(EndsAt(s)) - 1 = a
    BY <1>2, <1>9
  <2> QED
    BY <2>1, <2>2
<1>11. SubSeq(s, 1, a) = p
  <2>1. CASE a = 0
    <3>1. p = << >>
      BY <2>1, EmptySeq DEF a
    <3> QED
      BY <2>1, <3>1, SubSeqEmpty
  <2>2. CASE a # 0
    <3>1. 1 \in 1 .. Len(q) /\ a \in 1 .. Len(q)
      BY <1>2, <1>3, <2>2
    <3>2. SubSeq(s, 1, a) = SubSeq(q, 1, a)
      BY <1>3, <1>4, <3>1, SubSeqOfConcat1
    <3> QED
      BY <1>5, <3>2
  <2> QED
    BY <2>1, <2>2
<1>12. Rest(s) = SubSeq(s, a + 3, Len(s))
  <2>1. Rest(s) = SubSeq(s, Min(EndsAt(s)) + 2, Len(s))
    BY <1>7 DEF Rest
  <2>2. Min(EndsAt(s)) + 2 = a + 3
    BY <1>2, <1>9
  <2> QED
    BY <2>1, <2>2
<1>13. SubSeq(s, a + 3, Len(s)) = t
  <2>1. CASE Len(t) = 0
    <3>1. t = << >> /\ Len(s) < a + 3 /\ a + 3 \in Int /\ Len(s) \in Int
      BY <1>2, <1>6, <2>1, EmptySeq
    <3> QED
      BY <3>1, SubSeqEmpty
  <2>2. CASE Len(t) # 0
    <3>1. a + 3 = Len(q) + 1 /\ Len(s) = Len(q) + Len(t)
      BY <1>2, <1>3, <1>6
    <3> QED
      BY <1>3, <1>4, <2>2, <3>1, EndOfConcat
  <2> QED
    BY <2>1, <2>2
<1> QED
  BY <1>2, <1>3, <1>6, <1>7, <1>10, <1>11, <1>12, <1>13 DEF a, s, q, C

LEMMA LineFacts ==
    ASSUME NEW r \in Request, NEW kind \in LineKinds
    PROVE  /\ Line(r, kind) \in Seq(TokenSet) /\ Len(Line(r, kind)) = 2
           /\ Line(r, kind)[1] = Token(r, kind, 1) /\ Line(r, kind)[2] = Token(r, kind, 2)
           /\ \A k \in 1 .. 2 : Line(r, kind)[k].kind = kind
           /\ Begins(Line(r, kind), kind)
           /\ \A other : Exactly(Line(r, kind), other) <=> other = kind
<1>1. Line(r, kind) \in Seq(TokenSet)
  BY LineType DEF LineKinds
<1>2. /\ Len(Line(r, kind)) = 2
      /\ Line(r, kind)[1] = Token(r, kind, 1) /\ Line(r, kind)[2] = Token(r, kind, 2)
  BY <1>1 DEF Line
<1>3. \A half : Token(r, kind, half).kind = kind /\ Token(r, kind, half).half = half
  BY DEF Token
<1> QED
  BY <1>1, <1>2, <1>3 DEF Begins, Exactly

\* A text that begins with a line, and one that begins with an empty line.
LEMMA CutLine ==
    ASSUME NEW r \in Request, NEW kind \in LineKinds, NEW t \in Seq(TokenSet)
    PROVE  LET s == Line(r, kind) \o CRLF(r) \o t
           IN  /\ s \in Seq(TokenSet) /\ s # << >>
               /\ EndsAt(s) # {} /\ FirstLine(s) = Line(r, kind) /\ Rest(s) = t
               /\ ~AtMostTwoBytes(s)
<1> DEFINE s == Line(r, kind) \o CRLF(r) \o t
<1> HIDE DEF s
<1>1. /\ s \in Seq(TokenSet) /\ Len(s) = 2 + 2 + Len(t) /\ Len(t) \in Nat
      /\ EndsAt(s) # {} /\ FirstLine(s) = Line(r, kind) /\ Rest(s) = t
  <2> DEFINE p == Line(r, kind)
  <2>1. p \in Seq(TokenSet) /\ Len(p) = 2 /\ \A k \in 1 .. 2 : p[k].kind = kind
    BY LineFacts
  <2>2. kind # "CR"
    BY DEF LineKinds
  <2> HIDE DEF p
  <2>3. s = p \o CRLF(r) \o t
    BY DEF p, s
  <2>4. \A k \in 1 .. Len(p) : p[k].kind # "CR"
    BY <2>1, <2>2
  <2>5. /\ s \in Seq(TokenSet) /\ Len(s) = Len(p) + 2 + Len(t)
        /\ EndsAt(s) # {} /\ FirstLine(s) = p /\ Rest(s) = t
    BY <2>1, <2>3, <2>4, CutAt, Zenon
  <2> QED
    BY <2>1, <2>5, LenProperties DEF p
<1>2. Len(s) > 2
  BY <1>1
<1> QED
  BY <1>1, <1>2, EmptySeq DEF AtMostTwoBytes, s

LEMMA CutEmpty ==
    ASSUME NEW r \in Request, NEW t \in Seq(TokenSet)
    PROVE  LET s == CRLF(r) \o t
           IN  /\ s \in Seq(TokenSet) /\ s # << >>
               /\ EndsAt(s) # {} /\ FirstLine(s) = << >> /\ Rest(s) = t
               /\ AtMostTwoBytes(s) <=> t = << >>
<1> DEFINE s == CRLF(r) \o t
<1> HIDE DEF s
<1>1. << >> \in Seq(TokenSet) /\ Len(<< >>) = 0 /\ << >> \o CRLF(r) = CRLF(r)
  BY LineType, EmptySeq, ConcatEmptySeq
<1>2. /\ s \in Seq(TokenSet) /\ Len(s) = 0 + 2 + Len(t) /\ Len(t) \in Nat
      /\ EndsAt(s) # {} /\ FirstLine(s) = << >> /\ Rest(s) = t
  <2> DEFINE p == << >>
  <2>1. p \in Seq(TokenSet) /\ Len(p) = 0 /\ s = p \o CRLF(r) \o t
    BY <1>1 DEF s
  <2> HIDE DEF p
  <2>2. \A k \in 1 .. Len(p) : p[k].kind # "CR"
    BY <2>1
  <2>3. /\ s \in Seq(TokenSet) /\ Len(s) = Len(p) + 2 + Len(t)
        /\ EndsAt(s) # {} /\ FirstLine(s) = p /\ Rest(s) = t
    BY <2>1, <2>2, CutAt, Zenon
  <2> QED
    BY <2>1, <2>3, LenProperties DEF p
<1>3. t = << >> => AtMostTwoBytes(s)
  <2> SUFFICES ASSUME t = << >> PROVE AtMostTwoBytes(s)
    OBVIOUS
  <2>1. s = CRLF(r)
    BY LineType, ConcatEmptySeq DEF s
  <2> QED
    BY <2>1 DEF CRLF, Token, AtMostTwoBytes
<1>4. t # << >> => ~AtMostTwoBytes(s)
  BY <1>2, EmptySeq DEF AtMostTwoBytes
<1>5. s # << >>
  BY <1>1, <1>2
<1> QED
  BY <1>2, <1>3, <1>4, <1>5 DEF s
-----------------------------------------------------------------------------
(* Whole requests.                                                         *)

LEMMA LeftType ==
    ASSUME NEW r \in Request
    PROVE  /\ FormOf(r) \in Seq(TokenSet) /\ EmptyLineOf(r) \in Seq(TokenSet)
           /\ TypeOf(r) \in Seq(TokenSet) /\ KeepOf(r) \in Seq(TokenSet)
           /\ r.method = "POST" => FormOf(r) # << >>
           /\ EmptyLineOf(r) # << >> /\ TypeOf(r) # << >> /\ KeepOf(r) # << >>
<1>1. << >> \in Seq(TokenSet) /\ CRLF(r) \in Seq(TokenSet)
  BY EmptySeq, LineType
<1>2. r.method = "POST" => FormOf(r) \in Seq(TokenSet) /\ FormOf(r) # << >>
  <2>1. /\ Line(r, "form") \o CRLF(r) \o << >> \in Seq(TokenSet)
        /\ Line(r, "form") \o CRLF(r) \o << >> # << >>
    BY <1>1, CutLine DEF LineKinds
  <2>2. Line(r, "form") \o CRLF(r) \in Seq(TokenSet)
    BY LineType, ConcatProperties
  <2>3. Line(r, "form") \o CRLF(r) \o << >> = Line(r, "form") \o CRLF(r)
    BY <2>2, ConcatEmptySeq
  <2> QED
    BY <2>1, <2>3 DEF FormOf
<1>3. FormOf(r) \in Seq(TokenSet)
  BY <1>1, <1>2 DEF FormOf
<1>4. EmptyLineOf(r) \in Seq(TokenSet) /\ EmptyLineOf(r) # << >>
  BY <1>3, CutEmpty DEF EmptyLineOf
<1>5. TypeOf(r) \in Seq(TokenSet) /\ TypeOf(r) # << >>
  <2>1. /\ Line(r, "Content-Type") \o CRLF(r) \o EmptyLineOf(r) \in Seq(TokenSet)
        /\ Line(r, "Content-Type") \o CRLF(r) \o EmptyLineOf(r) # << >>
    BY <1>4, CutLine DEF LineKinds
  <2> QED
    BY <1>4, <2>1 DEF TypeOf
<1>6. KeepOf(r) \in Seq(TokenSet) /\ KeepOf(r) # << >>
  <2>1. /\ Line(r, "Connection") \o CRLF(r) \o TypeOf(r) \in Seq(TokenSet)
        /\ Line(r, "Connection") \o CRLF(r) \o TypeOf(r) # << >>
    BY <1>5, CutLine DEF LineKinds
  <2> QED
    BY <1>5, <2>1 DEF KeepOf
<1> QED
  BY <1>2, <1>3, <1>4, <1>5, <1>6

\* A request whose body ends with CRLF is its lines one after the other.
LEMMA TextIs ==
    ASSUME NEW r \in Request, r.method = "POST" => r.ended
    PROVE  Text(r) = Line(r, "start") \o CRLF(r) \o KeepOf(r)
<1> DEFINE Q == Seq(TokenSet)
           C == CRLF(r)
           S == Line(r, "start")
           Z == Line(r, "Connection")
           Y == Line(r, "Content-Type")
           F == Line(r, "form")
           E == << >>
           J == IF r.method = "POST" THEN Y \o C \o C \o F \o (IF r.ended THEN C ELSE E) ELSE C
           W == IF r.keep THEN Z \o C ELSE E
<1>1. C \in Q /\ S \in Q /\ Z \in Q /\ Y \in Q /\ F \in Q /\ E \in Q
  BY LineType, EmptySeq
<1>2. \A s, v \in Q : s \o v \in Q
  BY ConcatProperties
<1>3. \A s, v, w \in Q : (s \o v) \o w = s \o (v \o w)
  BY ConcatAssociative, SMTT(30)
<1>4. \A s \in Q : s \o E = s /\ E \o s = s
  BY ConcatEmptySeq
<1>5. Text(r) = S \o C \o W \o J
  BY DEF Text
<1>6. /\ FormOf(r) = IF r.method = "POST" THEN F \o C ELSE E
      /\ EmptyLineOf(r) = C \o FormOf(r)
      /\ TypeOf(r) = IF r.method = "POST" THEN Y \o C \o EmptyLineOf(r) ELSE EmptyLineOf(r)
      /\ KeepOf(r) = IF r.keep THEN Z \o C \o TypeOf(r) ELSE TypeOf(r)
  BY DEF FormOf, EmptyLineOf, TypeOf, KeepOf
<1>7. TypeOf(r) \in Q
  BY LeftType
<1> HIDE DEF Q, C, S, Z, Y, F, E
<1>8. J = TypeOf(r)
  <2>1. CASE r.method = "POST"
    <3>1. J = (((Y \o C) \o C) \o F) \o C
      BY <2>1
    <3>2. TypeOf(r) = (Y \o C) \o (C \o (F \o C))
      BY <1>6, <2>1
    <3>3. Y \o C \in Q /\ F \o C \in Q /\ (Y \o C) \o C \in Q
      BY <1>1, <1>2
    <3> DEFINE YC == Y \o C
               YCC == YC \o C
               FC == F \o C
    <3>4. YC \in Q /\ YCC \in Q /\ FC \in Q
      BY <3>3
    <3>5. C \in Q
      BY <1>1
    <3>6. F \in Q
      BY <1>1
    <3>7. YCC \o FC = YC \o (C \o FC)
      <4> HIDE DEF YC, FC
      <4> QED
        BY <1>3, <3>4, <3>5
    <3>8. (YCC \o F) \o C = YCC \o FC
      <4> HIDE DEF YCC
      <4> QED
        BY <1>3, <3>4, <3>5, <3>6, SMTT(30)
    <3> QED
      BY <3>1, <3>2, <3>7, <3>8
  <2>2. CASE r.method # "POST"
    BY <1>1, <1>4, <1>6, <2>2
  <2> QED
    BY <2>1, <2>2
<1> HIDE DEF J
<1>9. W \o J = KeepOf(r)
  <2>1. CASE r.keep
    BY <1>6, <1>8, <2>1
  <2>2. CASE ~r.keep
    BY <1>4, <1>6, <1>7, <1>8, <2>2
  <2> QED
    BY <2>1, <2>2
<1>10. W \in Q /\ S \o C \in Q /\ J \in Q
  BY <1>1, <1>2, <1>7, <1>8
<1> HIDE DEF W
<1>11. ((S \o C) \o W) \o J = (S \o C) \o (W \o J)
  BY <1>3, <1>10
<1> QED
  BY <1>5, <1>9, <1>11 DEF S, C

\* What the lines of a request are to the parser.
LEMMA LinesParsed ==
    ASSUME NEW r \in Request
    PROVE  /\ HasColon(Line(r, "Connection")) /\ HasColon(Line(r, "Content-Type"))
           /\ ~HasColon(<< >>) /\ \A kind : ~Exactly(<< >>, kind)
           /\ Line(r, "start")[1].of = r
           /\ Named(Line(r, "form")) = {<<r.name, <<r.password, TRUE>>>>}
<1>1. Len(<< >>) = 0
  BY EmptySeq
<1>2. ~HasColon(<< >>) /\ \A kind : ~Exactly(<< >>, kind)
  BY <1>1 DEF HasColon, Exactly, Begins
<1>3. \A kind : Token(r, kind, 1).of = r /\ Token(r, kind, 1).kind = kind
                /\ Token(r, kind, 1).half = 1
  BY DEF Token
<1>4. ASSUME NEW kind \in {"Connection", "Content-Type"}
      PROVE  HasColon(Line(r, kind))
  <2>1. Len(Line(r, kind)) = 2 /\ Line(r, kind)[1] = Token(r, kind, 1)
    BY LineFacts DEF LineKinds
  <2>2. 1 \in 1 .. Len(Line(r, kind))
    BY <2>1
  <2> QED
    BY <1>3, <2>1, <2>2 DEF HasColon
<1>5. Line(r, "start")[1].of = r /\ Line(r, "form")[1].of = r /\ Begins(Line(r, "form"), "form")
  BY <1>3, LineFacts DEF LineKinds
<1>6. Named(Line(r, "form")) = {<<r.name, <<r.password, TRUE>>>>}
  BY <1>5 DEF Named
<1> QED
  BY <1>2, <1>4, <1>5, <1>6

LEMMA FormPath ==
    ASSUME NEW p \in Path
    PROVE  ParsePath(p)[1] \in {"login", "register"} <=>
              ParsePath(p) \in {<<"register", TRUE>>, <<"login", TRUE>>}
<1>1. /\ <<"index", TRUE>>[1] = "index" /\ NoPath[1] = ""
      /\ <<"register", TRUE>>[1] = "register" /\ <<"login", TRUE>>[1] = "login"
  BY DEF NoPath
<1>2. CASE p = NoPath
  <2>1. p[1] \notin DEFAULT_HTML
    BY <1>1, <1>2 DEF DEFAULT_HTML
  <2>2. ParsePath(p) = <<"index", TRUE>>
    BY <1>2, <2>1 DEF ParsePath
  <2> QED
    BY <1>1, <2>2
<1>3. CASE p # NoPath /\ p[1] \in DEFAULT_HTML
  <2>1. ParsePath(p) = <<p[1], TRUE>>
    BY <1>3 DEF ParsePath
  <2> QED
    BY <2>1
<1>4. CASE p # NoPath /\ p[1] \notin DEFAULT_HTML
  <2>1. ParsePath(p) = p
    BY <1>4 DEF ParsePath
  <2>2. p[1] # "register" /\ p[1] # "login"
    BY <1>4 DEF DEFAULT_HTML
  <2> QED
    BY <1>1, <2>1, <2>2
<1> QED
  BY <1>2, <1>3, <1>4

\* A connection that a step leaves alone.
Same(c) ==
    /\ wire'[c] = wire[c] /\ readBuff'[c] = readBuff[c] /\ request'[c] = request[c]
    /\ phase'[c] = phase[c] /\ asked'[c] = asked[c] /\ answers'[c] = answers[c]

\* What the passes of the parser make of a request.
AfterRequestLine(q, line) ==
    [q EXCEPT !.state = "HEADERS", !.path = ParsePath(line[1].of.path),
              !.post = line[1].of.method = "POST"]

AfterHeaderLine(q, state, line) ==
    [q EXCEPT !.state = state, !.keep = q.keep \/ Exactly(line, "Connection"),
              !.typed = q.typed \/ Exactly(line, "Content-Type")]

LEMMA RequestLineForm ==
    ASSUME NEW c, ParseRequestLine(c)
    PROVE  \/ /\ Begins(FirstLine(readBuff[c]), "start") /\ EndPass(c, "HEADERS")
              /\ request' = [request EXCEPT ![c] =
                                AfterRequestLine(request[c], FirstLine(readBuff[c]))]
           \/ /\ ~Begins(FirstLine(readBuff[c]), "start")
              /\ phase' = [phase EXCEPT ![c] = "refusing"] /\ UNCHANGED <<request, readBuff>>
BY DEF ParseRequestLine, AfterRequestLine

LEMMA HeaderForm ==
    ASSUME NEW c, ParseHeader(c)
    PROVE  LET line == FirstLine(readBuff[c])
           IN  /\ EndPass(c, AfterHeader(c, line))
               /\ request' = [request EXCEPT ![c] =
                                 AfterHeaderLine(request[c], AfterHeader(c, line), line)]
BY DEF ParseHeader, AfterHeaderLine

\* What is known of a body, and of the account a that it names.
LEMMA BodyForm ==
    ASSUME NEW c, ParseBody(c)
    PROVE  /\ EndPass(c, "FINISH")
           /\ \E a \in Named(FirstLine(readBuff[c])), ok \in BOOLEAN : \E q :
                 /\ request' = [request EXCEPT ![c] = q]
                 /\ IF /\ request[c].post /\ request[c].typed
                       /\ request[c].path \in {<<"register", TRUE>>, <<"login", TRUE>>}
                    THEN IF a # NoAccount
                         THEN q = [request[c] EXCEPT
                                      !.state = "FINISH",
                                      !.path = <<IF ok THEN "welcome" ELSE "error", TRUE>>,
                                      !.account = IF ok THEN a ELSE NoAccount]
                         ELSE q = [request[c] EXCEPT !.state = "FINISH",
                                                     !.path = <<"error", TRUE>>]
                    ELSE q = [request[c] EXCEPT !.state = "FINISH"]
<1>1. PICK a \in Named(FirstLine(readBuff[c])) : ParsePost(c, a)
  BY DEF ParseBody
<1>2. EndPass(c, "FINISH")
  BY DEF ParseBody
<1> DEFINE tagged == /\ request[c].post /\ request[c].typed
                     /\ request[c].path \in {<<"register", TRUE>>, <<"login", TRUE>>}
<1>3. CASE tagged /\ a # NoAccount
  <2>1. PICK ok \in BOOLEAN : request' = [request EXCEPT
                       ![c].state = "FINISH",
                       ![c].path = <<IF ok THEN "welcome" ELSE "error", TRUE>>,
                       ![c].account = IF ok THEN a ELSE NoAccount]
    BY <1>1, <1>3 DEF ParsePost
  <2> QED
    BY <1>2, <1>3, <2>1
<1>4. CASE tagged /\ a = NoAccount
  <2>1. request' = [request EXCEPT ![c].state = "FINISH", ![c].path = <<"error", TRUE>>]
    BY <1>1, <1>4 DEF ParsePost
  <2> QED
    BY <1>2, <1>4, <2>1
<1>5. CASE ~tagged
  <2>1. request' = [request EXCEPT ![c].state = "FINISH"]
    BY <1>1, <1>5 DEF ParsePost
  <2> QED
    BY <1>2, <1>5, <2>1
<1> QED
  BY <1>3, <1>4, <1>5

LEMMA RespondForm ==
    ASSUME NEW c, Respond(c)
    PROVE  /\ answers' = [answers EXCEPT ![c] = Append(answers[c],
                  AnswerTo(request[c].path, phase[c], request[c].account, c, fresh))]
           /\ IF request[c].keep THEN Begin(c, readBuff[c])
              ELSE phase' = [phase EXCEPT ![c] = "closed"] /\ UNCHANGED request
BY DEF Respond, AnswerTo, Outcome

LEMMA OthersSame ==
    ASSUME HttpTypeOK, NEW c \in Peers, NEW d \in Peers, d # c,
           \/ \E r \in Requests[c] : Ask(c, r)
           \/ \E k \in 1 .. Len(wire[c]) : Read(c, k)
           \/ Serve(c)
    PROVE  Same(d) /\ (d \in tidy' => d \in tidy)
<1>0. ASSUME NEW f, NEW g, NEW q, g = [f EXCEPT ![c] = q] PROVE g[d] = f[d]
  BY <1>0
<1>1. ASSUME NEW text, Begin(c, text) PROVE request'[d] = request[d] /\ phase'[d] = phase[d]
  BY <1>1 DEF Begin
<1>2. ASSUME NEW state, EndPass(c, state)
      PROVE  readBuff'[d] = readBuff[d] /\ phase'[d] = phase[d]
  BY <1>2 DEF EndPass
<1>3. CASE \E r \in Requests[c] : Ask(c, r)
  BY <1>3 DEF Ask, Same, history
<1>4. CASE \E k \in 1 .. Len(wire[c]) : Read(c, k)
  BY <1>1, <1>4 DEF Read, Same
<1>5. CASE ParseRequestLine(c)
  <2>1. readBuff'[d] = readBuff[d] /\ request'[d] = request[d] /\ phase'[d] = phase[d]
    <3>1. CASE EndPass(c, "HEADERS") /\ \E q : request' = [request EXCEPT ![c] = q]
      BY <1>0, <1>2, <3>1
    <3>2. CASE phase' = [phase EXCEPT ![c] = "refusing"] /\ UNCHANGED <<request, readBuff>>
      BY <1>0, <3>2
    <3> QED
      BY <1>5, <3>1, <3>2, RequestLineForm
  <2> QED
    BY <1>5, <2>1 DEF ParseRequestLine, Same, network, history
<1>6. CASE ParseHeader(c)
  <2>1. readBuff'[d] = readBuff[d] /\ request'[d] = request[d] /\ phase'[d] = phase[d]
    BY <1>0, <1>2, <1>6, HeaderForm
  <2> QED
    BY <1>6, <2>1 DEF ParseHeader, Same, network, history
<1>7. CASE ParseBody(c)
  <2>1. request'[d] = request[d]
    BY <1>0, <1>7, BodyForm
  <2> QED
    BY <1>2, <1>7, <2>1 DEF ParseBody, Same, network, history
<1>8. CASE Respond(c)
  <2>1. answers'[d] = answers[d] /\ request'[d] = request[d] /\ phase'[d] = phase[d]
    <3>1. answers'[d] = answers[d]
      BY <1>0, <1>8, RespondForm, ZenonT(30)
    <3>2. CASE Begin(c, readBuff[c])
      BY <1>1, <3>1, <3>2
    <3>3. CASE phase' = [phase EXCEPT ![c] = "closed"] /\ UNCHANGED request
      BY <1>0, <3>1, <3>3
    <3> QED
      BY <1>8, <3>2, <3>3, RespondForm
  <2> QED
    BY <1>8, <2>1 DEF Respond, Same, network
<1> QED
  BY <1>3, <1>4, <1>5, <1>6, <1>7, <1>8 DEF Serve

LEMMA TidySame ==
    ASSUME NEW c, Same(c), TidyFor(c)
    PROVE  TidyFor(c)'
<1>1. Current(c)' = Current(c)
  BY DEF Same, Current
<1> QED
  BY <1>1 DEF Same, TidyFor

LEMMA TidyAsk ==
    ASSUME HttpTypeOK, NEW c \in Peers, NEW r \in Request, Ask(c, r),
           TidyFor(c)
    PROVE  TidyFor(c)'
<1>1. asked[c] \in Seq(Request) /\ answers[c] \in Seq(Answer)
  BY DEF HttpTypeOK
<1>2. /\ UNCHANGED <<readBuff, request, phase, answers>>
      /\ asked'[c] = Append(asked[c], r)
  BY DEF Ask, history, HttpTypeOK
<1>3. Len(asked[c]) \in Nat /\ Len(answers[c]) \in Nat
  BY <1>1, LenProperties
<1> DEFINE A == asked[c]
           m == Len(answers[c])
<1>4. Len(Append(A, r)) = Len(A) + 1 /\ \A k \in 1 .. Len(A) : Append(A, r)[k] = A[k]
  BY <1>1, AppendProperties
<1>5. m \in Nat /\ Len(A) \in Nat /\ m <= Len(A)
  BY <1>3 DEF TidyFor
<1>6. /\ m < Len(A) => asked'[c][m + 1] = A[m + 1]
      /\ \A k \in 1 .. m : asked'[c][k] = A[k]
      /\ m <= Len(asked'[c])
      /\ m < Len(A) => m < Len(asked'[c])
  <2> HIDE DEF A, m
  <2>1. asked'[c] = Append(A, r)
    BY <1>2 DEF A
  <2>2. m < Len(A) => m + 1 \in 1 .. Len(A)
    BY <1>5
  <2>3. \A k \in 1 .. m : k \in 1 .. Len(A)
    BY <1>5
  <2>4. m <= Len(A) + 1 /\ (m < Len(A) => m < Len(A) + 1)
    BY <1>5
  <2> QED
    BY <1>4, <2>1, <2>2, <2>3, <2>4
<1>7. Len(answers[c]) < Len(asked[c]) => Current(c)' = Current(c)
  BY <1>2, <1>6 DEF Current
<1> QED
  BY <1>2, <1>6, <1>7 DEF TidyFor

LEMMA TidyRead ==
    ASSUME HttpTypeOK, NEW c \in Peers, NEW k \in 1 .. Len(wire[c]), Read(c, k),
           TidyFor(c), c \in tidy'
    PROVE  TidyFor(c)'
<1>1. /\ phase[c] = "reading" /\ IsNextRequest(c, readBuff'[c])
      /\ UNCHANGED <<asked, answers>>
  BY DEF Read
<1>2. Begin(c, readBuff'[c])
  BY DEF Read, HttpTypeOK
<1>3. Current(c)' = Current(c)
  BY <1>1 DEF Current
<1>4. Len(answers[c]) < Len(asked[c]) /\ Current(c) \in Request
  <2>1. /\ asked[c] \in Seq(Request) /\ Len(asked[c]) \in Nat /\ answers[c] \in Seq(Answer)
        /\ Len(answers[c]) \in Nat
    BY LenProperties DEF HttpTypeOK
  <2>2. Len(answers[c]) < Len(asked[c])
    BY <1>1 DEF IsNextRequest
  <2>3. Len(answers[c]) + 1 \in 1 .. Len(asked[c])
    BY <2>1, <2>2
  <2> QED
    BY <2>1, <2>2, <2>3, ElementOfSeq DEF Current
<1>5. /\ readBuff'[c] = Text(Current(c))
      /\ Current(c).method = "POST" => Current(c).ended
  BY <1>1 DEF IsNextRequest, Current
<1>6. Text(Current(c)) # << >>
  BY <1>4, <1>5, TextIs, LeftType, CutLine DEF LineKinds
<1>7. request'[c] = Blank /\ phase'[c] = "parsing"
  BY <1>2, <1>5, <1>6 DEF Begin, HttpTypeOK
<1>8. Midway(Current(c), request'[c], readBuff'[c])
  BY <1>5, <1>7 DEF Midway
<1> QED
  BY <1>1, <1>3, <1>4, <1>5, <1>7, <1>8 DEF TidyFor

\* The request that is served.
LEMMA CurrentFacts ==
    ASSUME HttpTypeOK, NEW c \in Peers, Len(answers[c]) < Len(asked[c])
    PROVE  /\ Current(c) \in Request /\ Len(answers[c]) \in Nat /\ Len(asked[c]) \in Nat
           /\ Current(c).path \in Path /\ Current(c).keep \in BOOLEAN
<1>1. /\ asked[c] \in Seq(Request) /\ Len(asked[c]) \in Nat /\ answers[c] \in Seq(Answer)
      /\ Len(answers[c]) \in Nat
  BY LenProperties DEF HttpTypeOK
<1>2. Len(answers[c]) + 1 \in 1 .. Len(asked[c])
  BY <1>1
<1>3. Current(c) \in Request
  BY <1>1, <1>2, ElementOfSeq DEF Current
<1> QED
  BY <1>1, <1>3 DEF Request

\* A pass that leaves the requests and the answers alone keeps what it should.
LEMMA TidyPass ==
    ASSUME NEW c, TidyFor(c), phase[c] = "parsing", asked' = asked, answers' = answers,
           \/ phase'[c] = "parsing" /\ Midway(Current(c), request'[c], readBuff'[c])
           \/ /\ phase'[c] = "answering" /\ readBuff'[c] = << >>
              /\ Known(Current(c), request'[c])
    PROVE  TidyFor(c)'
<1>1. Current(c)' = Current(c)
  BY DEF Current
<1> QED
  BY <1>1 DEF TidyFor

\* The end of a pass that has taken a line of the text.
LEMMA PassEnds ==
    ASSUME HttpTypeOK, NEW c \in Peers, NEW state, EndPass(c, state), EndsAt(readBuff[c]) # {}
    PROVE  /\ readBuff'[c] = Rest(readBuff[c])
           /\ phase'[c] = IF Rest(readBuff[c]) = << >> \/ state = "FINISH" THEN "answering"
                          ELSE "parsing"
BY DEF EndPass, HttpTypeOK

LEMMA TidyRequestLine ==
    ASSUME HttpTypeOK, NEW c \in Peers, ParseRequestLine(c), TidyFor(c)
    PROVE  TidyFor(c)'
<1> DEFINE r == Current(c)
           line == FirstLine(readBuff[c])
<1>1. /\ phase[c] = "parsing" /\ request[c].state = "REQUEST_LINE"
      /\ asked' = asked /\ answers' = answers
  BY DEF ParseRequestLine, network, history
<1>2. /\ r \in Request /\ (r.method = "POST" => r.ended)
      /\ Midway(r, request[c], readBuff[c])
  BY <1>1, CurrentFacts DEF TidyFor
<1> HIDE DEF r
<1>3. request[c] = Blank /\ readBuff[c] = Text(r)
  BY <1>1, <1>2 DEF Midway
<1>4. KeepOf(r) \in Seq(TokenSet) /\ KeepOf(r) # << >>
  BY <1>2, LeftType
<1>5. readBuff[c] = Line(r, "start") \o CRLF(r) \o KeepOf(r)
  BY <1>2, <1>3, TextIs
<1>6. EndsAt(readBuff[c]) # {} /\ line = Line(r, "start") /\ Rest(readBuff[c]) = KeepOf(r)
  BY <1>2, <1>4, <1>5, CutLine DEF LineKinds
<1>7. Begins(line, "start") /\ line[1].of = r
  <2>1. "start" \in LineKinds
    BY DEF LineKinds
  <2>2. Begins(Line(r, "start"), "start")
    BY <1>2, <2>1, LineFacts
  <2>3. Line(r, "start")[1].of = r
    BY <1>2, LinesParsed
  <2> QED
    BY <1>6, <2>2, <2>3
<1>8. EndPass(c, "HEADERS")
      /\ request' = [request EXCEPT ![c] = AfterRequestLine(request[c], line)]
  BY <1>7, RequestLineForm
<1>9. readBuff'[c] = KeepOf(r) /\ phase'[c] = "parsing"
  <2>1. EndPass(c, "HEADERS")
    BY <1>8
  <2>2. EndsAt(readBuff[c]) # {} /\ Rest(readBuff[c]) = KeepOf(r) /\ Rest(readBuff[c]) # << >>
    BY <1>4, <1>6
  <2>3. "HEADERS" # "FINISH"
    OBVIOUS
  <2> QED
    BY <2>1, <2>2, <2>3, PassEnds
<1> HIDE DEF line
<1>10. /\ request'[c].state = "HEADERS" /\ request'[c].path = ParsePath(r.path)
       /\ request'[c].post = (r.method = "POST") /\ ~request'[c].keep
       /\ ~request'[c].typed /\ request'[c].account = NoAccount
  <2>1. request'[c] = AfterRequestLine(request[c], line)
    BY <1>8 DEF HttpTypeOK
  <2> QED
    BY <1>3, <1>7, <2>1 DEF Blank, AfterRequestLine
<1>11. Midway(r, request'[c], readBuff'[c])
  BY <1>9, <1>10 DEF Midway, KnowsHeaders
<1> QED
  BY <1>1, <1>9, <1>11, TidyPass DEF r

\* What a header makes of a request.
LEMMA HeaderMakes ==
    ASSUME HttpTypeOK, NEW c \in Peers, ParseHeader(c), EndsAt(readBuff[c]) # {}
    PROVE  LET line == FirstLine(readBuff[c])
               state == AfterHeader(c, line)
               q == request'[c]
           IN  /\ q.state = state /\ q.path = request[c].path /\ q.post = request[c].post
               /\ q.account = request[c].account
               /\ q.keep = (request[c].keep \/ Exactly(line, "Connection"))
               /\ q.typed = (request[c].typed \/ Exactly(line, "Content-Type"))
               /\ readBuff'[c] = Rest(readBuff[c])
               /\ phase'[c] = IF Rest(readBuff[c]) = << >> \/ state = "FINISH" THEN "answering"
                              ELSE "parsing"
<1> DEFINE line == FirstLine(readBuff[c])
           state == AfterHeader(c, line)
<1>1. EndPass(c, state) /\ request' = [request EXCEPT ![c] = AfterHeaderLine(request[c], state, line)]
  BY HeaderForm
<1>2. request[c] \in State /\ request'[c] = AfterHeaderLine(request[c], state, line)
  BY <1>1 DEF HttpTypeOK
<1> HIDE DEF line, state
<1>3. /\ readBuff'[c] = Rest(readBuff[c])
      /\ phase'[c] = IF Rest(readBuff[c]) = << >> \/ state = "FINISH" THEN "answering"
                     ELSE "parsing"
  BY <1>1, PassEnds
<1> DEFINE k == request[c].keep \/ Exactly(line, "Connection")
           y == request[c].typed \/ Exactly(line, "Content-Type")
<1>4. request'[c] = [request[c] EXCEPT !.state = state, !.keep = k, !.typed = y]
  BY <1>2 DEF AfterHeaderLine
<1> HIDE DEF k, y
<1>5. /\ request'[c].state = state /\ request'[c].path = request[c].path
      /\ request'[c].post = request[c].post /\ request'[c].account = request[c].account
      /\ request'[c].keep = k /\ request'[c].typed = y
  BY <1>2, <1>4 DEF State
<1> QED
  BY <1>3, <1>5 DEF line, state, k, y

LEMMA TidyHeader ==
    ASSUME HttpTypeOK, NEW c \in Peers, ParseHeader(c), TidyFor(c)
    PROVE  TidyFor(c)'
<1> DEFINE r == Current(c)
           q == request[c]
           p == request'[c]
           text == readBuff[c]
           line == FirstLine(text)
<1>1. /\ phase[c] = "parsing" /\ q.state = "HEADERS" /\ q \in State
      /\ asked' = asked /\ answers' = answers
  BY DEF ParseHeader, network, history, HttpTypeOK
<1>2. /\ r \in Request /\ (r.method = "POST" => r.ended) /\ Midway(r, q, text)
      /\ r.keep \in BOOLEAN
  BY <1>1, CurrentFacts DEF TidyFor
<1>3. q.keep \in BOOLEAN /\ q.typed \in BOOLEAN
  BY <1>1 DEF State
<1> HIDE DEF r
<1>4. /\ KnowsHeaders(r, q)
      /\ \/ ~q.keep /\ ~q.typed /\ text = KeepOf(r)
         \/ q.keep = r.keep /\ ~q.typed /\ text = TypeOf(r)
         \/ q.keep = r.keep /\ q.typed = (r.method = "POST") /\ text = EmptyLineOf(r)
  BY <1>1, <1>2 DEF Midway, Blank
<1>5. /\ FormOf(r) \in Seq(TokenSet) /\ EmptyLineOf(r) \in Seq(TokenSet)
      /\ TypeOf(r) \in Seq(TokenSet) /\ KeepOf(r) \in Seq(TokenSet)
      /\ r.method = "POST" => FormOf(r) # << >>
      /\ EmptyLineOf(r) # << >> /\ TypeOf(r) # << >> /\ KeepOf(r) # << >>
  BY <1>2, LeftType
<1>6. /\ "Connection" \in LineKinds /\ "Content-Type" \in LineKinds
      /\ "Connection" # "Content-Type"
  BY DEF LineKinds
<1>6a. ASSUME EndsAt(text) # {}
       PROVE  /\ p.state = AfterHeader(c, line) /\ p.path = q.path /\ p.post = q.post
              /\ p.account = q.account
              /\ p.keep = (q.keep \/ Exactly(line, "Connection"))
              /\ p.typed = (q.typed \/ Exactly(line, "Content-Type"))
              /\ readBuff'[c] = Rest(text)
              /\ phase'[c] = IF Rest(text) = << >> \/ AfterHeader(c, line) = "FINISH"
                             THEN "answering" ELSE "parsing"
  BY <1>6a, HeaderMakes
<1>7. CASE ~q.keep /\ ~q.typed /\ r.keep /\ text = KeepOf(r)
  <2>1. text = Line(r, "Connection") \o CRLF(r) \o TypeOf(r)
    BY <1>7 DEF KeepOf
  <2>2. /\ EndsAt(text) # {} /\ line = Line(r, "Connection") /\ Rest(text) = TypeOf(r)
        /\ ~AtMostTwoBytes(text)
    BY <1>2, <1>5, <1>6, <2>1, CutLine
  <2>3. Exactly(line, "Connection") /\ ~Exactly(line, "Content-Type") /\ HasColon(line)
    <3>1. \A other : Exactly(Line(r, "Connection"), other) <=> other = "Connection"
      BY <1>2, <1>6, LineFacts
    <3>2. HasColon(Line(r, "Connection"))
      BY <1>2, LinesParsed
    <3>3. line = Line(r, "Connection")
      BY <2>2
    <3> HIDE DEF line
    <3> QED
      BY <1>6, <3>1, <3>2, <3>3
  <2>4. AfterHeader(c, line) = "HEADERS"
    BY <2>2, <2>3 DEF AfterHeader
  <2>5. /\ p.state = "HEADERS" /\ p.path = q.path /\ p.post = q.post /\ p.account = q.account
        /\ p.keep /\ p.typed = q.typed
        /\ readBuff'[c] = TypeOf(r) /\ phase'[c] = "parsing"
    <3> HIDE DEF p, q, line, text
    <3> QED
      BY <1>3, <1>5, <1>6a, <2>2, <2>3, <2>4
  <2>6. Midway(r, p, readBuff'[c])
    <3>1. p.keep = r.keep
      <4>1. p.keep = (q.keep \/ Exactly(line, "Connection"))
        BY <1>6a, <2>2
      <4> QED
        BY <1>2, <1>7, <2>3, <4>1
    <3> QED
      BY <1>4, <1>7, <2>5, <3>1 DEF Midway, KnowsHeaders
  <2> QED
    BY <1>1, <2>5, <2>6, TidyPass DEF r
<1>8. CASE q.keep = r.keep /\ ~q.typed /\ r.method = "POST" /\ text = TypeOf(r)
  <2>1. text = Line(r, "Content-Type") \o CRLF(r) \o EmptyLineOf(r)
    BY <1>8 DEF TypeOf
  <2>2. /\ EndsAt(text) # {} /\ line = Line(r, "Content-Type") /\ Rest(text) = EmptyLineOf(r)
        /\ ~AtMostTwoBytes(text)
    BY <1>2, <1>5, <1>6, <2>1, CutLine
  <2>3. ~Exactly(line, "Connection") /\ Exactly(line, "Content-Type") /\ HasColon(line)
    <3>1. \A other : Exactly(Line(r, "Content-Type"), other) <=> other = "Content-Type"
      BY <1>2, <1>6, LineFacts
    <3>2. HasColon(Line(r, "Content-Type"))
      BY <1>2, LinesParsed
    <3>3. line = Line(r, "Content-Type")
      BY <2>2
    <3> HIDE DEF line
    <3> QED
      BY <1>6, <3>1, <3>2, <3>3
  <2>4. AfterHeader(c, line) = "HEADERS"
    BY <2>2, <2>3 DEF AfterHeader
  <2>5. /\ p.state = "HEADERS" /\ p.path = q.path /\ p.post = q.post /\ p.account = q.account
        /\ p.keep = q.keep /\ p.typed = TRUE
        /\ readBuff'[c] = EmptyLineOf(r) /\ phase'[c] = "parsing"
    <3> HIDE DEF p, q, line, text
    <3> QED
      BY <1>3, <1>5, <1>6a, <2>2, <2>3, <2>4
  <2>6. Midway(r, p, readBuff'[c])
    BY <1>4, <1>8, <2>5 DEF Midway, KnowsHeaders
  <2> QED
    BY <1>1, <2>5, <2>6, TidyPass DEF r
<1>9. CASE q.keep = r.keep /\ q.typed = (r.method = "POST") /\ text = EmptyLineOf(r)
  <2>1. text = CRLF(r) \o FormOf(r)
    BY <1>9 DEF EmptyLineOf
  <2>2. /\ EndsAt(text) # {} /\ line = << >> /\ Rest(text) = FormOf(r)
        /\ AtMostTwoBytes(text) <=> FormOf(r) = << >>
    BY <1>2, <1>5, <2>1, CutEmpty
  <2>3. ~Exactly(line, "Connection") /\ ~Exactly(line, "Content-Type") /\ ~HasColon(line)
    BY <1>2, <2>2, LinesParsed
  <2>4. CASE r.method = "POST"
    <3>1. AfterHeader(c, line) = "BODY"
      BY <1>5, <2>2, <2>3, <2>4 DEF AfterHeader
    <3>2. /\ p.state = "BODY" /\ p.path = q.path /\ p.post = q.post /\ p.account = q.account
          /\ p.keep = q.keep /\ p.typed = q.typed
          /\ readBuff'[c] = FormOf(r) /\ phase'[c] = "parsing"
      <4> HIDE DEF p, q, line, text
      <4> QED
        BY <1>3, <1>5, <1>6a, <2>2, <2>3, <2>4, <3>1
    <3>3. Midway(r, p, readBuff'[c])
      BY <1>4, <1>9, <2>4, <3>2 DEF Midway, KnowsHeaders
    <3> QED
      BY <1>1, <3>2, <3>3, TidyPass DEF r
  <2>5. CASE r.method # "POST"
    <3>1. FormOf(r) = << >>
      BY <2>5 DEF FormOf
    <3>2. AfterHeader(c, line) = "FINISH"
      BY <2>2, <3>1 DEF AfterHeader
    <3>3. /\ p.path = q.path /\ p.keep = q.keep
          /\ readBuff'[c] = << >> /\ phase'[c] = "answering"
      <4> HIDE DEF p, q, line, text
      <4> QED
        BY <1>3, <1>6a, <2>2, <2>3, <3>1, <3>2
    <3>4. Known(r, p)
      BY <1>4, <1>9, <2>5, <3>3 DEF Known, KnowsHeaders
    <3> QED
      BY <1>1, <3>3, <3>4, TidyPass DEF r
  <2> QED
    BY <2>4, <2>5
<1> QED
  <2>1. ~r.keep => KeepOf(r) = TypeOf(r)
    BY DEF KeepOf
  <2>2. r.method # "POST" => TypeOf(r) = EmptyLineOf(r)
    BY DEF TypeOf
  <2> QED
    BY <1>2, <1>3, <1>4, <1>7, <1>8, <1>9, <2>1, <2>2

LEMMA SomeAccount ==
    ASSUME NEW x, NEW y
    PROVE  <<x, y>> # NoAccount
<1>1. Len(<<x, y>>) = 2 /\ Len(<< >>) = 0
  BY EmptySeq
<1> QED
  BY <1>1 DEF NoAccount

LEMMA TidyBody ==
    ASSUME HttpTypeOK, NEW c \in Peers, ParseBody(c), TidyFor(c)
    PROVE  TidyFor(c)'
<1> DEFINE r == Current(c)
           q == request[c]
           s == request'[c]
           text == readBuff[c]
           a == <<r.name, <<r.password, TRUE>>>>
           page(ok) == <<IF ok THEN "welcome" ELSE "error", TRUE>>
           tagged == q.path \in {<<"register", TRUE>>, <<"login", TRUE>>}
<1>1. /\ phase[c] = "parsing" /\ q.state = "BODY" /\ q \in State
      /\ asked' = asked /\ answers' = answers
  BY DEF ParseBody, network, history, HttpTypeOK
<1>2. /\ r \in Request /\ r.path \in Path /\ Midway(r, q, text)
  BY <1>1, CurrentFacts DEF TidyFor
<1>3. a # NoAccount
  BY SomeAccount
<1> HIDE DEF r
<1>4. /\ KnowsHeaders(r, q) /\ r.method = "POST" /\ q.keep = r.keep /\ q.typed
      /\ text = Line(r, "form") \o CRLF(r)
  <2>1. q # Blank
    BY <1>1 DEF Blank
  <2>2. /\ KnowsHeaders(r, q) /\ r.method = "POST" /\ q.keep = r.keep /\ q.typed
        /\ text = FormOf(r)
    BY <1>1, <1>2, <2>1 DEF Midway
  <2> QED
    BY <2>2 DEF FormOf
<1>5. /\ EndsAt(text) # {} /\ FirstLine(text) = Line(r, "form") /\ Rest(text) = << >>
  <2>1. "form" \in LineKinds /\ << >> \in Seq(TokenSet)
    BY EmptySeq DEF LineKinds
  <2>2. Line(r, "form") \o CRLF(r) \in Seq(TokenSet)
    BY <1>2, LineType, ConcatProperties
  <2>3. text = Line(r, "form") \o CRLF(r) \o << >>
    BY <1>4, <2>2, ConcatEmptySeq
  <2> QED
    <3>1. LET w == Line(r, "form") \o CRLF(r) \o << >>
          IN  EndsAt(w) # {} /\ FirstLine(w) = Line(r, "form") /\ Rest(w) = << >>
      BY <1>2, <2>1, CutLine, Zenon
    <3> QED
      BY <2>3, <3>1
<1>6. readBuff'[c] = << >> /\ phase'[c] = "answering"
  <2>1. EndPass(c, "FINISH")
    BY DEF ParseBody
  <2> QED
    BY <1>5, <2>1, PassEnds
<1>7. Named(FirstLine(text)) = {a}
  BY <1>2, <1>5, LinesParsed
<1>8. q.post /\ q.typed /\ q.account = NoAccount /\ q.path = ParsePath(r.path)
  BY <1>4 DEF KnowsHeaders
<1>9. tagged <=> ParsePath(r.path)[1] \in {"login", "register"}
  BY <1>2, <1>8, FormPath
<1>10. PICK ok \in BOOLEAN :
         IF tagged
         THEN s = [q EXCEPT !.state = "FINISH", !.path = page(ok),
                            !.account = IF ok THEN a ELSE NoAccount]
         ELSE s = [q EXCEPT !.state = "FINISH"]
  <2>1. PICK b \in Named(FirstLine(text)), ok \in BOOLEAN : \E z :
           /\ request' = [request EXCEPT ![c] = z]
           /\ IF q.post /\ q.typed /\ tagged
              THEN IF b # NoAccount
                   THEN z = [q EXCEPT !.state = "FINISH", !.path = page(ok),
                                      !.account = IF ok THEN b ELSE NoAccount]
                   ELSE z = [q EXCEPT !.state = "FINISH", !.path = <<"error", TRUE>>]
              ELSE z = [q EXCEPT !.state = "FINISH"]
    BY BodyForm
  <2>2. b = a /\ b # NoAccount
    BY <1>3, <1>7
  <2>3. PICK z :
           /\ request' = [request EXCEPT ![c] = z]
           /\ IF tagged
              THEN z = [q EXCEPT !.state = "FINISH", !.path = page(ok),
                                 !.account = IF ok THEN a ELSE NoAccount]
              ELSE z = [q EXCEPT !.state = "FINISH"]
    <3> HIDE DEF a, tagged, page
    <3> QED
      BY <1>8, <2>1, <2>2
  <2>4. s = z
    BY <2>3 DEF HttpTypeOK
  <2> QED
    BY <2>3, <2>4
<1>11. CASE tagged
  <2> DEFINE p == page(ok)
             who == IF ok THEN a ELSE NoAccount
  <2>1. s = [q EXCEPT !.state = "FINISH", !.path = p, !.account = who]
    BY <1>10, <1>11
  <2>2. p = <<IF who = a THEN "welcome" ELSE "error", TRUE>>
    BY <1>3
  <2> HIDE DEF p, who
  <2>3. s.path = p /\ s.account = who /\ s.keep = r.keep
    BY <1>1, <1>4, <2>1 DEF State
  <2>4. Known(r, s)
    BY <1>4, <1>9, <1>11, <2>2, <2>3 DEF Known
  <2> QED
    BY <1>1, <1>6, <1>10, <2>4, TidyPass DEF r
<1>12. CASE ~tagged
  <2>1. s.path = q.path /\ s.keep = r.keep
    BY <1>1, <1>4, <1>10, <1>12 DEF State
  <2>2. Known(r, s)
    BY <1>4, <1>8, <1>9, <1>12, <2>1 DEF Known
  <2> QED
    BY <1>1, <1>6, <1>10, <2>2, TidyPass DEF r
<1> QED
  BY <1>11, <1>12

\* A request that is known is answered as it deserves.
LEMMA AnswerDeserved ==
    ASSUME OutcomePages, NEW r \in Request, NEW q, Known(r, q), NEW c, NEW S
    PROVE  Deserved(r, AnswerTo(q.path, "answering", q.account, c, S))
<1> DEFINE code == CodeOf(q.path, 200)
           answer == AnswerTo(q.path, "answering", q.account, c, S)
<1>1. Outcome(q.path, "answering") = code
  BY DEF Outcome
<1>2. answer.code = code /\ answer.page = PageOf(q.path, code) /\ answer.account = q.account
  BY <1>1 DEF AnswerTo
<1> HIDE DEF answer
<1>3. CASE r.method = "POST" /\ ParsePath(r.path)[1] \in {"login", "register"}
  <2> DEFINE name == IF q.account = <<r.name, <<r.password, TRUE>>>> THEN "welcome" ELSE "error"
  <2>1. q.path = <<name, TRUE>>
    BY <1>3 DEF Known
  <2>2. name \in {"welcome", "error"}
    OBVIOUS
  <2> HIDE DEF name
  <2>3. q.path \in Served \ Hidden
    BY <2>1, <2>2 DEF OutcomePages
  <2>4. code = 200
    BY <2>3 DEF CodeOf
  <2>5. answer.page = <<name, TRUE>>
    <3> HIDE DEF code
    <3>1. PageOf(q.path, code) = q.path
      BY <2>4 DEF PageOf
    <3> QED
      BY <1>2, <2>1, <3>1
  <2>6. answer.page[1] = name
    BY <2>5
  <2> QED
    BY <1>2, <1>3, <2>6 DEF Deserved, name, answer
<1>4. CASE ~(r.method = "POST" /\ ParsePath(r.path)[1] \in {"login", "register"})
  <2>1. q.path = ParsePath(r.path)
    BY <1>4 DEF Known
  <2> QED
    BY <1>2, <1>4, <2>1 DEF Deserved, answer
<1> QED
  BY <1>3, <1>4

LEMMA TidyRespond ==
    ASSUME OutcomePages, HttpTypeOK, NEW c \in Peers, Respond(c), TidyFor(c)
    PROVE  TidyFor(c)'
<1> DEFINE r == Current(c)
           x == AnswerTo(request[c].path, phase[c], request[c].account, c, fresh)
           m == Len(answers[c])
<1>1. /\ phase[c] = "answering" /\ readBuff[c] = << >> /\ Known(r, request[c])
      /\ Len(answers[c]) < Len(asked[c])
  BY DEF Respond, TidyFor
<1>2. /\ r \in Request /\ m \in Nat /\ Len(asked[c]) \in Nat
      /\ answers[c] \in Seq(Answer)
  BY <1>1, CurrentFacts DEF HttpTypeOK
<1>3. Deserved(r, x)
  BY <1>1, <1>2, AnswerDeserved
<1>4. answers'[c] = Append(answers[c], x)
  BY RespondForm DEF HttpTypeOK
<1>5. asked' = asked /\ readBuff'[c] = << >>
  BY <1>1 DEF Respond, network
<1>6. /\ request[c].keep => phase'[c] = "reading"
      /\ ~request[c].keep => phase'[c] = "closed"
  BY <1>1, RespondForm DEF Begin, HttpTypeOK
<1>7. request[c].keep = r.keep
  BY <1>1 DEF Known
<1> HIDE DEF x
<1>8. /\ Len(answers'[c]) = m + 1 /\ answers'[c][m + 1] = x
      /\ \A l \in 1 .. m : answers'[c][l] = answers[c][l]
  <2>1. /\ Len(Append(answers[c], x)) = m + 1 /\ Append(answers[c], x)[m + 1] = x
        /\ \A l \in 1 .. m : Append(answers[c], x)[l] = answers[c][l]
    BY <1>2, AppendProperties
  <2> QED
    BY <1>4, <2>1
<1>9. /\ \A l \in 1 .. m : Deserved(asked[c][l], answers[c][l])
      /\ \A l \in 1 .. m : asked[c][l].keep
  BY <1>1 DEF TidyFor
<1>10. asked[c][m + 1] = r
  BY DEF Current
<1> HIDE DEF r, m
<1>11. ASSUME NEW l \in 1 .. m + 1
       PROVE  /\ Deserved(asked[c][l], answers'[c][l])
              /\ asked[c][l].keep <=> (l < m + 1 \/ phase'[c] # "closed")
  <2>1. CASE l = m + 1
    <3>1. Deserved(asked[c][l], answers'[c][l])
      BY <1>3, <1>8, <1>10, <2>1
    <3>2. asked[c][l].keep <=> phase'[c] # "closed"
      BY <1>6, <1>7, <1>10, <2>1
    <3> QED
      BY <1>2, <2>1, <3>1, <3>2
  <2>2. CASE l # m + 1
    <3>1. l \in 1 .. m /\ l < m + 1
      BY <1>2, <2>2
    <3> QED
      BY <1>8, <1>9, <3>1
  <2> QED
    BY <2>1, <2>2
<1>12. m + 1 <= Len(asked[c])
  BY <1>1, <1>2 DEF m
<1>13. phase'[c] \in {"reading", "closed"}
  BY <1>6
<1> QED
  BY <1>5, <1>8, <1>11, <1>12, <1>13 DEF TidyFor

LEMMA TidyNew ==
    ASSUME NEW c, phase[c] = "reading", answers[c] = << >>, asked[c] = << >>
    PROVE  TidyFor(c)
<1>1. Len(answers[c]) = 0 /\ Len(asked[c]) = 0
  BY EmptySeq
<1>2. \A l \in 1 .. Len(answers[c]) : FALSE
  BY <1>1
<1> QED
  BY <1>1, <1>2 DEF TidyFor

LEMMA TidyInit == HttpTypeOK /\ HttpInit => TidyInv
<1> SUFFICES ASSUME HttpTypeOK, HttpInit, NEW c \in tidy PROVE TidyFor(c)
  BY DEF TidyInv
<1>1. phase[c] = "reading" /\ answers[c] = << >> /\ asked[c] = << >>
  BY DEF HttpInit
<1> QED
  BY <1>1, TidyNew

LEMMA TidyRestart ==
    ASSUME Restart, NEW c \in Peers
    PROVE  TidyFor(c)'
<1>1. phase'[c] = "reading" /\ answers'[c] = << >> /\ asked'[c] = << >>
  BY DEF Restart
<1>2. Len(answers'[c]) = 0 /\ Len(asked'[c]) = 0
  BY <1>1, EmptySeq
<1>3. \A l \in 1 .. Len(answers'[c]) : FALSE
  BY <1>2
<1> QED
  BY <1>1, <1>2, <1>3 DEF TidyFor

LEMMA TidyStep ==
    ASSUME HttpAssumption, OutcomePages, HttpTypeOK, HttpTypeOK', TidyInv, [HttpNext]_httpVars
    PROVE  TidyInv'
<1> SUFFICES ASSUME NEW d \in tidy' PROVE TidyFor(d)'
  BY DEF TidyInv
<1>0. d \in Peers
  BY DEF HttpTypeOK
<1>1. ASSUME NEW c \in Peers,
             \/ \E r \in Requests[c] : Ask(c, r)
             \/ \E k \in 1 .. Len(wire[c]) : Read(c, k)
             \/ Serve(c)
      PROVE  TidyFor(d)'
  <2>1. CASE d # c
    <3>1. Same(d) /\ d \in tidy
      BY <1>0, <1>1, <2>1, OthersSame
    <3> QED
      BY <3>1, TidySame DEF TidyInv
  <2>2. CASE d = c
    <3>1. ASSUME NEW r \in Requests[c], Ask(c, r) PROVE TidyFor(d)'
      <4>1. r \in Request
        BY DEF HttpAssumption
      <4>2. TidyFor(c)
        BY <2>2, <3>1 DEF Ask, history, TidyInv
      <4> QED
        BY <2>2, <3>1, <4>1, <4>2, TidyAsk
    <3>2. ASSUME NEW k \in 1 .. Len(wire[c]), Read(c, k) PROVE TidyFor(d)'
      <4>1. c \in tidy' /\ c \in tidy
        BY <2>2, <3>2 DEF Read
      <4>2. TidyFor(c)
        BY <4>1 DEF TidyInv
      <4> QED
        BY <2>2, <3>2, <4>1, <4>2, TidyRead
    <3>3. CASE Serve(c)
      <4>1. TidyFor(c)
        BY <2>2, <3>3 DEF Serve, ParseRequestLine, ParseHeader, ParseBody, Respond, history, TidyInv
      <4> QED
        BY <2>2, <3>3, <4>1, TidyRequestLine, TidyHeader, TidyBody, TidyRespond DEF Serve
    <3> QED
      BY <1>1, <3>1, <3>2, <3>3
  <2> QED
    BY <2>1, <2>2
<1>2. CASE Restart
  BY <1>0, <1>2, TidyRestart
<1>3. CASE UNCHANGED httpVars
  <2>1. Same(d) /\ d \in tidy
    BY <1>3 DEF httpVars, network, history, Same
  <2> QED
    BY <2>1, TidySame DEF TidyInv
<1> QED
  BY <1>1, <1>2, <1>3 DEF HttpNext

\* Requests that arrive one at a time, each whole, are answered one to one, in order
\* and as they deserve (httpconn.cpp:97), provided that the two pages a form is
\* answered with can be read.
THEOREM WholeRequests ==
    ASSUME OutcomePages
    PROVE  HttpSpec => []WholeRequestsAnswered
<1>1. HttpTypeOK /\ HttpInit => TidyInv
  BY TidyInit
<1>2. HttpTypeOK /\ HttpTypeOK' /\ TidyInv /\ [HttpNext]_httpVars => TidyInv'
  BY TidyStep, HttpAssumption
<1>3. HttpTypeOK /\ TidyInv => WholeRequestsAnswered
  <2> SUFFICES ASSUME HttpTypeOK, TidyInv, NEW c \in tidy, NEW l \in 1 .. Len(answers[c])
               PROVE  /\ l <= Len(asked[c]) /\ Deserved(asked[c][l], answers[c][l])
                      /\ asked[c][l].keep <=> (l < Len(answers[c]) \/ phase[c] # "closed")
    BY DEF WholeRequestsAnswered
  <2>1. TidyFor(c)
    BY DEF TidyInv
  <2>2. c \in Peers /\ Len(answers[c]) \in Nat /\ Len(asked[c]) \in Nat
    BY LenProperties DEF HttpTypeOK
  <2>3. l <= Len(asked[c])
    BY <2>1, <2>2 DEF TidyFor
  <2> QED
    BY <2>1, <2>3 DEF TidyFor
<1> QED
  BY <1>1, <1>2, <1>3, TypeCorrect, PTL DEF HttpSpec

-----------------------------------------------------------------------------
(* How many elements of a sequence are in a set.                           *)

At(s, A) == {k \in 1 .. Len(s) : s[k] \in A}

LEMMA CountType ==
    ASSUME NEW S, NEW s \in Seq(S), NEW A
    PROVE  /\ IsFiniteSet(At(s, A)) /\ Count(s, A) = Cardinality(At(s, A))
           /\ Count(s, A) \in Nat
<1>1. Len(s) \in Nat
  BY LenProperties
<1>2. IsFiniteSet(1 .. Len(s))
  BY <1>1, FS_Interval
<1>3. At(s, A) \in SUBSET (1 .. Len(s))
  BY DEF At
<1>4. IsFiniteSet(At(s, A))
  BY <1>2, <1>3, FS_Subset
<1>5. Count(s, A) = Cardinality(At(s, A))
  BY DEF Count, At
<1> QED
  BY <1>4, <1>5, FS_CardinalityType

LEMMA CountNone ==
    ASSUME NEW A
    PROVE  Count(<< >>, A) = 0
<1>1. Len(<< >>) = 0
  BY EmptySeq
<1>2. {k \in 1 .. 0 : << >>[k] \in A} = {}
  OBVIOUS
<1> QED
  BY <1>1, <1>2, FS_EmptySet DEF Count

LEMMA CountSome ==
    ASSUME NEW S, NEW s \in Seq(S), NEW A, s # << >>, s[1] \in A
    PROVE  Count(s, A) >= 1
<1>1. Len(s) \in Nat \ {0}
  BY EmptySeq
<1>2. 1 \in At(s, A)
  BY <1>1 DEF At
<1>3. Cardinality(At(s, A)) # 0
  BY <1>2, CountType, FS_EmptySet
<1> QED
  BY <1>3, CountType

\* The places of a set of numbers, further on.
LEMMA Moved ==
    ASSUME NEW m \in Nat, NEW D \in SUBSET Nat, IsFiniteSet(D)
    PROVE  LET T == {d + m : d \in D}
           IN  IsFiniteSet(T) /\ Cardinality(T) = Cardinality(D)
<1> DEFINE T == {d + m : d \in D}
           f == [d \in D |-> d + m]
<1>1. f \in [D -> T]
  OBVIOUS
<1>2. \A a, b \in D : f[a] = f[b] => a = b
  <2>1. \A a, b \in Nat : a + m = b + m => a = b
    OBVIOUS
  <2> QED
    BY <2>1
<1>3. \A t \in T : \E d \in D : f[d] = t
  OBVIOUS
<1>4. f \in Bijection(D, T)
  BY <1>1, <1>2, <1>3 DEF Bijection, Injection, Surjection, IsInjective
<1>5. ExistsBijection(D, T)
  BY <1>4 DEF ExistsBijection
<1> QED
  BY <1>5, FS_Bijection

LEMMA CountConcat ==
    ASSUME NEW S, NEW s \in Seq(S), NEW t \in Seq(S), NEW A
    PROVE  Count(s \o t, A) = Count(s, A) + Count(t, A)
<1> DEFINE a == Len(s)
           b == Len(t)
           w == s \o t
           P == At(s, A)
           Q == At(t, A)
           T == {d + a : d \in Q}
<1>1. a \in Nat /\ b \in Nat
  BY LenProperties
<1>2. /\ w \in Seq(S) /\ Len(w) = a + b
      /\ \A k \in 1 .. a + b : w[k] = IF k <= a THEN s[k] ELSE t[k - a]
  BY ConcatProperties
<1>3. P = {k \in 1 .. a : s[k] \in A} /\ Q = {k \in 1 .. b : t[k] \in A}
  BY DEF At
<1>4. At(w, A) = {k \in 1 .. a + b : w[k] \in A}
  BY <1>2 DEF At
<1> HIDE DEF a, b, w, P, Q
<1>5. At(w, A) = P \cup T
  <2>1. ASSUME NEW k \in At(w, A) PROVE k \in P \cup T
    <3>1. k \in 1 .. a + b /\ w[k] \in A
      BY <1>4
    <3>2. CASE k <= a
      <4>1. k \in 1 .. a /\ s[k] \in A
        BY <1>1, <1>2, <3>1, <3>2
      <4> QED
        BY <1>3, <4>1
    <3>3. CASE ~(k <= a)
      <4>1. k - a \in 1 .. b /\ k = (k - a) + a
        BY <1>1, <3>1, <3>3
      <4>2. t[k - a] \in A
        BY <1>2, <3>1, <3>3
      <4>3. k - a \in Q
        BY <1>3, <4>1, <4>2
      <4> QED
        BY <4>1, <4>3
    <3> QED
      BY <3>2, <3>3
  <2>2. ASSUME NEW k \in P PROVE k \in At(w, A)
    <3>1. k \in 1 .. a + b /\ k <= a /\ s[k] \in A
      BY <1>1, <1>3
    <3> QED
      BY <1>2, <1>4, <3>1
  <2>3. ASSUME NEW d \in Q PROVE d + a \in At(w, A)
    <3>1. d \in 1 .. b /\ t[d] \in A
      BY <1>3
    <3>2. d + a \in 1 .. a + b /\ ~(d + a <= a) /\ (d + a) - a = d
      BY <1>1, <3>1
    <3>3. w[d + a] = t[d]
      BY <1>2, <3>2
    <3> QED
      BY <1>4, <3>1, <3>2, <3>3
  <2> QED
    BY <2>1, <2>2, <2>3
<1>6. P \cap T = {}
  BY <1>1, <1>3
<1>7. /\ IsFiniteSet(P) /\ Cardinality(P) = Count(s, A) /\ Count(s, A) \in Nat
      /\ IsFiniteSet(Q) /\ Cardinality(Q) = Count(t, A) /\ Count(t, A) \in Nat
      /\ Count(w, A) = Cardinality(At(w, A))
  BY <1>2, CountType DEF P, Q
<1>8. IsFiniteSet(T) /\ Cardinality(T) = Cardinality(Q)
  <2>1. Q \in SUBSET Nat
    BY <1>1, <1>3
  <2> QED
    BY <1>1, <1>7, <2>1, Moved
<1>9. Cardinality(P \cup T) = Cardinality(P) + Cardinality(T) - Cardinality({})
  BY <1>6, <1>7, <1>8, FS_Union
<1> QED
  BY <1>5, <1>7, <1>8, <1>9, FS_EmptySet DEF w

LEMMA CountOne ==
    ASSUME NEW x, NEW A
    PROVE  Count(<<x>>, A) = IF x \in A THEN 1 ELSE 0
<1>1. Len(<<x>>) = 1 /\ <<x>>[1] = x
  OBVIOUS
<1>2. At(<<x>>, A) = IF x \in A THEN {1} ELSE {}
  BY <1>1 DEF At
<1> QED
  BY <1>2, FS_Singleton, FS_EmptySet DEF Count, At

LEMMA CountAppend ==
    ASSUME NEW S, NEW s \in Seq(S), NEW x \in S, NEW A
    PROVE  Count(Append(s, x), A) = Count(s, A) + IF x \in A THEN 1 ELSE 0
<1>1. Append(s, x) = s \o <<x>> /\ <<x>> \in Seq(S)
  BY AppendIsConcat
<1> QED
  <2>1. Count(s \o <<x>>, A) = Count(s, A) + Count(<<x>>, A)
    BY <1>1, CountConcat, Zenon
  <2>2. Count(<<x>>, A) = IF x \in A THEN 1 ELSE 0
    BY CountOne
  <2> QED
    BY <1>1, <2>1, <2>2

\* A sequence that is cut has all its elements.
LEMMA CountCut ==
    ASSUME NEW S, NEW s \in Seq(S), NEW k \in 1 .. Len(s), NEW A
    PROVE  /\ SubSeq(s, 1, k) \in Seq(S) /\ SubSeq(s, k + 1, Len(s)) \in Seq(S)
           /\ Count(s, A) = Count(SubSeq(s, 1, k), A) + Count(SubSeq(s, k + 1, Len(s)), A)
<1>1. Len(s) \in Nat
  BY LenProperties
<1>2. /\ \A l \in 1 .. k : s[l] \in S
      /\ \A l \in k + 1 .. Len(s) : s[l] \in S
  BY <1>1, ElementOfSeq
<1>3. SubSeq(s, 1, k) \in Seq(S) /\ SubSeq(s, k + 1, Len(s)) \in Seq(S)
  BY <1>1, <1>2, SubSeqProperties
<1>4. SubSeq(s, 1, k) \o SubSeq(s, k + 1, Len(s)) = s
  <2>1. 1 \in 1 .. Len(s) + 1 /\ k \in 1 - 1 .. Len(s) /\ Len(s) \in k .. Len(s)
    BY <1>1
  <2>2. SubSeq(s, 1, k) \o SubSeq(s, k + 1, Len(s)) = SubSeq(s, 1, Len(s))
    BY <2>1, ConcatAdjacentSubSeq
  <2> QED
    BY <2>2, SubSeqFull
<1> QED
  <2> DEFINE u == SubSeq(s, 1, k)
             v == SubSeq(s, k + 1, Len(s))
  <2>1. u \in Seq(S) /\ v \in Seq(S) /\ u \o v = s
    BY <1>3, <1>4
  <2> HIDE DEF u, v
  <2>2. Count(u \o v, A) = Count(u, A) + Count(v, A)
    BY <2>1, CountConcat
  <2>3. u \in Seq(S) /\ v \in Seq(S) /\ Count(s, A) = Count(u, A) + Count(v, A)
    BY <2>1, <2>2
  <2> QED
    BY <2>3 DEF u, v

\* The first line begins the text, and what it leaves has no more elements of a kind
\* than the text had, one less if the text began with one.
LEMMA FirstOfLine ==
    ASSUME NEW t \in Seq(TokenSet), FirstLine(t) # << >>
    PROVE  t # << >> /\ FirstLine(t)[1] = t[1] /\ t[1] \in TokenSet
<1>0. Len(t) \in Nat
  BY LenProperties
<1>1. CASE EndsAt(t) = {}
  <2>1. FirstLine(t) = t /\ t # << >>
    BY <1>1 DEF FirstLine
  <2>2. Len(t) \in Nat \ {0}
    BY <2>1, EmptySeq
  <2>3. 1 \in 1 .. Len(t)
    BY <2>2
  <2> QED
    BY <2>1, <2>3, ElementOfSeq
<1>2. CASE EndsAt(t) # {}
  <2> DEFINE e == Min(EndsAt(t))
  <2>1. EndsAt(t) \in SUBSET Nat
    BY <1>0 DEF EndsAt
  <2>2. e \in EndsAt(t)
    BY <1>2, <2>1, MinExists
  <2>3. e \in 1 .. Len(t) - 1
    BY <2>2 DEF EndsAt
  <2>4. FirstLine(t) = SubSeq(t, 1, e - 1)
    BY <1>2 DEF FirstLine
  <2> HIDE DEF e
  <2>5. e # 1
    <3> SUFFICES ASSUME e = 1 PROVE FALSE
      OBVIOUS
    <3>1. SubSeq(t, 1, e - 1) = << >>
      BY SubSeqEmpty
    <3> QED
      BY <2>4, <3>1
  <2>6. 1 \in 1 .. Len(t) /\ e - 1 \in Int /\ 1 \in 1 .. e - 1
    BY <1>0, <2>3, <2>5
  <2>7. \A l \in 1 .. e - 1 : t[l] \in TokenSet
    BY <1>0, <2>3, ElementOfSeq
  <2>8. SubSeq(t, 1, e - 1)[1] = t[1]
    <3>1. \A l \in 1 .. (e - 1) - 1 + 1 : SubSeq(t, 1, e - 1)[l] = t[1 + l - 1]
      BY <2>6, <2>7, SubSeqProperties
    <3>2. 1 \in 1 .. (e - 1) - 1 + 1 /\ 1 + 1 - 1 = 1
      BY <2>6
    <3>3. SubSeq(t, 1, e - 1)[1] = t[1 + 1 - 1]
      BY <3>1, <3>2, Zenon
    <3>4. 1 + 1 - 1 = 1
      OBVIOUS
    <3>5. t[1 + 1 - 1] = t[1]
      BY <3>4, Zenon
    <3> QED
      BY <3>3, <3>5
  <2>9. t # << >>
    BY <2>6, EmptySeq
  <2> QED
    BY <2>4, <2>6, <2>8, <2>9, ElementOfSeq
<1> QED
  BY <1>1, <1>2

LEMMA CountRest ==
    ASSUME NEW t \in Seq(TokenSet), NEW A
    PROVE  /\ Rest(t) \in Seq(TokenSet)
           /\ Count(Rest(t), A) <= Count(t, A)
           /\ EndsAt(t) # {} /\ t[1] \in A => Count(Rest(t), A) + 1 <= Count(t, A)
<1>1. Len(t) \in Nat
  BY LenProperties
<1>2. Rest(t) \in Seq(TokenSet)
  BY RestType
<1>3. Count(t, A) \in Nat /\ Count(Rest(t), A) \in Nat
  BY <1>2, CountType
<1>4. CASE EndsAt(t) = {}
  BY <1>2, <1>3, <1>4 DEF Rest
<1>5. CASE EndsAt(t) # {}
  <2> DEFINE e == Min(EndsAt(t))
             p == SubSeq(t, 1, e + 1)
             q == SubSeq(t, e + 2, Len(t))
  <2>1. EndsAt(t) \in SUBSET Nat
    BY <1>1 DEF EndsAt
  <2>2. e \in EndsAt(t)
    BY <1>5, <2>1, MinExists
  <2>3. e \in 1 .. Len(t) - 1
    BY <2>2 DEF EndsAt
  <2>4. Rest(t) = q
    BY <1>5 DEF Rest
  <2> HIDE DEF e
  <2>5. e + 1 \in 1 .. Len(t) /\ (e + 1) + 1 = e + 2
    BY <1>1, <2>3
  <2>6. p \in Seq(TokenSet) /\ Count(t, A) = Count(p, A) + Count(q, A)
    BY <2>5, CountCut
  <2>7. p # << >> /\ p[1] = t[1]
    <3>1. \A l \in 1 .. e + 1 : t[l] \in TokenSet
      BY <1>1, <2>5, ElementOfSeq
    <3>2. /\ Len(p) = IF 1 <= e + 1 THEN (e + 1) - 1 + 1 ELSE 0
          /\ \A l \in 1 .. (e + 1) - 1 + 1 : p[l] = t[1 + l - 1]
      BY <2>3, <3>1, SubSeqProperties
    <3>3. 1 \in 1 .. (e + 1) - 1 + 1 /\ 1 + 1 - 1 = 1
      BY <2>3
    <3>4. Len(p) # 0
      BY <2>3, <3>2
    <3>5. p[1] = t[1 + 1 - 1]
      BY <3>2, <3>3, Zenon
    <3>6. 1 + 1 - 1 = 1
      OBVIOUS
    <3>7. t[1 + 1 - 1] = t[1]
      BY <3>6, Zenon
    <3>8. p # << >>
      BY <3>4, EmptySeq
    <3> QED
      BY <3>5, <3>7, <3>8
  <2> HIDE DEF p, q
  <2>8. Count(p, A) \in Nat
    BY <2>6, CountType
  <2>9. t[1] \in A => Count(p, A) >= 1
    BY <2>6, <2>7, CountSome
  <2> QED
    BY <1>2, <1>3, <2>4, <2>6, <2>8, <2>9
<1> QED
  BY <1>4, <1>5

LEMMA CountLine ==
    ASSUME NEW r \in Request, NEW kind \in LineKinds, NEW other \in LineKinds
    PROVE  LET A == {x \in TokenSet : x.kind = other /\ x.half = 1}
           IN  Count(Line(r, kind), A) = IF kind = other THEN 1 ELSE 0
<1> DEFINE A == {x \in TokenSet : x.kind = other /\ x.half = 1}
           s == Line(r, kind)
<1>1. s \in Seq(TokenSet) /\ Len(s) = 2 /\ s[1] = Token(r, kind, 1) /\ s[2] = Token(r, kind, 2)
  BY LineFacts
<1> HIDE DEF s
<1>2. s[1] \in TokenSet /\ s[2] \in TokenSet
  <2>1. 1 \in 1 .. Len(s) /\ 2 \in 1 .. Len(s)
    BY <1>1
  <2> QED
    BY <1>1, <2>1, ElementOfSeq
<1>3. /\ s[1].kind = kind /\ s[1].half = 1 /\ s[2].half = 2
  BY <1>1 DEF Token
<1>4. s[2] \notin A /\ (s[1] \in A <=> kind = other)
  BY <1>2, <1>3
<1> HIDE DEF A
<1>5. \A k \in 1 .. 2 : k = 1 \/ k = 2
  OBVIOUS
<1>6. {k \in 1 .. 2 : s[k] \in A} = IF kind = other THEN {1} ELSE {}
  BY <1>4, <1>5
<1>7. Count(s, A) = Cardinality(IF kind = other THEN {1} ELSE {})
  BY <1>1, <1>6 DEF Count
<1>8. Count(s, A) = IF kind = other THEN 1 ELSE 0
  BY <1>7, FS_Singleton, FS_EmptySet
<1> QED
  BY <1>8 DEF s, A

LEMMA CountCRLF ==
    ASSUME NEW r \in Request, NEW other \in LineKinds
    PROVE  LET A == {x \in TokenSet : x.kind = other /\ x.half = 1}
           IN  Count(CRLF(r), A) = 0
<1> DEFINE A == {x \in TokenSet : x.kind = other /\ x.half = 1}
           s == CRLF(r)
<1>1. Len(s) = 2 /\ s[1] = Token(r, "CR", 0) /\ s[2] = Token(r, "LF", 0)
  BY DEF CRLF
<1> HIDE DEF s
<1>2. s[1].half = 0 /\ s[2].half = 0
  BY <1>1 DEF Token
<1>3. s[1] \notin A /\ s[2] \notin A
  BY <1>2
<1> HIDE DEF A
<1>4. \A k \in 1 .. 2 : k = 1 \/ k = 2
  OBVIOUS
<1>5. {k \in 1 .. 2 : s[k] \in A} = {}
  BY <1>3, <1>4
<1>6. Count(s, A) = 0
  BY <1>1, <1>5, FS_EmptySet DEF Count
<1> QED
  BY <1>6 DEF s, A

\* The text of a request has one request line, and a form if it is a POST.
LEMMA CountText ==
    ASSUME NEW r \in Request, NEW other \in {"start", "form"}
    PROVE  LET A == {x \in TokenSet : x.kind = other /\ x.half = 1}
           IN  Count(Text(r), A) = IF other = "start" \/ r.method = "POST" THEN 1 ELSE 0
<1> DEFINE A == {x \in TokenSet : x.kind = other /\ x.half = 1}
           Q == Seq(TokenSet)
           U(s) == Count(s, A)
           C == CRLF(r)
           S == Line(r, "start")
           Z == Line(r, "Connection")
           Y == Line(r, "Content-Type")
           F == Line(r, "form")
           E == << >>
           D == IF r.ended THEN C ELSE E
           J == IF r.method = "POST" THEN Y \o C \o C \o F \o D ELSE C
           W == IF r.keep THEN Z \o C ELSE E
<1>1. C \in Q /\ S \in Q /\ Z \in Q /\ Y \in Q /\ F \in Q /\ E \in Q
  BY LineType, EmptySeq
<1>2. /\ other \in LineKinds /\ "start" \in LineKinds /\ "Connection" \in LineKinds
      /\ "Content-Type" \in LineKinds /\ "form" \in LineKinds
  BY DEF LineKinds
<1>3. /\ U(S) = IF other = "start" THEN 1 ELSE 0
      /\ U(F) = IF other = "form" THEN 1 ELSE 0
      /\ U(Z) = 0 /\ U(Y) = 0
  BY <1>2, CountLine
<1>4. U(C) = 0
  BY <1>2, CountCRLF
<1>5. U(E) = 0
  BY CountNone
<1>6. Text(r) = S \o C \o W \o J
  BY DEF Text
<1> HIDE DEF A, C, S, Z, Y, F, E
<1>7. \A s, v \in Q : s \o v \in Q /\ U(s \o v) = U(s) + U(v)
  BY ConcatProperties, CountConcat
<1> HIDE DEF U, Q
<1>8. D \in Q /\ U(D) = 0
  BY <1>1, <1>4, <1>5
<1> HIDE DEF D
<1>9. W \in Q /\ U(W) = 0
  BY <1>1, <1>3, <1>4, <1>5, <1>7
<1> HIDE DEF W
<1>10. J \in Q /\ U(J) = IF r.method = "POST" /\ other = "form" THEN 1 ELSE 0
  <2>1. CASE r.method = "POST"
    <3>1. J = (((Y \o C) \o C) \o F) \o D
      BY <2>1
    <3>2. Y \o C \in Q /\ U(Y \o C) = 0
      BY <1>1, <1>3, <1>4, <1>7
    <3>3. (Y \o C) \o C \in Q /\ U((Y \o C) \o C) = 0
      BY <1>1, <1>4, <1>7, <3>2
    <3>4. ((Y \o C) \o C) \o F \in Q /\ U(((Y \o C) \o C) \o F) = U(F)
      BY <1>1, <1>3, <1>7, <3>3
    <3>5. J \in Q /\ U(J) = U(F)
      <4> DEFINE G == ((Y \o C) \o C) \o F
      <4>1. G \in Q /\ U(G) = U(F) /\ J = G \o D
        BY <3>1, <3>4
      <4>2. U(F) \in {0, 1}
        BY <1>3
      <4> HIDE DEF G, J
      <4>3. J \in Q /\ U(J) = U(G) + U(D)
        BY <1>7, <1>8, <4>1
      <4> QED
        BY <1>8, <4>1, <4>2, <4>3
    <3> QED
      BY <1>3, <2>1, <3>5
  <2>2. CASE r.method # "POST"
    BY <1>1, <1>4, <2>2
  <2> QED
    BY <2>1, <2>2
<1> HIDE DEF J
<1>11. S \o C \in Q /\ U(S \o C) = U(S)
  BY <1>1, <1>3, <1>4, <1>7
<1>12. (S \o C) \o W \in Q /\ U((S \o C) \o W) = U(S)
  BY <1>3, <1>7, <1>9, <1>11
<1>13. U(Text(r)) = U(S) + U(J)
  BY <1>6, <1>7, <1>10, <1>12
<1>14. U(Text(r)) = IF other = "start" \/ r.method = "POST" THEN 1 ELSE 0
  BY <1>3, <1>10, <1>13
<1> QED
  BY <1>14 DEF U, A
-----------------------------------------------------------------------------
(* No request is answered twice but for one refusal, and no form is acted  *)
(* on twice.                                                               *)

LEMMA Numbers ==
    ASSUME HttpTypeOK, NEW c \in Peers, NEW A
    PROVE  /\ Len(answers[c]) \in Nat /\ Len(asked[c]) \in Nat /\ Unread(c, A) \in Nat
           /\ Count(answers[c], A) \in Nat /\ Count(asked[c], A) \in Nat
           /\ Count(readBuff[c], A) \in Nat /\ Count(wire[c], A) \in Nat
           /\ Unread(c, A) = Count(readBuff[c], A) + Count(wire[c], A)
<1>1. /\ answers[c] \in Seq(Answer) /\ asked[c] \in Seq(Request)
      /\ readBuff[c] \in Seq(TokenSet) /\ wire[c] \in Seq(TokenSet)
  BY DEF HttpTypeOK
<1>2. Len(answers[c]) \in Nat /\ Len(asked[c]) \in Nat
  BY <1>1, LenProperties
<1>3. Count(answers[c], A) \in Nat /\ Count(asked[c], A) \in Nat
  BY <1>1, CountType
<1>4. Count(readBuff[c], A) \in Nat /\ Count(wire[c], A) \in Nat
  BY <1>1, CountType
<1> QED
  BY <1>2, <1>3, <1>4 DEF Unread

LEMMA UnreadAsk ==
    ASSUME HttpTypeOK, NEW c \in Peers, NEW r \in Request, Ask(c, r), NEW A
    PROVE  Unread(c, A)' = Unread(c, A) + Count(Text(r), A)
<1>1. readBuff'[c] = readBuff[c] /\ wire'[c] = wire[c] \o Text(r) /\ wire[c] \in Seq(TokenSet)
  BY DEF Ask, HttpTypeOK
<1>2. Text(r) \in Seq(TokenSet)
  BY TextType
<1>3. Count(wire[c] \o Text(r), A) = Count(wire[c], A) + Count(Text(r), A)
  BY <1>1, <1>2, CountConcat
<1>4. Count(Text(r), A) \in Nat
  BY <1>2, CountType
<1> HIDE DEF Text
<1> QED
  BY <1>1, <1>3, <1>4, Numbers, SMTT(30) DEF Unread

LEMMA UnreadRead ==
    ASSUME HttpTypeOK, NEW c \in Peers, NEW k \in 1 .. Len(wire[c]), Read(c, k), NEW A
    PROVE  Unread(c, A)' = Unread(c, A)
<1> DEFINE u == SubSeq(wire[c], 1, k)
           v == SubSeq(wire[c], k + 1, Len(wire[c]))
<1>1. /\ readBuff'[c] = readBuff[c] \o u /\ wire'[c] = v
      /\ wire[c] \in Seq(TokenSet) /\ readBuff[c] \in Seq(TokenSet)
  BY DEF Read, HttpTypeOK
<1>2. /\ u \in Seq(TokenSet) /\ v \in Seq(TokenSet)
      /\ Count(wire[c], A) = Count(u, A) + Count(v, A)
  BY <1>1, CountCut
<1> HIDE DEF u, v
<1>3. Count(readBuff[c] \o u, A) = Count(readBuff[c], A) + Count(u, A)
  BY <1>1, <1>2, CountConcat
<1>4. Count(u, A) \in Nat /\ Count(v, A) \in Nat
  BY <1>2, CountType
<1> QED
  <2>1. /\ Unread(c, A) = Count(readBuff[c], A) + Count(wire[c], A)
        /\ Count(readBuff[c], A) \in Nat
    BY Numbers
  <2>2. Unread(c, A)' = Count(readBuff[c] \o u, A) + Count(v, A)
    BY <1>1 DEF Unread
  <2> QED
    BY <1>2, <1>3, <1>4, <2>1, <2>2

LEMMA UnreadPass ==
    ASSUME HttpTypeOK, NEW c \in Peers, NEW state, EndPass(c, state), UNCHANGED wire, NEW A
    PROVE  /\ Unread(c, A)' \in Nat /\ Unread(c, A)' <= Unread(c, A)
           /\ EndsAt(readBuff[c]) # {} /\ readBuff[c][1] \in A =>
                  Unread(c, A)' + 1 <= Unread(c, A)
           /\ EndsAt(readBuff[c]) = {} => readBuff'[c] = readBuff[c]
           /\ phase'[c] \in {"parsing", "answering"}
           /\ EndsAt(readBuff[c]) = {} \/ state = "FINISH" => phase'[c] = "answering"
<1> DEFINE t == readBuff[c]
<1>1. t \in Seq(TokenSet) /\ readBuff'[c] = Rest(t) /\ wire'[c] = wire[c]
  BY DEF EndPass, HttpTypeOK
<1>2. phase'[c] = IF EndsAt(t) = {} \/ Rest(t) = << >> \/ state = "FINISH"
                  THEN "answering" ELSE "parsing"
  BY DEF EndPass, HttpTypeOK
<1>3. EndsAt(t) = {} => Rest(t) = t
  BY DEF Rest
<1>4. Unread(c, A) = Count(t, A) + Count(wire[c], A)
      /\ Count(t, A) \in Nat /\ Count(wire[c], A) \in Nat
  BY Numbers
<1> HIDE DEF t
<1>5. /\ Rest(t) \in Seq(TokenSet) /\ Count(Rest(t), A) <= Count(t, A)
      /\ EndsAt(t) # {} /\ t[1] \in A => Count(Rest(t), A) + 1 <= Count(t, A)
  BY <1>1, CountRest
<1>6. Count(Rest(t), A) \in Nat
  BY <1>5, CountType
<1>7. Unread(c, A)' = Count(Rest(t), A) + Count(wire[c], A)
  BY <1>1 DEF Unread
<1>8. /\ Unread(c, A)' \in Nat /\ Unread(c, A)' <= Unread(c, A)
      /\ EndsAt(t) # {} /\ t[1] \in A => Unread(c, A)' + 1 <= Unread(c, A)
  BY <1>4, <1>5, <1>6, <1>7
<1>9. /\ phase'[c] \in {"parsing", "answering"}
      /\ EndsAt(t) = {} \/ state = "FINISH" => phase'[c] = "answering"
  BY <1>2
<1> QED
  BY <1>1, <1>3, <1>8, <1>9 DEF t

LEMMA UnreadSame ==
    ASSUME NEW c, Same(c), NEW A
    PROVE  Unread(c, A)' = Unread(c, A)
BY DEF Same, Unread

\* What Ask makes of the numbers.
LEMMA AskCounts ==
    ASSUME HttpTypeOK, NEW c \in Peers, NEW r \in Request, Ask(c, r)
    PROVE  /\ Len(asked'[c]) = Len(asked[c]) + 1
           /\ Unread(c, Starts)' = Unread(c, Starts) + 1
           /\ LET more == IF r.method = "POST" THEN 1 ELSE 0
              IN  /\ Count(asked'[c], Posts) = Count(asked[c], Posts) + more
                  /\ Unread(c, Forms)' = Unread(c, Forms) + more
           /\ answers'[c] = answers[c] /\ phase'[c] = phase[c]
           /\ request'[c] = request[c] /\ readBuff'[c] = readBuff[c]
<1>1. /\ asked'[c] = Append(asked[c], r) /\ asked[c] \in Seq(Request)
      /\ answers'[c] = answers[c] /\ phase'[c] = phase[c]
      /\ request'[c] = request[c] /\ readBuff'[c] = readBuff[c]
  BY DEF Ask, history, HttpTypeOK
<1>2. Len(Append(asked[c], r)) = Len(asked[c]) + 1
  BY <1>1, AppendProperties
<1>3. Count(Append(asked[c], r), Posts) = Count(asked[c], Posts) + IF r \in Posts THEN 1 ELSE 0
  BY <1>1, CountAppend
<1>4. r \in Posts <=> r.method = "POST"
  BY DEF Posts
<1>5. Count(Text(r), Starts) = 1
  BY CountText DEF Starts
<1>6. Count(Text(r), Forms) = IF r.method = "POST" THEN 1 ELSE 0
  BY CountText DEF Forms
<1>7. /\ Unread(c, Starts)' = Unread(c, Starts) + Count(Text(r), Starts)
      /\ Unread(c, Forms)' = Unread(c, Forms) + Count(Text(r), Forms)
  BY UnreadAsk
<1> QED
  BY <1>1, <1>2, <1>3, <1>4, <1>5, <1>6, <1>7

\* Where Begin leads.
LEMMA BeginMakes ==
    ASSUME HttpTypeOK, NEW c \in Peers, NEW text, Begin(c, text)
    PROVE  /\ request'[c] = Blank
           /\ phase'[c] = IF text = << >> THEN "reading" ELSE "parsing"
           /\ request'[c].state = "REQUEST_LINE" /\ request'[c].keep = FALSE
           /\ request'[c].account = NoAccount
<1>1. request'[c] = Blank /\ phase'[c] = IF text = << >> THEN "reading" ELSE "parsing"
  BY DEF Begin, HttpTypeOK
<1> QED
  BY <1>1 DEF Blank

\* The answer of Respond, and what becomes of the connection.
LEMMA RespondCounts ==
    ASSUME HttpTypeOK, HttpTypeOK', NEW c \in Peers, Respond(c)
    PROVE  /\ phase[c] \in {"answering", "refusing"}
           /\ Len(answers'[c]) = Len(answers[c]) + 1
           /\ Count(answers'[c], Accepted) =
                 Count(answers[c], Accepted) + IF request[c].account # NoAccount THEN 1 ELSE 0
           /\ asked'[c] = asked[c] /\ readBuff'[c] = readBuff[c]
           /\ \A A : Unread(c, A)' = Unread(c, A)
           /\ IF request[c].keep THEN Begin(c, readBuff[c]) ELSE phase'[c] = "closed"
<1> DEFINE x == AnswerTo(request[c].path, phase[c], request[c].account, c, fresh)
<1>1. /\ answers'[c] = Append(answers[c], x) /\ answers[c] \in Seq(Answer)
      /\ answers'[c] \in Seq(Answer)
  BY RespondForm DEF HttpTypeOK
<1>2. x.account = request[c].account
  BY DEF AnswerTo
<1>3. /\ phase[c] \in {"answering", "refusing"} /\ asked'[c] = asked[c]
      /\ readBuff'[c] = readBuff[c] /\ wire'[c] = wire[c]
  BY DEF Respond, network
<1>4. IF request[c].keep THEN Begin(c, readBuff[c]) ELSE phase'[c] = "closed"
  BY RespondForm DEF HttpTypeOK
<1> HIDE DEF x
<1>5. Len(answers'[c]) = Len(answers[c]) + 1 /\ answers'[c][Len(answers[c]) + 1] = x
  BY <1>1
<1>6. x \in Answer
  <2>1. Len(answers[c]) + 1 \in 1 .. Len(answers'[c])
    BY <1>1, <1>5, LenProperties
  <2> QED
    BY <1>1, <1>5, <2>1, ElementOfSeq
<1>7. Count(Append(answers[c], x), Accepted) =
         Count(answers[c], Accepted) + IF x \in Accepted THEN 1 ELSE 0
  BY <1>1, <1>6, CountAppend
<1>8. x \in Accepted <=> request[c].account # NoAccount
  BY <1>2, <1>6 DEF Accepted
<1>9. \A A : Unread(c, A)' = Unread(c, A)
  BY <1>3 DEF Unread
<1> QED
  BY <1>1, <1>3, <1>4, <1>5, <1>7, <1>8, <1>9

LEMMA AnswersRead ==
    ASSUME HttpTypeOK, NEW c \in Peers, NEW k \in 1 .. Len(wire[c]), Read(c, k), AnswersFor(c)
    PROVE  AnswersFor(c)'
<1>1. /\ phase[c] = "reading" /\ answers'[c] = answers[c] /\ asked'[c] = asked[c]
      /\ Begin(c, readBuff[c] \o SubSeq(wire[c], 1, k))
  BY DEF Read
<1>2. /\ phase'[c] \in {"reading", "parsing"} /\ request'[c].state = "REQUEST_LINE"
      /\ request'[c].keep = FALSE
  BY <1>1, BeginMakes
<1>3. Unread(c, Starts)' = Unread(c, Starts)
  BY UnreadRead
<1> QED
  BY <1>1, <1>2, <1>3 DEF AnswersFor

LEMMA AnswersAsk ==
    ASSUME HttpTypeOK, NEW c \in Peers, NEW r \in Request, Ask(c, r), AnswersFor(c)
    PROVE  AnswersFor(c)'
<1>1. /\ Len(asked'[c]) = Len(asked[c]) + 1
      /\ Unread(c, Starts)' = Unread(c, Starts) + 1
      /\ answers'[c] = answers[c] /\ phase'[c] = phase[c] /\ request'[c] = request[c]
  BY AskCounts
<1>2. Len(answers[c]) \in Nat /\ Len(asked[c]) \in Nat /\ Unread(c, Starts) \in Nat
  BY Numbers
<1> QED
  BY <1>1, <1>2, SMTT(30) DEF AnswersFor

\* What a request line, a header and a body make of the request.
LEMMA LineMakes ==
    ASSUME HttpTypeOK, NEW c \in Peers, ParseRequestLine(c)
    PROVE  /\ phase[c] = "parsing" /\ request[c].state = "REQUEST_LINE"
           /\ answers'[c] = answers[c] /\ asked'[c] = asked[c] /\ UNCHANGED wire
           /\ \/ /\ EndPass(c, "HEADERS") /\ request'[c].state = "HEADERS"
                 /\ readBuff[c] # << >> /\ readBuff[c][1] \in Starts
              \/ phase'[c] = "refusing" /\ readBuff'[c] = readBuff[c]
           /\ request'[c].keep = request[c].keep
           /\ request'[c].account = request[c].account
<1> DEFINE line == FirstLine(readBuff[c])
<1>1. /\ phase[c] = "parsing" /\ request[c].state = "REQUEST_LINE"
      /\ answers'[c] = answers[c] /\ asked'[c] = asked[c] /\ UNCHANGED wire
      /\ request[c] \in State
  BY DEF ParseRequestLine, network, history, HttpTypeOK
<1>2. CASE /\ Begins(line, "start") /\ EndPass(c, "HEADERS")
           /\ request' = [request EXCEPT ![c] = AfterRequestLine(request[c], line)]
  <2>1. readBuff[c] # << >> /\ line[1] = readBuff[c][1] /\ readBuff[c][1] \in TokenSet
    <3>1. readBuff[c] \in Seq(TokenSet)
      BY DEF HttpTypeOK
    <3>2. line # << >>
      BY <1>2, EmptySeq DEF Begins
    <3> QED
      BY <3>1, <3>2, FirstOfLine
  <2>2. readBuff[c][1] \in Starts
    BY <1>2, <2>1 DEF Begins, Starts
  <2>3. request'[c] = AfterRequestLine(request[c], line)
    BY <1>2 DEF HttpTypeOK
  <2> HIDE DEF line
  <2>4. /\ request'[c].state = "HEADERS" /\ request'[c].keep = request[c].keep
        /\ request'[c].account = request[c].account
    BY <1>1, <2>3 DEF AfterRequestLine, State
  <2> QED
    BY <1>1, <1>2, <2>1, <2>2, <2>4
<1>3. CASE phase' = [phase EXCEPT ![c] = "refusing"] /\ UNCHANGED <<request, readBuff>>
  BY <1>1, <1>3 DEF HttpTypeOK
<1> QED
  BY <1>2, <1>3, RequestLineForm

LEMMA HeaderLeaves ==
    ASSUME HttpTypeOK, NEW c \in Peers, ParseHeader(c)
    PROVE  /\ phase[c] = "parsing" /\ request[c].state = "HEADERS"
           /\ answers'[c] = answers[c] /\ asked'[c] = asked[c] /\ UNCHANGED wire
           /\ \E state : EndPass(c, state)
           /\ request'[c].state # "REQUEST_LINE"
           /\ request'[c].account = request[c].account
<1> DEFINE line == FirstLine(readBuff[c])
           state == AfterHeader(c, line)
<1>1. /\ phase[c] = "parsing" /\ request[c].state = "HEADERS"
      /\ answers'[c] = answers[c] /\ asked'[c] = asked[c] /\ UNCHANGED wire
      /\ request[c] \in State
  BY DEF ParseHeader, network, history, HttpTypeOK
<1>2. EndPass(c, state) /\ request'[c] = AfterHeaderLine(request[c], state, line)
  BY HeaderForm DEF HttpTypeOK
<1>3. state # "REQUEST_LINE"
  BY DEF AfterHeader
<1> HIDE DEF line, state
<1>4. request'[c].state = state /\ request'[c].account = request[c].account
  BY <1>1, <1>2 DEF AfterHeaderLine, State
<1> QED
  BY <1>1, <1>2, <1>3, <1>4

LEMMA BodyLeaves ==
    ASSUME HttpTypeOK, NEW c \in Peers, ParseBody(c)
    PROVE  /\ phase[c] = "parsing" /\ request[c].state = "BODY"
           /\ answers'[c] = answers[c] /\ asked'[c] = asked[c] /\ UNCHANGED wire
           /\ EndPass(c, "FINISH")
           /\ \/ request'[c].account = request[c].account
              \/ request'[c].account = NoAccount
              \/ readBuff[c] # << >> /\ readBuff[c][1] \in Forms
<1> DEFINE line == FirstLine(readBuff[c])
<1>1. /\ phase[c] = "parsing" /\ request[c].state = "BODY"
      /\ answers'[c] = answers[c] /\ asked'[c] = asked[c] /\ UNCHANGED wire
      /\ request[c] \in State /\ EndPass(c, "FINISH")
  BY DEF ParseBody, network, history, HttpTypeOK
<1>2. PICK a \in Named(line), ok \in BOOLEAN : \E q :
        /\ request' = [request EXCEPT ![c] = q]
        /\ IF /\ request[c].post /\ request[c].typed
              /\ request[c].path \in {<<"register", TRUE>>, <<"login", TRUE>>}
           THEN IF a # NoAccount
                THEN q = [request[c] EXCEPT
                             !.state = "FINISH",
                             !.path = <<IF ok THEN "welcome" ELSE "error", TRUE>>,
                             !.account = IF ok THEN a ELSE NoAccount]
                ELSE q = [request[c] EXCEPT !.state = "FINISH", !.path = <<"error", TRUE>>]
           ELSE q = [request[c] EXCEPT !.state = "FINISH"]
  BY BodyForm
<1>3. a # NoAccount => readBuff[c] # << >> /\ readBuff[c][1] \in Forms
  <2> SUFFICES ASSUME a # NoAccount PROVE readBuff[c] # << >> /\ readBuff[c][1] \in Forms
    OBVIOUS
  <2>1. readBuff[c] \in Seq(TokenSet)
    BY DEF HttpTypeOK
  <2>2. line # << >> /\ line[1].kind = "form" /\ line[1].half = 1
    <3>1. line \in Seq(TokenSet) /\ Len(<< >>) = 0
      BY <2>1, RestType, EmptySeq
    <3> HIDE DEF line
    <3>2. CASE Begins(line, "form")
      BY <3>1, <3>2 DEF Begins
    <3>3. CASE ~Begins(line, "form")
      BY <1>2, <3>3 DEF Named
    <3> QED
      BY <3>2, <3>3
  <2>3. readBuff[c] # << >> /\ line[1] = readBuff[c][1] /\ readBuff[c][1] \in TokenSet
    BY <2>1, <2>2, FirstOfLine
  <2> QED
    BY <2>2, <2>3 DEF Forms
<1>4. \/ request'[c].account = request[c].account
      \/ request'[c].account = NoAccount
      \/ a # NoAccount
  <2>1. PICK q :
          /\ request' = [request EXCEPT ![c] = q]
          /\ a = NoAccount => \/ q = [request[c] EXCEPT !.state = "FINISH",
                                                        !.path = <<"error", TRUE>>]
                              \/ q = [request[c] EXCEPT !.state = "FINISH"]
    BY <1>2
  <2>2. request'[c] = q
    BY <2>1 DEF HttpTypeOK
  <2>3. a = NoAccount => q.account = request[c].account
    BY <1>1, <2>1 DEF State
  <2> QED
    BY <2>2, <2>3
<1> QED
  BY <1>1, <1>3, <1>4

LEMMA AnswersPass ==
    ASSUME HttpTypeOK, NEW c \in Peers, AnswersFor(c),
           ParseRequestLine(c) \/ ParseHeader(c) \/ ParseBody(c)
    PROVE  AnswersFor(c)'
<1>1. Len(answers[c]) \in Nat /\ Len(asked[c]) \in Nat /\ Unread(c, Starts) \in Nat
  BY Numbers
<1>2. CASE ParseRequestLine(c)
  <2>1. /\ answers'[c] = answers[c] /\ asked'[c] = asked[c]
        /\ request'[c].keep = request[c].keep /\ ~request[c].keep
        /\ Len(answers[c]) + Unread(c, Starts) <= Len(asked[c])
    BY <1>2, LineMakes DEF AnswersFor
  <2>2. CASE /\ EndPass(c, "HEADERS") /\ request'[c].state = "HEADERS"
             /\ readBuff[c] # << >> /\ readBuff[c][1] \in Starts
    <3>1. UNCHANGED wire
      BY <1>2, LineMakes
    <3>2. /\ Unread(c, Starts)' \in Nat
          /\ EndsAt(readBuff[c]) # {} => Unread(c, Starts)' + 1 <= Unread(c, Starts)
          /\ phase'[c] \in {"parsing", "answering"}
          /\ EndsAt(readBuff[c]) = {} => phase'[c] = "answering"
      BY <2>2, <3>1, UnreadPass
    <3> QED
      BY <1>1, <2>1, <2>2, <3>2 DEF AnswersFor
  <2>3. CASE phase'[c] = "refusing"
    BY <1>1, <2>1, <2>3 DEF AnswersFor
  <2> QED
    BY <1>2, <2>2, <2>3, LineMakes
<1>3. CASE ParseHeader(c) \/ ParseBody(c)
  <2>1. /\ phase[c] = "parsing" /\ request[c].state # "REQUEST_LINE"
        /\ answers'[c] = answers[c] /\ asked'[c] = asked[c] /\ UNCHANGED wire
    BY <1>3, HeaderLeaves, BodyLeaves
  <2>2. PICK state : EndPass(c, state)
    BY <1>3, HeaderLeaves, BodyLeaves
  <2>3. /\ Unread(c, Starts)' \in Nat /\ Unread(c, Starts)' <= Unread(c, Starts)
        /\ phase'[c] \in {"parsing", "answering"}
    BY <2>1, <2>2, UnreadPass
  <2>4. phase'[c] = "parsing" => request'[c].state # "REQUEST_LINE"
    <3>1. CASE ParseHeader(c)
      BY <3>1, HeaderLeaves
    <3>2. CASE ParseBody(c)
      BY <2>1, <3>2, BodyLeaves, UnreadPass
    <3> QED
      BY <1>3, <3>1, <3>2
  <2> QED
    BY <1>1, <2>1, <2>3, <2>4 DEF AnswersFor
<1> QED
  BY <1>2, <1>3

LEMMA AnswersRespond ==
    ASSUME HttpTypeOK, HttpTypeOK', NEW c \in Peers, AnswersFor(c), Respond(c)
    PROVE  AnswersFor(c)'
<1>1. Len(answers[c]) \in Nat /\ Len(asked[c]) \in Nat /\ Unread(c, Starts) \in Nat
  BY Numbers
<1>2. /\ phase[c] \in {"answering", "refusing"} /\ Len(answers'[c]) = Len(answers[c]) + 1
      /\ asked'[c] = asked[c]
      /\ IF request[c].keep THEN Begin(c, readBuff[c]) ELSE phase'[c] = "closed"
  BY RespondCounts
<1>3. Unread(c, Starts)' = Unread(c, Starts)
  BY RespondCounts
<1>4. CASE request[c].keep
  <2>1. /\ phase'[c] \in {"reading", "parsing"} /\ request'[c].state = "REQUEST_LINE"
        /\ request'[c].keep = FALSE
    BY <1>2, <1>4, BeginMakes
  <2>2. Len(answers[c]) + 1 + Unread(c, Starts) <= Len(asked[c])
    BY <1>2, <1>4 DEF AnswersFor
  <2> QED
    BY <1>1, <1>2, <1>3, <2>1, <2>2 DEF AnswersFor
<1>5. CASE ~request[c].keep
  <2>1. phase'[c] = "closed"
    BY <1>2, <1>5
  <2>2. Len(answers[c]) <= Len(asked[c])
    BY <1>1, <1>2 DEF AnswersFor
  <2> QED
    BY <1>1, <1>2, <2>1, <2>2 DEF AnswersFor
<1> QED
  BY <1>4, <1>5

LEMMA FormsAsk ==
    ASSUME HttpTypeOK, NEW c \in Peers, NEW r \in Request, Ask(c, r), FormsFor(c)
    PROVE  FormsFor(c)'
<1> DEFINE more == IF r.method = "POST" THEN 1 ELSE 0
<1>1. /\ Count(asked'[c], Posts) = Count(asked[c], Posts) + more
      /\ Unread(c, Forms)' = Unread(c, Forms) + more
      /\ answers'[c] = answers[c] /\ phase'[c] = phase[c]
      /\ request'[c] = request[c] /\ readBuff'[c] = readBuff[c]
  BY AskCounts
<1>2. /\ Count(answers[c], Accepted) \in Nat /\ Count(asked[c], Posts) \in Nat
      /\ Unread(c, Forms) \in Nat /\ more \in {0, 1}
  BY Numbers
<1>3. FormFirst(c)' <=> FormFirst(c)
  BY <1>1 DEF FormFirst
<1> HIDE DEF more
<1> QED
  BY <1>1, <1>2, <1>3 DEF FormsFor

LEMMA FormsRead ==
    ASSUME HttpTypeOK, NEW c \in Peers, NEW k \in 1 .. Len(wire[c]), Read(c, k), FormsFor(c)
    PROVE  FormsFor(c)'
<1>1. /\ phase[c] = "reading" /\ answers'[c] = answers[c] /\ asked'[c] = asked[c]
      /\ Begin(c, readBuff[c] \o SubSeq(wire[c], 1, k))
  BY DEF Read
<1>2. phase'[c] \in {"reading", "parsing"} /\ request'[c].account = NoAccount
  BY <1>1, BeginMakes
<1>3. Unread(c, Forms)' = Unread(c, Forms)
  BY UnreadRead
<1> QED
  BY <1>1, <1>2, <1>3 DEF FormsFor

LEMMA FormsPass ==
    ASSUME HttpTypeOK, NEW c \in Peers, FormsFor(c),
           ParseRequestLine(c) \/ ParseHeader(c) \/ ParseBody(c)
    PROVE  FormsFor(c)'
<1> DEFINE acted == Count(answers[c], Accepted)
           sent  == Count(asked[c], Posts)
           left  == Unread(c, Forms)
<1>1. acted \in Nat /\ sent \in Nat /\ left \in Nat
  BY Numbers
<1>2. CASE ParseRequestLine(c)
  <2>1. /\ answers'[c] = answers[c] /\ asked'[c] = asked[c]
        /\ request'[c].account = NoAccount /\ acted <= sent
    BY <1>2, LineMakes DEF FormsFor
  <2>2. CASE /\ EndPass(c, "HEADERS") /\ readBuff[c] # << >> /\ readBuff[c][1] \in Starts
    <3>1. UNCHANGED wire
      BY <1>2, LineMakes
    <3>2. ~FormFirst(c)
      BY <2>2 DEF FormFirst, Starts, Forms
    <3>3. acted + left <= sent
      BY <1>2, <3>2, LineMakes DEF FormsFor
    <3>4. /\ Unread(c, Forms)' \in Nat /\ Unread(c, Forms)' <= left
          /\ phase'[c] \in {"parsing", "answering"}
      BY <2>2, <3>1, UnreadPass
    <3>5. acted + Unread(c, Forms)' <= sent
      BY <1>1, <3>3, <3>4
    <3> QED
      BY <2>1, <3>4, <3>5 DEF FormsFor
  <2>3. CASE phase'[c] = "refusing"
    BY <2>1, <2>3 DEF FormsFor
  <2> QED
    BY <1>2, <2>2, <2>3, LineMakes
<1>3. CASE ParseHeader(c)
  <2>1. /\ answers'[c] = answers[c] /\ asked'[c] = asked[c] /\ UNCHANGED wire
        /\ request'[c].account = NoAccount /\ acted <= sent /\ acted + left <= sent
    BY <1>3, HeaderLeaves DEF FormsFor
  <2>2. PICK state : EndPass(c, state)
    BY <1>3, HeaderLeaves
  <2>3. /\ Unread(c, Forms)' \in Nat /\ Unread(c, Forms)' <= left
        /\ phase'[c] \in {"parsing", "answering"}
    BY <2>1, <2>2, UnreadPass
  <2>4. acted + Unread(c, Forms)' <= sent
    BY <1>1, <2>1, <2>3
  <2> QED
    BY <2>1, <2>3, <2>4 DEF FormsFor
<1>4. CASE ParseBody(c)
  <2>1. /\ phase[c] = "parsing" /\ request[c].state = "BODY" /\ EndPass(c, "FINISH")
        /\ answers'[c] = answers[c] /\ asked'[c] = asked[c] /\ UNCHANGED wire
        /\ \/ request'[c].account = request[c].account
           \/ request'[c].account = NoAccount
           \/ readBuff[c] # << >> /\ readBuff[c][1] \in Forms
    BY <1>4, BodyLeaves
  <2>2. request[c].account = NoAccount /\ acted <= sent /\ acted + left <= sent
    BY <2>1 DEF FormsFor
  <2>3. /\ Unread(c, Forms)' \in Nat /\ Unread(c, Forms)' <= left
        /\ EndsAt(readBuff[c]) # {} /\ readBuff[c][1] \in Forms =>
               Unread(c, Forms)' + 1 <= left
        /\ EndsAt(readBuff[c]) = {} => readBuff'[c] = readBuff[c]
        /\ phase'[c] = "answering"
    BY <2>1, UnreadPass
  <2>4. acted + Unread(c, Forms)' <= sent
    BY <1>1, <2>2, <2>3
  <2>5. CASE request'[c].account = NoAccount
    BY <2>1, <2>2, <2>3, <2>4, <2>5 DEF FormsFor
  <2>6. CASE readBuff[c] # << >> /\ readBuff[c][1] \in Forms
    <3>1. CASE EndsAt(readBuff[c]) # {}
      <4>1. acted + 1 + Unread(c, Forms)' <= sent
        BY <1>1, <2>2, <2>3, <2>6, <3>1
      <4> QED
        BY <2>1, <2>2, <2>3, <4>1 DEF FormsFor
    <3>2. CASE EndsAt(readBuff[c]) = {}
      <4>1. FormFirst(c)'
        BY <2>3, <2>6, <3>2 DEF FormFirst
      <4> QED
        BY <2>1, <2>2, <2>3, <2>4, <4>1 DEF FormsFor
    <3> QED
      BY <3>1, <3>2
  <2> QED
    BY <2>1, <2>2, <2>5, <2>6
<1> QED
  BY <1>2, <1>3, <1>4

LEMMA FormsRespond ==
    ASSUME HttpTypeOK, HttpTypeOK', NEW c \in Peers, AnswersFor(c), FormsFor(c), Respond(c)
    PROVE  FormsFor(c)'
<1> DEFINE acted == Count(answers[c], Accepted)
           sent  == Count(asked[c], Posts)
           left  == Unread(c, Forms)
<1>1. acted \in Nat /\ sent \in Nat /\ left \in Nat
  BY Numbers
<1>2. /\ phase[c] \in {"answering", "refusing"}
      /\ Count(answers'[c], Accepted) =
            acted + IF request[c].account # NoAccount THEN 1 ELSE 0
      /\ asked'[c] = asked[c] /\ readBuff'[c] = readBuff[c]
      /\ IF request[c].keep THEN Begin(c, readBuff[c]) ELSE phase'[c] = "closed"
  BY RespondCounts
<1>3. Unread(c, Forms)' = left
  BY RespondCounts
<1>4. FormFirst(c) => left >= 1
  <2>1. readBuff[c] \in Seq(TokenSet)
    BY DEF HttpTypeOK
  <2>2. FormFirst(c) => Count(readBuff[c], Forms) >= 1
    BY <2>1, CountSome DEF FormFirst
  <2>3. /\ left = Count(readBuff[c], Forms) + Count(wire[c], Forms)
        /\ Count(readBuff[c], Forms) \in Nat /\ Count(wire[c], Forms) \in Nat
    BY Numbers
  <2> QED
    BY <2>2, <2>3
<1>5. FormFirst(c)' <=> FormFirst(c)
  BY <1>2 DEF FormFirst
<1>6. phase[c] = "refusing" => ~request[c].keep /\ request[c].account = NoAccount
  BY DEF AnswersFor, FormsFor
<1>7. acted <= sent
  BY DEF FormsFor
<1>8. phase[c] = "answering" =>
        \/ acted + left <= sent /\ request[c].account = NoAccount
        \/ acted + 1 + left <= sent
        \/ acted + left <= sent /\ FormFirst(c)
  BY DEF FormsFor
<1>9. Count(answers'[c], Accepted) \in Nat /\ Count(answers'[c], Accepted) <= sent
  BY <1>1, <1>2, <1>4, <1>6, <1>7, <1>8
<1>10. CASE request[c].keep
  <2>1. /\ phase'[c] = IF readBuff[c] = << >> THEN "reading" ELSE "parsing"
        /\ request'[c].state = "REQUEST_LINE" /\ request'[c].account = NoAccount
    BY <1>2, <1>10, BeginMakes
  <2>2. phase[c] = "answering"
    BY <1>2, <1>6, <1>10
  <2>3. \/ Count(answers'[c], Accepted) + left <= sent
        \/ FormFirst(c) /\ Count(answers'[c], Accepted) + left <= sent + 1
    BY <1>1, <1>2, <1>8, <2>2
  <2>4. readBuff[c] = << >> => ~FormFirst(c)
    BY DEF FormFirst
  <2>5. phase'[c] \in {"reading", "parsing"}
    BY <2>1
  <2> QED
    BY <1>2, <1>3, <1>5, <1>9, <2>1, <2>3, <2>4, <2>5 DEF FormsFor
<1>11. CASE ~request[c].keep
  <2>1. phase'[c] = "closed"
    BY <1>2, <1>11
  <2> QED
    BY <1>2, <1>9, <2>1 DEF FormsFor
<1> QED
  BY <1>10, <1>11

LEMMA CountsSame ==
    ASSUME NEW c, Same(c), AnswersFor(c), FormsFor(c)
    PROVE  AnswersFor(c)' /\ FormsFor(c)'
<1>1. Unread(c, Starts)' = Unread(c, Starts) /\ Unread(c, Forms)' = Unread(c, Forms)
  BY UnreadSame
<1>2. AnswersFor(c)'
  BY <1>1 DEF Same, AnswersFor
<1>3. FormFirst(c)' <=> FormFirst(c)
  BY DEF Same, FormFirst
<1>4. FormsFor(c)'
  BY <1>1, <1>3 DEF Same, FormsFor
<1> QED
  BY <1>2, <1>4

LEMMA CountsNew ==
    ASSUME NEW c, phase[c] = "reading", answers[c] = << >>, asked[c] = << >>,
           wire[c] = << >>, readBuff[c] = << >>, request[c].account = NoAccount
    PROVE  AnswersFor(c) /\ FormsFor(c)
<1>1. \A A : Unread(c, A) = 0 /\ Count(answers[c], A) = 0 /\ Count(asked[c], A) = 0
  BY CountNone DEF Unread
<1>2. Len(answers[c]) = 0 /\ Len(asked[c]) = 0
  BY EmptySeq
<1> QED
  BY <1>1, <1>2 DEF AnswersFor, FormsFor

LEMMA CountsRestart ==
    ASSUME Restart, NEW c \in Peers
    PROVE  AnswersFor(c)' /\ FormsFor(c)'
<1>1. /\ phase'[c] = "reading" /\ answers'[c] = << >> /\ asked'[c] = << >>
      /\ wire'[c] = << >> /\ readBuff'[c] = << >> /\ request'[c] = Blank
  BY DEF Restart
<1>2. request'[c].account = NoAccount
  BY <1>1 DEF Blank
<1>3. \A A : Unread(c, A)' = 0 /\ Count(answers'[c], A) = 0 /\ Count(asked'[c], A) = 0
  BY <1>1, CountNone DEF Unread
<1>4. Len(answers'[c]) = 0 /\ Len(asked'[c]) = 0
  BY <1>1, EmptySeq
<1>5. AnswersFor(c)'
  BY <1>1, <1>3, <1>4 DEF AnswersFor
<1>6. FormsFor(c)'
  BY <1>1, <1>2, <1>3 DEF FormsFor
<1> QED
  BY <1>5, <1>6

LEMMA CountsStep ==
    ASSUME HttpAssumption, HttpTypeOK, HttpTypeOK', AnswersInv, FormsInv, [HttpNext]_httpVars
    PROVE  AnswersInv' /\ FormsInv'
<1> SUFFICES ASSUME NEW d \in Peers PROVE AnswersFor(d)' /\ FormsFor(d)'
  BY DEF AnswersInv, FormsInv
<1>0. AnswersFor(d) /\ FormsFor(d)
  BY DEF AnswersInv, FormsInv
<1>1. ASSUME NEW c \in Peers,
             \/ \E r \in Requests[c] : Ask(c, r)
             \/ \E k \in 1 .. Len(wire[c]) : Read(c, k)
             \/ Serve(c)
      PROVE  AnswersFor(d)' /\ FormsFor(d)'
  <2>1. CASE d # c
    <3>1. Same(d)
      BY <1>1, <2>1, OthersSame
    <3> QED
      BY <1>0, <3>1, CountsSame
  <2>2. CASE d = c
    <3>1. ASSUME NEW r \in Requests[c], Ask(c, r) PROVE AnswersFor(d)' /\ FormsFor(d)'
      <4>1. r \in Request
        BY DEF HttpAssumption
      <4> QED
        BY <1>0, <2>2, <3>1, <4>1, AnswersAsk, FormsAsk
    <3>2. ASSUME NEW k \in 1 .. Len(wire[c]), Read(c, k) PROVE AnswersFor(d)' /\ FormsFor(d)'
      BY <1>0, <2>2, <3>2, AnswersRead, FormsRead
    <3>3. CASE Serve(c)
      BY <1>0, <2>2, <3>3, AnswersPass, AnswersRespond, FormsPass, FormsRespond DEF Serve
    <3> QED
      BY <1>1, <3>1, <3>2, <3>3
  <2> QED
    BY <2>1, <2>2
<1>2. CASE Restart
  BY <1>2, CountsRestart
<1>3. CASE UNCHANGED httpVars
  <2>1. Same(d)
    BY <1>3 DEF httpVars, network, history, Same
  <2> QED
    BY <1>0, <2>1, CountsSame
<1> QED
  BY <1>1, <1>2, <1>3 DEF HttpNext

\* No request is answered twice but for one refusal, and no form is acted on twice,
\* whatever is cut and whatever stays in the buffer (httpconn.cpp:90,
\* httprequest.cpp:63).
THEOREM ActedOnce == HttpSpec => []ActedOnOnce
<1>1. HttpInit => AnswersInv /\ FormsInv
  <2> SUFFICES ASSUME HttpInit, NEW c \in Peers PROVE AnswersFor(c) /\ FormsFor(c)
    BY DEF AnswersInv, FormsInv
  <2>1. /\ phase[c] = "reading" /\ answers[c] = << >> /\ asked[c] = << >>
        /\ wire[c] = << >> /\ readBuff[c] = << >> /\ request[c] = Blank
    BY DEF HttpInit
  <2>2. request[c].account = NoAccount
    BY <2>1 DEF Blank
  <2> QED
    BY <2>1, <2>2, CountsNew
<1>2. HttpTypeOK /\ HttpTypeOK' /\ AnswersInv /\ FormsInv /\ [HttpNext]_httpVars
          => AnswersInv' /\ FormsInv'
  BY CountsStep, HttpAssumption
<1>3. HttpTypeOK /\ AnswersInv /\ FormsInv => ActedOnOnce
  <2> SUFFICES ASSUME HttpTypeOK, AnswersInv, FormsInv, NEW c \in Peers
               PROVE  /\ Len(answers[c]) <= Len(asked[c]) + 1
                      /\ Cardinality({l \in 1 .. Len(answers[c]) :
                                          answers[c][l].account # NoAccount})
                             <= Cardinality({l \in 1 .. Len(asked[c]) :
                                                 asked[c][l].method = "POST"})
    BY DEF ActedOnOnce
  <2>1. AnswersFor(c) /\ FormsFor(c)
    BY DEF AnswersInv, FormsInv
  <2>2. Len(answers[c]) <= Len(asked[c]) + 1
    <3>1. /\ Len(answers[c]) \in Nat /\ Len(asked[c]) \in Nat /\ Unread(c, Starts) \in Nat
      BY Numbers
    <3>2. phase[c] \in {"reading", "parsing", "answering", "refusing", "closed"}
      BY DEF HttpTypeOK
    <3> QED
      BY <2>1, <3>1, <3>2 DEF AnswersFor
  <2>3. Count(answers[c], Accepted) <= Count(asked[c], Posts)
    BY <2>1 DEF FormsFor
  <2>4. \A l \in 1 .. Len(answers[c]) :
          answers[c][l] \in Accepted <=> answers[c][l].account # NoAccount
    <3>1. \A l \in 1 .. Len(answers[c]) : answers[c][l] \in Answer
      BY ElementOfSeq DEF HttpTypeOK
    <3> QED
      BY <3>1 DEF Accepted
  <2>5. \A l \in 1 .. Len(asked[c]) : asked[c][l] \in Posts <=> asked[c][l].method = "POST"
    <3>1. \A l \in 1 .. Len(asked[c]) : asked[c][l] \in Request
      BY ElementOfSeq DEF HttpTypeOK
    <3> QED
      BY <3>1 DEF Posts
  <2>6. /\ {l \in 1 .. Len(answers[c]) : answers[c][l] \in Accepted}
               = {l \in 1 .. Len(answers[c]) : answers[c][l].account # NoAccount}
        /\ {l \in 1 .. Len(asked[c]) : asked[c][l] \in Posts}
               = {l \in 1 .. Len(asked[c]) : asked[c][l].method = "POST"}
    BY <2>4, <2>5
  <2> QED
    BY <2>2, <2>3, <2>6 DEF Count
<1> QED
  BY <1>1, <1>2, <1>3, TypeCorrect, PTL DEF HttpSpec

-----------------------------------------------------------------------------
(* The heap of the timer.                                                  *)

LEMMA Half ==
    /\ \A k \in Nat : k >= 2 => /\ k \div 2 \in Nat /\ 1 <= k \div 2 /\ k \div 2 < k
    /\ \A k, j \in Nat : (k \div 2 = j) <=> (k = 2 * j \/ k = 2 * j + 1)
OBVIOUS

\* In an ordered heap the first node is the earliest.
LEMMA RootEarliest ==
    ASSUME NEW h \in Seq(Node), NEW m \in Nat, m <= Len(h),
           \A k \in 2 .. m : h[k \div 2].expires <= h[k].expires
    PROVE  \A k \in 1 .. m : h[1].expires <= h[k].expires
<1> DEFINE S == {k \in 1 .. m : h[k].expires < h[1].expires}
<1>1. \A k \in 1 .. m : k \in Nat /\ h[k] \in Node /\ h[k].expires \in Nat
  <2>1. TAKE k \in 1 .. m
  <2>2. Len(h) \in Nat /\ DOMAIN h = 1 .. Len(h)
    BY LenProperties
  <2>3. k \in 1 .. Len(h) /\ k \in Nat
    BY <2>2
  <2>4. h[k] \in Node
    BY <2>3, ElementOfSeq
  <2> QED
    BY <2>3, <2>4 DEF Node
<1>2. SUFFICES ASSUME S # {} PROVE FALSE
  BY <1>1
<1>3. S \in SUBSET Nat
  BY <1>1
<1>4. PICK x \in S : \A y \in S : x <= y
  BY <1>2, <1>3, LeastExists
<1>5. x \in 2 .. m
  BY <1>1
<1>6. x \div 2 \in 1 .. m /\ x \div 2 < x
  BY <1>5, Half
<1>7. ~(h[x \div 2].expires < h[1].expires)
  BY <1>1, <1>4, <1>6
<1>8. h[x \div 2].expires <= h[x].expires
  BY <1>5
<1>9. h[x].expires < h[1].expires
  BY <1>4
<1>10. /\ h[1].expires \in Nat /\ h[x].expires \in Nat
       /\ h[x \div 2].expires \in Nat
  <2>1. 1 \in 1 .. m /\ x \in 1 .. m
    BY <1>5
  <2> QED
    BY <1>1, <1>6, <2>1
<1> QED
  BY <1>7, <1>8, <1>9, <1>10

\* What SwapNode_ does: the nodes and their places are exchanged.
LEMMA SwapFacts ==
    ASSUME TypeOK, RefExact, NEW a \in 1 .. Len(heap), NEW b \in 1 .. Len(heap),
           SwapNode(a, b)
    PROVE  /\ heap' \in Seq(Node) /\ Len(heap') = Len(heap)
           /\ heap'[a] = heap[b] /\ heap'[b] = heap[a]
           /\ \A k \in 1 .. Len(heap) \ {a, b} : heap'[k] = heap[k]
           /\ DOMAIN ref' = DOMAIN ref
           /\ \A id \in DOMAIN ref :
                 /\ ref'[id] \in 1 .. Len(heap)
                 /\ ref'[id] = IF ref[id] = a THEN b ELSE IF ref[id] = b THEN a ELSE ref[id]
                 /\ heap'[ref'[id]] = heap[ref[id]]
           /\ RefExact'
<1> DEFINE U == Len(heap)
<1>1. U \in Nat /\ DOMAIN heap = 1 .. U /\ \A k \in 1 .. U : heap[k] \in Node
  BY LenProperties, ElementOfSeq DEF TypeOK
<1>2. /\ heap' = [k \in 1 .. U |-> IF k = b THEN heap[a] ELSE IF k = a THEN heap[b]
                                   ELSE heap[k]]
  BY <1>1 DEF SwapNode
<1>3. heap' \in Seq(Node) /\ Len(heap') = U
  BY <1>1, <1>2
<1>4. /\ heap'[a] = heap[b] /\ heap'[b] = heap[a]
      /\ \A k \in 1 .. U \ {a, b} : heap'[k] = heap[k]
  BY <1>2
<1>5. /\ \A id \in DOMAIN ref : ref[id] \in 1 .. U /\ heap[ref[id]].id = id
      /\ \A k \in 1 .. U : heap[k].id \in DOMAIN ref /\ ref[heap[k].id] = k
  BY DEF TypeOK, RefExact
<1>6. DOMAIN ref' = DOMAIN ref
  BY <1>5 DEF SwapNode
<1>7. ASSUME NEW id \in DOMAIN ref
      PROVE  ref'[id] = IF ref[id] = a THEN b ELSE IF ref[id] = b THEN a ELSE ref[id]
  <2>1. ref'[id] = IF id = heap[a].id THEN b ELSE IF id = heap[b].id THEN a ELSE ref[id]
    BY <1>5 DEF SwapNode
  <2>2. (id = heap[a].id <=> ref[id] = a) /\ (id = heap[b].id <=> ref[id] = b)
    BY <1>5
  <2> QED
    BY <2>1, <2>2
<1>8. ASSUME NEW id \in DOMAIN ref
      PROVE  ref'[id] \in 1 .. U /\ heap'[ref'[id]] = heap[ref[id]]
  BY <1>4, <1>5, <1>7
<1>9. ASSUME NEW k \in 1 .. U
      PROVE  heap'[k].id \in DOMAIN ref' /\ ref'[heap'[k].id] = k
  <2>1. CASE k = a
    BY <1>4, <1>5, <1>6, <1>7, <2>1
  <2>2. CASE k = b
    BY <1>4, <1>5, <1>6, <1>7, <2>2
  <2>3. CASE k # a /\ k # b
    <3>1. heap'[k] = heap[k]
      BY <1>4, <2>3
    <3> QED
      BY <1>5, <1>6, <1>7, <2>3, <3>1
  <2> QED
    BY <2>1, <2>2, <2>3
<1>10. RefExact'
  BY <1>3, <1>5, <1>6, <1>8, <1>9 DEF RefExact
<1> QED
  BY <1>3, <1>4, <1>6, <1>7, <1>8, <1>10


\* The nodes, and the numbers the loops run over.
LEMMA HeapFacts ==
    ASSUME HeapInv
    PROVE  /\ Len(heap) \in Nat /\ DOMAIN heap = 1 .. Len(heap)
           /\ Live \in Int /\ Live <= Len(heap) /\ n \in Nat /\ n <= Len(heap) /\ i \in Nat
           /\ \A k \in 1 .. Len(heap) : heap[k] \in Node /\ heap[k].expires \in Nat
           /\ pc \in Loops => n = Live /\ i \in 1 .. n /\ i \in 1 .. Len(heap)
<1>1. Len(heap) \in Nat /\ DOMAIN heap = 1 .. Len(heap)
  BY LenProperties DEF HeapInv, TypeOK
<1>2. \A k \in 1 .. Len(heap) : heap[k] \in Node
  BY ElementOfSeq DEF HeapInv, TypeOK
<1>3. \A k \in 1 .. Len(heap) : heap[k].expires \in Nat
  BY <1>2 DEF Node
<1>4. Live \in Int /\ Live <= Len(heap)
  BY <1>1 DEF Live
<1>5. n \in Nat /\ n <= Len(heap) /\ i \in Nat
  BY <1>1 DEF HeapInv, TypeOK
<1>6. pc \in Loops => n = Live /\ i \in 1 .. n
  BY DEF HeapInv, TypeOK, LoopInv, Loops
<1>7. i \in 1 .. n => i \in 1 .. Len(heap)
  BY <1>1, <1>5
<1> QED
  BY <1>1, <1>2, <1>3, <1>4, <1>5, <1>6, <1>7

\* The earlier child of the node that goes down.
LEMMA SmallerFacts ==
    ASSUME HeapInv, pc \in Loops, 2 * i <= n
    PROVE  LET j == Smaller(i)
           IN /\ j \in 2 .. n /\ j \in 1 .. Len(heap) /\ j \div 2 = i /\ j > i
              /\ \A k \in 2 .. n : k \div 2 = i => heap[j].expires <= heap[k].expires
<1> DEFINE j == Smaller(i)
<1>1. i \in Nat /\ i >= 1 /\ n \in Nat /\ n <= Len(heap) /\ Len(heap) \in Nat
  BY HeapFacts
<1>2. j \in {2 * i, 2 * i + 1} /\ j <= n
  BY <1>1 DEF Smaller
<1>3. j \in 2 .. n /\ j \in 1 .. Len(heap) /\ j > i /\ j \in Nat
  BY <1>1, <1>2
<1>4. j \div 2 = i
  BY <1>1, <1>2, <1>3, Half
<1>5. ASSUME NEW k \in 2 .. n, k \div 2 = i
      PROVE  heap[j].expires <= heap[k].expires
  <2>1. k = 2 * i \/ k = 2 * i + 1
    BY <1>1, <1>5, Half
  <2>2. /\ 2 * i \in 1 .. Len(heap)
        /\ 2 * i + 1 <= n => 2 * i + 1 \in 1 .. Len(heap)
    BY <1>1
  <2>3. /\ heap[2 * i].expires \in Nat
        /\ 2 * i + 1 <= n => heap[2 * i + 1].expires \in Nat
    BY <2>2, HeapFacts
  <2> QED
    BY <1>1, <2>1, <2>3 DEF Smaller, Less
<1> QED
  BY <1>3, <1>4, <1>5

\* A node that goes down is no longer earlier than the ones above it.
LEMMA KeepSiftDown == HeapInv /\ SiftDown => HeapInv'
<1> SUFFICES ASSUME HeapInv, SiftDown PROVE HeapInv'
  OBVIOUS
<1> DEFINE j == Smaller(i)
           E(k) == heap[k].expires
           F(k) == heap'[k].expires
<1>1. /\ pc \in {"down", "downOnly"} /\ 2 * i <= n /\ ~Less(i, j) /\ SwapNode(i, j)
      /\ i' = j /\ UNCHANGED <<now, pc, n, index, ticking, doomed, aborted>>
  BY DEF SiftDown
<1>2. pc \in Loops
  BY <1>1 DEF Loops
<1>3. /\ j \in 2 .. n /\ j \in 1 .. Len(heap) /\ j \div 2 = i /\ j > i
      /\ \A k \in 2 .. n : k \div 2 = i => E(j) <= E(k)
  BY <1>1, <1>2, SmallerFacts
<1>4. /\ i \in 1 .. n /\ i \in 1 .. Len(heap) /\ n \in Nat /\ n <= Len(heap)
      /\ Len(heap) \in Nat /\ n = Live
  BY <1>2, HeapFacts
<1> HIDE DEF j
<1>5. /\ heap' \in Seq(Node) /\ Len(heap') = Len(heap)
      /\ heap'[i] = heap[j] /\ heap'[j] = heap[i]
      /\ \A k \in 1 .. Len(heap) \ {i, j} : heap'[k] = heap[k]
      /\ DOMAIN ref' = DOMAIN ref
      /\ \A id \in DOMAIN ref : ref'[id] \in 1 .. Len(heap)
      /\ RefExact'
  BY <1>1, <1>3, <1>4, SwapFacts DEF HeapInv
<1>6. TypeOK'
  BY <1>1, <1>3, <1>4, <1>5 DEF HeapInv, TypeOK
<1>7. LoopInv'
  BY <1>1, <1>4, <1>5 DEF HeapInv, LoopInv, Live, Loops
<1>8. \A k \in 1 .. n : E(k) \in Nat /\ k \in Nat
  BY <1>4, HeapFacts
<1>9. /\ F(i) = E(j) /\ F(j) = E(i) /\ E(j) <= E(i)
      /\ \A k \in 1 .. n : k # i /\ k # j => F(k) = E(k)
  <2>1. ~(E(i) < E(j))
    BY <1>1 DEF Less
  <2>2. \A k \in 1 .. n : k # i /\ k # j => k \in 1 .. Len(heap) \ {i, j}
    BY <1>4
  <2>3. j \in 1 .. n /\ E(i) \in Nat /\ E(j) \in Nat
    BY <1>3, <1>4, <1>8
  <2>4. E(j) <= E(i)
    BY <2>1, <2>3
  <2>5. \A k \in 1 .. n : k # i /\ k # j => F(k) = E(k)
    BY <1>5, <2>2
  <2> QED
    BY <1>5, <2>4, <2>5
<1>10. \A k \in 2 .. n : k \div 2 \in 1 .. n /\ k \div 2 < k
  <2>1. TAKE k \in 2 .. n
  <2>2. k \in Nat /\ k >= 2 /\ k <= n
    BY <1>4
  <2>3. k \div 2 \in Nat /\ 1 <= k \div 2 /\ k \div 2 < k
    BY <2>2, Half
  <2> QED
    BY <1>4, <2>2, <2>3
<1>11. \A k \in 2 .. n :
          /\ k \div 2 # i /\ k # i => E(k \div 2) <= E(k)
          /\ k \div 2 = i /\ i > 1 => E(i \div 2) <= E(k)
  BY <1>1, <1>2 DEF HeapInv, SiftInv, Later, Past
<1> HIDE DEF E, F
<1>12. ASSUME NEW k \in 2 .. n, k \div 2 # j
       PROVE  F(k \div 2) <= F(k)
  <2>1. CASE k = j
    BY <1>3, <1>9, <2>1
  <2>2. CASE k = i
    <3>1. E(i \div 2) <= E(j)
      BY <1>3, <1>11, <2>2
    <3>2. i \div 2 \in 1 .. n /\ i \div 2 # i /\ i \div 2 # j
      BY <1>3, <1>8, <1>10, <1>12, <2>2
    <3> QED
      BY <1>9, <2>2, <3>1, <3>2
  <2>3. CASE k # i /\ k # j /\ k \div 2 = i
    BY <1>3, <1>8, <1>9, <2>3
  <2>4. CASE k # i /\ k # j /\ k \div 2 # i
    <3>1. F(k) = E(k) /\ F(k \div 2) = E(k \div 2)
      BY <1>9, <1>10, <1>12, <2>4
    <3> QED
      BY <1>11, <2>4, <3>1
  <2> QED
    BY <2>1, <2>2, <2>3, <2>4
<1>13. ASSUME NEW k \in 2 .. n, k \div 2 = j
       PROVE  F((k \div 2) \div 2) <= F(k)
  <2>1. k # i /\ k # j /\ k \div 2 # i
    BY <1>3, <1>8, <1>10, <1>13
  <2>2. E(j) <= E(k)
    BY <1>11, <1>13, <2>1
  <2>3. (k \div 2) \div 2 = i
    BY <1>3, <1>13
  <2> QED
    BY <1>9, <2>1, <2>2, <2>3
<1>14. SiftInv'
  BY <1>1, <1>12, <1>13 DEF SiftInv, Later, Past, F, Loops
<1> QED
  BY <1>5, <1>6, <1>7, <1>14 DEF HeapInv

\* A loop returns when the nodes are in order.
LEMMA KeepReturn ==
    ASSUME HeapInv, pc \in Loops, Return, \A k \in 2 .. n : Later(k),
           UNCHANGED <<heap, ref, now, ticking, doomed>>, aborted' \in BOOLEAN
    PROVE  HeapInv'
<1>1. n \in Nat /\ n <= Len(heap) /\ Len(heap) \in Nat /\ n = Live
  BY HeapFacts
<1>2. /\ pc' = IF doomed THEN "erase" ELSE "idle"
      /\ i' = 1 /\ n' = 0 /\ index' = 1
  BY DEF Return
<1>3. TypeOK'
  BY <1>1, <1>2 DEF HeapInv, TypeOK
<1>4. LoopInv'
  BY <1>2 DEF HeapInv, LoopInv, Loops
<1>5. SiftInv'
  BY <1>1, <1>2 DEF SiftInv, Later, Live, Loops
<1> QED
  BY <1>3, <1>4, <1>5 DEF HeapInv, RefExact

\* The loop on the way down ends where the node is earlier than its children.
LEMMA KeepSiftDownEnds == HeapInv /\ SiftDownEnds => HeapInv'
<1> SUFFICES ASSUME HeapInv, SiftDownEnds PROVE HeapInv'
  OBVIOUS
<1>1. /\ pc \in {"down", "downOnly"} /\ (2 * i <= n => Less(i, Smaller(i)))
      /\ UNCHANGED <<heap, ref, now, ticking, doomed, aborted>>
      /\ \/ (pc = "downOnly" \/ i > index) /\ Return
         \/ ~(pc = "downOnly" \/ i > index) /\ pc' = "up" /\ UNCHANGED <<i, n, index>>
  BY DEF SiftDownEnds, locals
<1>2. pc \in Loops
  BY <1>1 DEF Loops
<1>3. /\ i \in 1 .. n /\ i \in 1 .. Len(heap) /\ n \in Nat /\ n <= Len(heap)
      /\ Len(heap) \in Nat /\ n = Live
  BY <1>2, HeapFacts
<1>4. ASSUME NEW k \in 2 .. n, k \div 2 = i
      PROVE  Later(k)
  <2>1. 2 * i <= n
    <3>1. k \in Nat /\ k <= n /\ (k = 2 * i \/ k = 2 * i + 1)
      BY <1>3, <1>4, Half
    <3> QED
      BY <1>3, <3>1
  <2> DEFINE j == Smaller(i)
  <2>2. j \in 1 .. Len(heap) /\ heap[j].expires <= heap[k].expires
    BY <1>2, <1>4, <2>1, SmallerFacts
  <2>3. heap[i].expires < heap[j].expires
    BY <1>1, <2>1 DEF Less
  <2>4. k \in 1 .. Len(heap)
    BY <1>3
  <2> HIDE DEF j
  <2>5. heap[i].expires \in Nat /\ heap[j].expires \in Nat /\ heap[k].expires \in Nat
    BY <1>3, <2>2, <2>4, HeapFacts
  <2> QED
    BY <1>4, <2>2, <2>3, <2>5 DEF Later
<1>5. RefExact'
  BY <1>1 DEF HeapInv, RefExact
<1>6. CASE (pc = "downOnly" \/ i > index) /\ Return
  <2>1. \A k \in 2 .. n : Later(k)
    BY <1>1, <1>4, <1>6 DEF HeapInv, SiftInv
  <2> QED
    BY <1>1, <1>2, <1>6, <2>1, KeepReturn DEF HeapInv, TypeOK
<1>7. CASE ~(pc = "downOnly" \/ i > index) /\ pc' = "up" /\ UNCHANGED <<i, n, index>>
  <2>1. \A k \in 2 .. n : k # i => Later(k)
    BY <1>1, <1>4, <1>7 DEF HeapInv, SiftInv
  <2>2. TypeOK'
    BY <1>1, <1>3, <1>7 DEF HeapInv, TypeOK
  <2>3. LoopInv'
    BY <1>1, <1>2, <1>3, <1>7 DEF HeapInv, LoopInv, Loops, Live
  <2>4. SiftInv'
    BY <1>1, <1>2, <1>7, <2>1 DEF HeapInv, SiftInv, Later, Past, Live, Loops
  <2> QED
    BY <1>5, <2>2, <2>3, <2>4 DEF HeapInv
<1> QED
  BY <1>1, <1>6, <1>7


\* A node that goes up is not later than the ones below it.
LEMMA KeepSiftUp == HeapInv /\ SiftUp => HeapInv'
<1> SUFFICES ASSUME HeapInv, SiftUp PROVE HeapInv'
  OBVIOUS
<1> DEFINE p == i \div 2
           E(k) == heap[k].expires
           F(k) == heap'[k].expires
<1>1. /\ pc = "up" /\ i > 1 /\ ~Less(p, i) /\ SwapNode(i, p) /\ i' = p
      /\ UNCHANGED <<now, pc, n, index, ticking, doomed, aborted>>
  BY DEF SiftUp
<1>2. pc \in Loops
  BY <1>1 DEF Loops
<1>3. /\ i \in 1 .. n /\ i \in 1 .. Len(heap) /\ n \in Nat /\ n <= Len(heap)
      /\ Len(heap) \in Nat /\ n = Live
  BY <1>2, HeapFacts
<1>4. p \in Nat /\ 1 <= p /\ p < i /\ p \in 1 .. n /\ p \in 1 .. Len(heap)
  <2>1. i \in Nat /\ i >= 2
    BY <1>1, <1>3
  <2>2. p \in Nat /\ 1 <= p /\ p < i
    BY <2>1, Half
  <2> QED
    BY <1>3, <2>2
<1>5. /\ heap' \in Seq(Node) /\ Len(heap') = Len(heap)
      /\ heap'[i] = heap[p] /\ heap'[p] = heap[i]
      /\ \A k \in 1 .. Len(heap) \ {i, p} : heap'[k] = heap[k]
      /\ DOMAIN ref' = DOMAIN ref
      /\ \A id \in DOMAIN ref : ref'[id] \in 1 .. Len(heap)
      /\ RefExact'
  BY <1>1, <1>3, <1>4, SwapFacts DEF HeapInv
<1>6. TypeOK'
  BY <1>1, <1>3, <1>4, <1>5 DEF HeapInv, TypeOK
<1>7. LoopInv'
  BY <1>1, <1>3, <1>5 DEF HeapInv, LoopInv, Live, Loops
<1>8. \A k \in 1 .. n : E(k) \in Nat /\ k \in Nat
  BY <1>3, HeapFacts
<1>9. /\ F(i) = E(p) /\ F(p) = E(i) /\ E(i) <= E(p)
      /\ \A k \in 1 .. n : k # i /\ k # p => F(k) = E(k)
  <2>1. ~(E(p) < E(i))
    BY <1>1 DEF Less
  <2>2. \A k \in 1 .. n : k # i /\ k # p => k \in 1 .. Len(heap) \ {i, p}
    BY <1>3
  <2> QED
    BY <1>3, <1>4, <1>5, <1>8, <2>1, <2>2
<1>10. \A k \in 2 .. n : k \div 2 \in 1 .. n /\ k \div 2 < k
  <2>1. TAKE k \in 2 .. n
  <2>2. k \in Nat /\ k >= 2 /\ k <= n
    BY <1>3
  <2>3. k \div 2 \in Nat /\ 1 <= k \div 2 /\ k \div 2 < k
    BY <2>2, Half
  <2> QED
    BY <1>3, <2>2, <2>3
<1>11. \A k \in 2 .. n :
          /\ k # i => E(k \div 2) <= E(k)
          /\ k \div 2 = i => E(p) <= E(k)
  BY <1>1, <1>2 DEF HeapInv, SiftInv, Later, Past
<1>12. i \div 2 = p
  OBVIOUS
<1> HIDE DEF E, F, p
<1>13. ASSUME NEW k \in 2 .. n, k # p
       PROVE  F(k \div 2) <= F(k)
  <2>1. CASE k = i
    BY <1>9, <1>12, <2>1
  <2>2. CASE k # i /\ k \div 2 = i
    BY <1>8, <1>9, <1>11, <1>13, <2>2
  <2>3. CASE k # i /\ k \div 2 = p
    <3>1. E(p) <= E(k) /\ F(k) = E(k)
      BY <1>9, <1>11, <1>13, <2>3
    <3>2. E(i) \in Nat /\ E(p) \in Nat /\ E(k) \in Nat
      BY <1>3, <1>4, <1>8
    <3> QED
      BY <1>9, <2>3, <3>1, <3>2
  <2>4. CASE k # i /\ k \div 2 # i /\ k \div 2 # p
    <3>1. F(k) = E(k) /\ F(k \div 2) = E(k \div 2)
      BY <1>9, <1>10, <1>13, <2>4
    <3> QED
      BY <1>11, <2>4, <3>1
  <2> QED
    BY <2>1, <2>2, <2>3, <2>4
<1>14. ASSUME NEW k \in 2 .. n, k \div 2 = p, p > 1
       PROVE  F((k \div 2) \div 2) <= F(k)
  <2> DEFINE q == p \div 2
  <2>1. p \in 2 .. n
    BY <1>3, <1>4, <1>14
  <2>2. q \in 1 .. n /\ q < p
    BY <1>10, <2>1
  <2>3. E(q) <= E(p) /\ F(q) = E(q)
    BY <1>4, <1>8, <1>9, <1>11, <2>1, <2>2
  <2>4. E(p) <= F(k)
    <3>1. CASE k = i
      BY <1>4, <1>8, <1>9, <3>1
    <3>2. CASE k # i
      BY <1>9, <1>10, <1>11, <1>14, <3>2
    <3> QED
      BY <3>1, <3>2
  <2>5. E(q) \in Nat /\ E(p) \in Nat /\ F(k) \in Nat
    BY <1>3, <1>4, <1>8, <1>9, <2>2
  <2> HIDE DEF q
  <2>6. F(q) <= F(k)
    BY <2>3, <2>4, <2>5
  <2> QED
    BY <1>14, <2>6 DEF q
<1>15. SiftInv'
  BY <1>1, <1>13, <1>14 DEF SiftInv, Later, Past, F, Loops
<1> QED
  BY <1>5, <1>6, <1>7, <1>15 DEF HeapInv

LEMMA KeepSiftUpEnds == HeapInv /\ (SiftUpEnds \/ SiftUpRoot) => HeapInv'
<1> SUFFICES ASSUME HeapInv, SiftUpEnds \/ SiftUpRoot PROVE HeapInv'
  OBVIOUS
<1>1. /\ pc = "up" /\ pc \in Loops
      /\ UNCHANGED <<heap, ref, now, ticking, doomed>>
  BY DEF SiftUpEnds, SiftUpRoot, Loops
<1>2. i \in 1 .. n /\ i \in 1 .. Len(heap) /\ n \in Nat /\ n <= Len(heap) /\ Len(heap) \in Nat
  BY <1>1, HeapFacts
<1>3. \A k \in 2 .. n : k # i => Later(k)
  BY <1>1 DEF HeapInv, SiftInv
<1>4. CASE SiftUpEnds
  <2>1. i > 1 /\ Less(i \div 2, i) /\ Return /\ aborted' = aborted
    BY <1>4 DEF SiftUpEnds
  <2>2. i \in Nat /\ i >= 2
    BY <1>2, <2>1
  <2>3. i \div 2 \in Nat /\ 1 <= i \div 2 /\ i \div 2 < i
    BY <2>2, Half
  <2>4. i \div 2 \in 1 .. Len(heap)
    BY <1>2, <2>2, <2>3
  <2>5. heap[i \div 2].expires \in Nat /\ heap[i].expires \in Nat
    BY <1>2, <2>4, HeapFacts
  <2>6. Later(i)
    BY <2>1, <2>5 DEF Less, Later
  <2> QED
    BY <1>1, <1>3, <2>1, <2>6, KeepReturn DEF HeapInv, TypeOK
<1>5. CASE SiftUpRoot
  <2>1. i = 1 /\ \/ aborted' = TRUE /\ UNCHANGED <<pc, i, n, index>>
                 \/ Return /\ UNCHANGED aborted
    BY <1>5 DEF SiftUpRoot, locals
  <2>2. \A k \in 2 .. n : Later(k)
    BY <1>2, <1>3, <2>1
  <2>3. CASE Return /\ UNCHANGED aborted
    BY <1>1, <2>2, <2>3, KeepReturn DEF HeapInv, TypeOK
  <2>4. CASE aborted' = TRUE /\ UNCHANGED <<pc, i, n, index>>
    BY <1>1, <2>4 DEF HeapInv, TypeOK, RefExact, LoopInv, SiftInv, Later, Past, Live, Loops
  <2> QED
    BY <2>1, <2>3, <2>4
<1> QED
  BY <1>4, <1>5

\* What erase and pop_back leave.
LEMMA EraseFacts ==
    ASSUME HeapInv, Erase
    PROVE  /\ heap' \in Seq(Node) /\ Len(heap') = Len(heap) - 1
           /\ \A k \in 1 .. Len(heap) - 1 : heap'[k] = heap[k]
<1> DEFINE U == Len(heap)
           t == SubSeq(heap, 1, U - 1)
<1>1. pc = "erase" /\ heap' = t
  BY DEF Erase
<1>2. heap \in Seq(Node) /\ U \in Nat \ {0}
  BY <1>1, HeapFacts, EmptySeq DEF HeapInv, TypeOK, LoopInv
<1>3. 1 \in Int /\ U - 1 \in Int
  BY <1>2
<1>4. \A k \in 1 .. U - 1 : heap[k] \in Node
  BY <1>2, HeapFacts
<1>5. /\ t \in Seq(Node)
      /\ Len(t) = IF 1 <= U - 1 THEN U - 1 - 1 + 1 ELSE 0
      /\ \A k \in 1 .. U - 1 - 1 + 1 : t[k] = heap[1 + k - 1]
  BY <1>3, <1>4, SubSeqProperties
<1> HIDE DEF t
<1>6. Len(t) = U - 1
  <2> HIDE DEF U
  <2>1. U = 1 \/ 1 <= U - 1
    BY <1>2
  <2> QED
    BY <1>2, <1>5, <2>1
<1>7. \A k \in 1 .. U - 1 : k \in 1 .. U - 1 - 1 + 1 /\ 1 + k - 1 = k
  BY <1>2
<1> QED
  BY <1>1, <1>5, <1>6, <1>7

\* The last node goes, and with it its entry in ref_.
LEMMA KeepErase == HeapInv /\ Erase => HeapInv'
<1> SUFFICES ASSUME HeapInv, Erase PROVE HeapInv'
  OBVIOUS
<1> DEFINE U == Len(heap)
           x == heap[U].id
<1>1. /\ pc = "erase" /\ pc' = "idle" /\ doomed' = FALSE
      /\ ref' = [d \in DOMAIN ref \ {x} |-> ref[d]]
      /\ heap' = SubSeq(heap, 1, U - 1)
      /\ UNCHANGED <<now, i, n, index, ticking, aborted>>
  BY DEF Erase, locals
<1>2. U \in Nat /\ doomed /\ heap # << >> /\ n = 0 /\ Live = U - 1
  BY <1>1, HeapFacts DEF HeapInv, LoopInv, Loops, Live
<1>3. heap \in Seq(Node) /\ U \in Nat \ {0}
  BY <1>2, EmptySeq DEF HeapInv, TypeOK
<1>4. /\ heap' \in Seq(Node) /\ Len(heap') = U - 1
      /\ \A k \in 1 .. U - 1 : heap'[k] = heap[k]
  BY EraseFacts
<1>5. /\ \A id \in DOMAIN ref : ref[id] \in 1 .. U /\ heap[ref[id]].id = id
      /\ \A k \in 1 .. U : heap[k].id \in DOMAIN ref /\ ref[heap[k].id] = k
  BY DEF HeapInv, TypeOK, RefExact
<1>6. \A id \in DOMAIN ref' :
         /\ id \in DOMAIN ref /\ ref'[id] = ref[id]
         /\ ref'[id] \in 1 .. U - 1 /\ heap'[ref'[id]].id = id
  <2>1. TAKE id \in DOMAIN ref'
  <2>2. id \in DOMAIN ref /\ ref'[id] = ref[id] /\ id # x
    BY <1>1
  <2>3. ref[id] # U
    BY <1>3, <1>5, <2>2
  <2>4. ref[id] \in 1 .. U - 1
    BY <1>3, <1>5, <2>2, <2>3
  <2> QED
    BY <1>4, <1>5, <2>2, <2>4
<1>7. \A k \in 1 .. U - 1 : heap'[k].id \in DOMAIN ref' /\ ref'[heap'[k].id] = k
  <2>1. TAKE k \in 1 .. U - 1
  <2>2. k \in 1 .. U /\ k # U /\ heap'[k] = heap[k]
    BY <1>3, <1>4
  <2>3. heap[k].id # x
    BY <1>3, <1>5, <2>2, SMTT(30)
  <2> QED
    BY <1>1, <1>5, <2>2, <2>3
<1>8. RefExact'
  BY <1>4, <1>6, <1>7 DEF RefExact
<1>9. TypeOK'
  <2>1. n' \in 0 .. Len(heap')
    BY <1>1, <1>2, <1>3, <1>4
  <2>2. DOMAIN ref' \subseteq Ids /\ \A id \in DOMAIN ref' : ref'[id] \in 1 .. Len(heap')
    BY <1>4, <1>6 DEF HeapInv, TypeOK
  <2> QED
    BY <1>1, <1>4, <2>1, <2>2 DEF HeapInv, TypeOK
<1>10. LoopInv'
  BY <1>1, <1>2 DEF LoopInv, Loops
<1>11. SiftInv'
  <2>1. ASSUME NEW k \in 2 .. U - 1
        PROVE  heap'[k \div 2].expires <= heap'[k].expires
    <3>1. k \in Nat /\ k >= 2 /\ k <= U - 1
      BY <1>3
    <3>2. k \div 2 \in Nat /\ 1 <= k \div 2 /\ k \div 2 < k
      BY <3>1, Half
    <3>3. heap'[k] = heap[k] /\ heap'[k \div 2] = heap[k \div 2]
      BY <1>3, <1>4, <3>1, <3>2
    <3> QED
      BY <1>1, <1>2, <3>3 DEF HeapInv, SiftInv, Later
  <2> QED
    BY <1>1, <1>4, <2>1 DEF SiftInv, Later, Live, Loops
<1> QED
  BY <1>8, <1>9, <1>10, <1>11 DEF HeapInv


\* Between two operations, the nodes are in order, and so are the children of a node
\* with its parent.
LEMMA Ordered ==
    ASSUME HeapInv, pc = "idle"
    PROVE  /\ ~doomed /\ n = 0
           /\ \A k \in 2 .. Len(heap) : Later(k)
           /\ \A k \in 2 .. Len(heap) : k \div 2 > 1 => Past(k)
<1>1. ~doomed /\ n = 0
  BY DEF HeapInv, LoopInv, Loops
<1>2. Len(heap) \in Nat
  BY HeapFacts
<1>3. \A k \in 2 .. Len(heap) : Later(k)
  BY <1>1 DEF HeapInv, SiftInv, Live
<1>4. ASSUME NEW k \in 2 .. Len(heap), k \div 2 > 1
      PROVE  Past(k)
  <2> DEFINE p == k \div 2
             q == p \div 2
  <2>1. k \in Nat /\ k >= 2
    BY <1>2
  <2>2. p \in Nat /\ p < k /\ p >= 2
    BY <1>4, <2>1, Half
  <2> HIDE DEF p
  <2>3. q \in Nat /\ 1 <= q /\ q < p
    BY <2>2, Half
  <2>4. p \in 2 .. Len(heap) /\ {k, p, q} \subseteq 1 .. Len(heap)
    BY <1>2, <2>1, <2>2, <2>3
  <2>5. heap[q].expires <= heap[p].expires
    BY <1>3, <2>4 DEF Later
  <2>6. heap[p].expires <= heap[k].expires
    BY <1>3, <2>4 DEF Later, p
  <2>7. /\ heap[k].expires \in Nat /\ heap[p].expires \in Nat
        /\ heap[q].expires \in Nat
    BY <2>4, HeapFacts
  <2> HIDE DEF q
  <2>8. heap[q].expires <= heap[k].expires
    BY <2>5, <2>6, <2>7
  <2> QED
    BY <2>8 DEF Past, p, q
<1> QED
  BY <1>1, <1>3, <1>4

\* A step that leaves the heap, the map and the loops alone.
LEMMA KeepQuiet ==
    ASSUME HeapInv, UNCHANGED <<heap, ref, pc, i, n, index, doomed>>,
           now' \in Nat, ticking' \in BOOLEAN, aborted' \in BOOLEAN
    PROVE  HeapInv'
BY DEF HeapInv, TypeOK, RefExact, LoopInv, SiftInv, Later, Past, Live, Loops

\* A new node is put at the end.
LEMMA KeepAddNew ==
    ASSUME HeapInv, HeapTimerAssumption, NEW id \in Ids, NEW t \in Timeouts, AddNew(id, t)
    PROVE  HeapInv'
<1> DEFINE U == Len(heap)
           new == [id |-> id, expires |-> now + t]
<1>1. /\ pc = "idle" /\ id \notin DOMAIN ref
      /\ heap' = Append(heap, new)
      /\ ref' = [d \in DOMAIN ref \cup {id} |-> IF d = id THEN U + 1 ELSE ref[d]]
      /\ pc' = "up" /\ i' = U + 1 /\ n' = U + 1 /\ index' = U + 1
      /\ UNCHANGED <<now, ticking, doomed, aborted>>
  BY DEF AddNew, Sift
<1>2. new \in Node
  <2>1. t \in Nat /\ now \in Nat
    BY DEF HeapTimerAssumption, HeapInv, TypeOK
  <2> QED
    BY <2>1 DEF Node
<1>3. heap \in Seq(Node) /\ U \in Nat
  BY HeapFacts DEF HeapInv, TypeOK
<1> HIDE DEF new
<1>4. /\ heap' \in Seq(Node) /\ Len(heap') = U + 1 /\ heap'[U + 1] = new
      /\ \A k \in 1 .. U : heap'[k] = heap[k]
  BY <1>1, <1>2, <1>3, AppendProperties
<1>5. /\ \A d \in DOMAIN ref : ref[d] \in 1 .. U /\ heap[ref[d]].id = d
      /\ \A k \in 1 .. U : heap[k].id \in DOMAIN ref /\ ref[heap[k].id] = k
      /\ DOMAIN ref \subseteq Ids
  BY DEF HeapInv, TypeOK, RefExact
<1>6. /\ DOMAIN ref' = DOMAIN ref \cup {id} /\ ref'[id] = U + 1 /\ new.id = id
      /\ \A d \in DOMAIN ref : ref'[d] = ref[d]
  BY <1>1 DEF new
<1>7. \A d \in DOMAIN ref' : ref'[d] \in 1 .. U + 1 /\ heap'[ref'[d]].id = d
  <2>1. TAKE d \in DOMAIN ref'
  <2>2. CASE d = id
    BY <1>3, <1>4, <1>6, <2>2
  <2>3. CASE d \in DOMAIN ref
    <3>1. ref'[d] = ref[d] /\ ref[d] \in 1 .. U /\ heap[ref[d]].id = d
      BY <1>5, <1>6, <2>3
    <3>2. ref[d] \in 1 .. U + 1 /\ heap'[ref[d]] = heap[ref[d]]
      BY <1>3, <1>4, <3>1
    <3> QED
      BY <3>1, <3>2
  <2> QED
    BY <1>6, <2>2, <2>3
<1>8. \A k \in 1 .. U + 1 : heap'[k].id \in DOMAIN ref' /\ ref'[heap'[k].id] = k
  <2>1. TAKE k \in 1 .. U + 1
  <2>2. CASE k = U + 1
    BY <1>4, <1>6, <2>2
  <2>3. CASE k # U + 1
    <3>1. k \in 1 .. U
      BY <1>3, <2>3
    <3> QED
      BY <1>4, <1>5, <1>6, <3>1
  <2> QED
    BY <2>2, <2>3
<1>9. RefExact'
  BY <1>4, <1>7, <1>8 DEF RefExact
<1>10. TypeOK'
  BY <1>1, <1>3, <1>4, <1>5, <1>6, <1>7 DEF HeapInv, TypeOK
<1>11. ~doomed /\ \A k \in 2 .. U : Later(k)
  BY <1>1, Ordered
<1>12. LoopInv'
  BY <1>1, <1>4, <1>11 DEF LoopInv, Live, Loops
<1>13. SiftInv'
  <2>1. ASSUME NEW k \in 2 .. U + 1, k # U + 1
        PROVE  heap'[k \div 2].expires <= heap'[k].expires
    <3>1. k \in Nat /\ k >= 2 /\ k <= U
      BY <1>3, <2>1
    <3>2. k \div 2 \in Nat /\ 1 <= k \div 2 /\ k \div 2 < k
      BY <3>1, Half
    <3>3. k \in 1 .. U /\ k \div 2 \in 1 .. U /\ k \in 2 .. U
      BY <1>3, <3>1, <3>2
    <3> QED
      BY <1>4, <1>11, <3>3 DEF Later
  <2>2. \A k \in 2 .. U + 1 : k \div 2 # U + 1
    <3>1. TAKE k \in 2 .. U + 1
    <3>2. k \in Nat /\ k >= 2 /\ k <= U + 1
      BY <1>3
    <3> QED
      BY <1>3, <3>2, Half
  <2> QED
    BY <1>1, <1>4, <2>1, <2>2 DEF SiftInv, Later, Past, Loops
<1> QED
  BY <1>9, <1>10, <1>12, <1>13 DEF HeapInv

\* The time of a node is changed: only the order around it can be wrong, and with a
\* later time only that with its children.
LEMMA KeepSet ==
    ASSUME HeapInv, pc = "idle", NEW a \in 1 .. Len(heap), NEW e \in Nat,
           heap' = [heap EXCEPT ![a].expires = e],
           pc' \in {"down", "downOnly"}, i' = a, n' = Len(heap), index' = a,
           pc' = "downOnly" => e >= heap[a].expires,
           UNCHANGED <<ref, now, ticking, doomed, aborted>>
    PROVE  HeapInv'
<1> DEFINE U == Len(heap)
           moved == [heap[a] EXCEPT !.expires = e]
<1>1. heap \in Seq(Node) /\ U \in Nat /\ DOMAIN heap = 1 .. U
  BY HeapFacts DEF HeapInv, TypeOK
<1>2. heap[a] \in Node
  BY HeapFacts
<1>3. moved \in Node /\ moved.expires = e /\ moved.id = heap[a].id
  BY <1>2 DEF Node
<1>4. /\ heap' = [heap EXCEPT ![a] = moved]
  OBVIOUS
<1> HIDE DEF moved
<1>5. /\ heap' \in Seq(Node) /\ Len(heap') = U /\ heap'[a] = moved
      /\ \A k \in 1 .. U : k # a => heap'[k] = heap[k]
  BY <1>1, <1>3, <1>4
<1>6. \A k \in 1 .. U : heap'[k].id = heap[k].id
  BY <1>3, <1>5
<1>7. RefExact'
  <2>1. \A d \in DOMAIN ref : ref[d] \in 1 .. U
    BY DEF HeapInv, TypeOK
  <2> QED
    BY <1>5, <1>6, <2>1 DEF HeapInv, RefExact
<1>8. TypeOK'
  <2>1. n' \in 0 .. Len(heap') /\ i' \in 1 .. n' /\ index' \in 1 .. n' /\ i' \in Nat
    BY <1>1, <1>5
  <2> QED
    BY <1>5, <2>1 DEF HeapInv, TypeOK
<1>9. /\ ~doomed
      /\ \A k \in 2 .. U : Later(k)
      /\ \A k \in 2 .. U : k \div 2 > 1 => Past(k)
  BY Ordered
<1>10. LoopInv'
  BY <1>5, <1>9 DEF LoopInv, Live, Loops
<1>11. ASSUME NEW k \in 2 .. U
       PROVE  /\ k \in 1 .. U /\ k \div 2 \in 1 .. U /\ k \div 2 < k /\ k \in Nat
              /\ k \div 2 > 1 => (k \div 2) \div 2 \in 1 .. U /\ (k \div 2) \div 2 < k \div 2
  <2> DEFINE p == k \div 2
  <2>1. k \in Nat /\ k >= 2 /\ k <= U
    BY <1>1
  <2>2. p \in Nat /\ 1 <= p /\ p < k
    BY <2>1, Half
  <2> HIDE DEF p
  <2>3. p > 1 => p \div 2 \in Nat /\ 1 <= p \div 2 /\ p \div 2 < p
    BY <2>2, Half
  <2>4. k \in 1 .. U /\ p \in 1 .. U /\ (p > 1 => p \div 2 \in 1 .. U)
    BY <1>1, <2>1, <2>2, <2>3
  <2> QED
    BY <2>1, <2>2, <2>3, <2>4 DEF p
<1>12. ASSUME NEW k \in 2 .. U, k \div 2 # a, k = a => pc' = "downOnly"
       PROVE  heap'[k \div 2].expires <= heap'[k].expires
  <2>1. heap[k \div 2].expires <= heap[k].expires
    BY <1>9 DEF Later
  <2>2. heap'[k \div 2] = heap[k \div 2]
    BY <1>5, <1>11, <1>12
  <2>3. CASE k # a
    BY <1>5, <1>11, <2>1, <2>2, <2>3
  <2>4. CASE k = a
    <3>1. e >= heap[a].expires /\ heap'[k].expires = e
      BY <1>3, <1>5, <1>12, <2>4
    <3>2. heap[k \div 2].expires \in Nat /\ heap[a].expires \in Nat
      BY <1>11, HeapFacts
    <3> QED
      BY <2>1, <2>2, <2>4, <3>1, <3>2
  <2> QED
    BY <2>3, <2>4
<1>13. ASSUME NEW k \in 2 .. U, k \div 2 = a, a > 1
       PROVE  heap'[(k \div 2) \div 2].expires <= heap'[k].expires
  <2>1. heap[(k \div 2) \div 2].expires <= heap[k].expires
    BY <1>9, <1>13 DEF Past
  <2>2. /\ k \in 1 .. U /\ k # a
        /\ (k \div 2) \div 2 \in 1 .. U /\ (k \div 2) \div 2 # a
    BY <1>11, <1>13
  <2> QED
    BY <1>5, <2>1, <2>2
<1>14. SiftInv'
  BY <1>12, <1>13 DEF SiftInv, Later, Past, Loops
<1> QED
  BY <1>7, <1>8, <1>10, <1>14 DEF HeapInv

\* The node to be deleted goes behind the others.
LEMMA KeepDel ==
    ASSUME HeapInv, pc = "idle", NEW a \in 1 .. Len(heap), Del(a),
           UNCHANGED <<now, ticking, aborted>>
    PROVE  HeapInv'
<1> DEFINE U == Len(heap)
<1>1. heap \in Seq(Node) /\ U \in Nat \ {0} /\ DOMAIN heap = 1 .. U /\ heap # << >>
  BY HeapFacts, EmptySeq DEF HeapInv, TypeOK
<1>2. /\ ~doomed /\ n = 0 /\ doomed' = TRUE
      /\ \A k \in 2 .. U : Later(k)
      /\ \A k \in 2 .. U : k \div 2 > 1 => Past(k)
  BY Ordered DEF Del
<1>3. CASE ~(a < U)
  <2>1. pc' = "erase" /\ UNCHANGED <<heap, ref, i, n, index>>
    BY <1>3 DEF Del, locals
  <2>2. \A k \in 2 .. U - 1 : k \in 2 .. U
    BY <1>1
  <2>3. SiftInv'
    BY <1>2, <2>1, <2>2 DEF SiftInv, Later, Live, Loops
  <2>4. TypeOK' /\ RefExact'
    BY <1>2, <2>1 DEF HeapInv, TypeOK, RefExact
  <2>5. LoopInv'
    BY <1>1, <1>2, <2>1 DEF LoopInv, Loops
  <2> QED
    BY <2>3, <2>4, <2>5 DEF HeapInv
<1>4. CASE a < U
  <2>1. /\ SwapNode(a, U) /\ pc' = "down" /\ i' = a /\ n' = U - 1 /\ index' = a
    BY <1>4 DEF Del, Sift
  <2>2. U \in 1 .. U
    BY <1>1
  <2>3. /\ heap' \in Seq(Node) /\ Len(heap') = U
        /\ \A k \in 1 .. U \ {a, U} : heap'[k] = heap[k]
        /\ DOMAIN ref' = DOMAIN ref
        /\ \A id \in DOMAIN ref : ref'[id] \in 1 .. U
        /\ RefExact'
    BY <2>1, <2>2, SwapFacts DEF HeapInv
  <2>4. TypeOK'
    <3>1. U - 1 \in 0 .. U /\ a \in 1 .. U - 1 /\ a \in Nat
      BY <1>1, <1>4
    <3>2. n' \in 0 .. Len(heap') /\ i' \in 1 .. n' /\ index' \in 1 .. n' /\ i' \in Nat
      BY <2>1, <2>3, <3>1
    <3> QED
      BY <1>2, <2>1, <2>3, <3>2 DEF HeapInv, TypeOK
  <2>5. LoopInv'
    <3>1. heap' # << >>
      BY <1>1, <2>3, EmptySeq
    <3> QED
      BY <1>2, <2>1, <2>3, <3>1 DEF LoopInv, Live, Loops
  <2>6. ASSUME NEW k \in 2 .. U - 1
        PROVE  /\ k \in 2 .. U /\ k \in 1 .. U /\ k # U /\ k \in Nat
               /\ k \div 2 \in 1 .. U /\ k \div 2 < k /\ k \div 2 # U
               /\ k \div 2 > 1 =>
                     /\ (k \div 2) \div 2 \in 1 .. U
                     /\ (k \div 2) \div 2 < k \div 2 /\ (k \div 2) \div 2 # U
    <3> DEFINE p == k \div 2
    <3>1. k \in Nat /\ k >= 2 /\ k <= U - 1
      BY <1>1
    <3>2. p \in Nat /\ 1 <= p /\ p < k
      BY <3>1, Half
    <3> HIDE DEF p
    <3>3. p > 1 => p \div 2 \in Nat /\ 1 <= p \div 2 /\ p \div 2 < p
      BY <3>2, Half
    <3> HIDE DEF U
    <3>4. /\ k \in 2 .. U /\ k \in 1 .. U /\ k # U
          /\ p \in 1 .. U /\ p # U
      BY <1>1, <3>1, <3>2
    <3>5. ASSUME p > 1
          PROVE  p \div 2 \in 1 .. U /\ p \div 2 # U
      <4> DEFINE q == p \div 2
      <4>1. q \in Nat /\ 1 <= q /\ q < p
        BY <3>3, <3>5
      <4> HIDE DEF q
      <4>2. q \in 1 .. U /\ q # U
        BY <1>1, <3>1, <3>2, <4>1
      <4> QED
        BY <4>2 DEF q
    <3> QED
      BY <3>1, <3>2, <3>3, <3>4, <3>5 DEF p, U
  <2>7. ASSUME NEW k \in 2 .. U - 1, k \div 2 # a, k # a
        PROVE  heap'[k \div 2].expires <= heap'[k].expires
    <3>1. heap[k \div 2].expires <= heap[k].expires
      BY <1>2, <2>6 DEF Later
    <3> QED
      BY <2>3, <2>6, <2>7, <3>1
  <2>8. ASSUME NEW k \in 2 .. U - 1, k \div 2 = a, a > 1
        PROVE  heap'[(k \div 2) \div 2].expires <= heap'[k].expires
    <3>1. heap[(k \div 2) \div 2].expires <= heap[k].expires
      BY <1>2, <2>6, <2>8 DEF Past
    <3>2. k # a /\ (k \div 2) \div 2 # a
      BY <2>6, <2>8
    <3> QED
      BY <2>3, <2>6, <2>8, <3>1, <3>2
  <2>9. SiftInv'
    BY <2>1, <2>7, <2>8, <1>1 DEF SiftInv, Later, Past, Loops
  <2> QED
    BY <2>3, <2>4, <2>5, <2>9 DEF HeapInv
<1> QED
  BY <1>3, <1>4


LEMMA HeapInit == HeapTimerAssumption /\ Init => HeapInv
<1> SUFFICES ASSUME HeapTimerAssumption, Init PROVE HeapInv
  OBVIOUS
<1>1. heap = << >> /\ Len(heap) = 0 /\ heap \in Seq(Node) /\ ref = << >> /\ DOMAIN ref = {}
  BY EmptySeq, LenProperties DEF Init
<1>2. /\ pc = "idle" /\ n = 0 /\ i = 1 /\ index = 1 /\ now = 0
      /\ ticking = FALSE /\ doomed = FALSE /\ aborted = FALSE
  BY DEF Init
<1>3. TypeOK
  <2>1. n \in 0 .. Len(heap) /\ i \in Nat /\ index \in Nat /\ now \in Nat
    BY <1>1, <1>2
  <2>2. DOMAIN ref \subseteq Ids /\ \A id \in DOMAIN ref : ref[id] \in 1 .. Len(heap)
    BY <1>1
  <2>3. ticking \in BOOLEAN /\ doomed \in BOOLEAN /\ aborted \in BOOLEAN
    BY <1>2
  <2>4. pc \in {"idle", "down", "downOnly", "up", "erase"}
    BY <1>2
  <2>5. ~(pc \in {"down", "downOnly", "up"})
    BY <1>2
  <2> QED
    BY <1>1, <2>1, <2>2, <2>3, <2>4, <2>5 DEF TypeOK
<1>4. RefExact /\ LoopInv
  BY <1>1, <1>2 DEF RefExact, LoopInv, Loops
<1>5. SiftInv
  BY <1>1, <1>2 DEF SiftInv, Live, Loops
<1> QED
  BY <1>3, <1>4, <1>5 DEF HeapInv

LEMMA KeepClear == HeapInv /\ Clear => HeapInv'
<1> SUFFICES ASSUME HeapInv, Clear PROVE HeapInv'
  OBVIOUS
<1>1. heap' = << >> /\ Len(heap') = 0 /\ heap' \in Seq(Node) /\ ref' = << >> /\ DOMAIN ref' = {}
  BY EmptySeq, LenProperties DEF Clear
<1>2. pc = "idle" /\ ~doomed /\ n = 0 /\ UNCHANGED <<now, pc, i, n, index, ticking, doomed, aborted>>
  BY Ordered DEF Clear, locals
<1>3. TypeOK'
  BY <1>1, <1>2 DEF HeapInv, TypeOK
<1> QED
  BY <1>1, <1>2, <1>3 DEF HeapInv, RefExact, LoopInv, SiftInv, Live, Loops

\* Where the timer of id stands.
LEMMA PlaceOf ==
    ASSUME HeapInv, NEW id \in DOMAIN ref
    PROVE  /\ id \in Ids /\ ref[id] \in 1 .. Len(heap) /\ ref[id] \in Nat
           /\ heap[ref[id]].id = id /\ heap[ref[id]].expires \in Nat
<1>1. id \in Ids /\ ref[id] \in 1 .. Len(heap) /\ heap[ref[id]].id = id
  BY DEF HeapInv, TypeOK, RefExact
<1> QED
  BY <1>1, HeapFacts

LEMMA KeepSetAgain ==
    ASSUME HeapTimerAssumption, HeapInv, NEW id \in Ids, NEW t \in Timeouts,
           AddAgain(id, t) \/ Adjust(id, t)
    PROVE  HeapInv'
<1>1. /\ pc = "idle" /\ id \in DOMAIN ref /\ t \in Nat /\ now \in Nat
      /\ heap' = [heap EXCEPT ![ref[id]].expires = now + t]
      /\ i' = ref[id] /\ n' = Len(heap) /\ index' = ref[id]
      /\ pc' \in {"down", "downOnly"}
      /\ pc' = "downOnly" => now + t >= heap[ref[id]].expires
      /\ UNCHANGED <<ref, now, ticking, doomed, aborted>>
  BY DEF AddAgain, Adjust, Sift, HeapTimerAssumption, HeapInv, TypeOK
<1>2. ref[id] \in 1 .. Len(heap)
  BY <1>1, PlaceOf
<1>3. now + t \in Nat
  BY <1>1
<1> QED
  BY <1>1, <1>2, <1>3, KeepSet

LEMMA KeepRun ==
    ASSUME HeapInv, Fire \/ \E id \in Ids : DoWork(id)
    PROVE  HeapInv'
<1>1. CASE Fire
  <2>1. /\ pc = "idle" /\ heap # << >> /\ Del(1) /\ UNCHANGED <<now, ticking, aborted>>
    BY <1>1 DEF Fire
  <2>2. heap \in Seq(Node) /\ Len(heap) \in Nat /\ Len(heap) # 0
    BY <2>1, HeapFacts, EmptySeq DEF HeapInv, TypeOK
  <2>3. 1 \in 1 .. Len(heap)
    BY <2>2
  <2> QED
    BY <2>1, <2>3, KeepDel
<1>2. CASE \E id \in Ids : DoWork(id)
  BY <1>2, PlaceOf, KeepDel DEF DoWork
<1> QED
  BY <1>1, <1>2

LEMMA HeapStep ==
    ASSUME HeapTimerAssumption
    PROVE  HeapInv /\ [Next]_vars => HeapInv'
<1> SUFFICES ASSUME HeapInv, [Next]_vars PROVE HeapInv'
  OBVIOUS
<1>1. CASE \E id \in Ids, t \in Timeouts : AddNew(id, t)
  BY <1>1, KeepAddNew
<1>2. CASE \E id \in Ids, t \in Timeouts : AddAgain(id, t) \/ Adjust(id, t)
  BY <1>2, KeepSetAgain
<1>3. CASE Fire \/ \E id \in Ids : DoWork(id)
  BY <1>3, KeepRun
<1>4. CASE Clear
  BY <1>4, KeepClear
<1>5. CASE Tick \/ TickEnds
  BY <1>5, KeepQuiet DEF Tick, TickEnds, locals, HeapInv, TypeOK
<1>6. CASE SiftDown
  BY <1>6, KeepSiftDown
<1>7. CASE SiftDownEnds
  BY <1>7, KeepSiftDownEnds
<1>8. CASE SiftUp
  BY <1>8, KeepSiftUp
<1>9. CASE SiftUpEnds \/ SiftUpRoot
  BY <1>9, KeepSiftUpEnds
<1>10. CASE Erase
  BY <1>10, KeepErase
<1>11. CASE Advance
  <2>1. now' \in Nat
    BY <1>11 DEF Advance, HeapInv, TypeOK
  <2> QED
    BY <1>11, <2>1, KeepQuiet DEF Advance, locals, HeapInv, TypeOK
<1>12. CASE UNCHANGED vars
  BY <1>12, KeepQuiet DEF vars, locals, HeapInv, TypeOK
<1> QED
  BY <1>1, <1>2, <1>3, <1>4, <1>5, <1>6, <1>7, <1>8, <1>9, <1>10, <1>11, <1>12 DEF Next

\* ref_ gives the place of every node and of nothing else, in the middle of a sift too,
\* and between two operations the earliest node is at the front (heaptimer.cpp:20-76).
THEOREM TimerConsistent ==
    ASSUME HeapTimerAssumption
    PROVE  Spec => [](TypeOK /\ RefExact /\ HeapOrder)
<1>1. Init => HeapInv
  BY HeapInit
<1>2. HeapInv /\ [Next]_vars => HeapInv'
  BY HeapStep
<1>3. HeapInv => TypeOK /\ RefExact /\ HeapOrder
  BY Ordered DEF HeapInv, HeapOrder, Later
<1> QED
  BY <1>1, <1>2, <1>3, PTL DEF Spec
-----------------------------------------------------------------------------
(* The heap implements a timer.                                            *)

\* What Timer knows of the heap.
Expiry == [id \in Ids |->
              IF id \in DOMAIN ref /\ ref[id] <= Live THEN heap[ref[id]].expires ELSE Never]

LEMMA ExpiryWhenIdle ==
    ASSUME HeapInv, pc = "idle"
    PROVE  \A id \in Ids :
              /\ id \in DOMAIN ref => Expiry[id] = heap[ref[id]].expires /\ Expiry[id] # Never
              /\ id \notin DOMAIN ref => Expiry[id] = Never
<1>1. ~doomed
  BY Ordered
<1>2. Live = Len(heap)
  BY <1>1 DEF Live
<1>3. \A id \in DOMAIN ref : ref[id] <= Live /\ heap[ref[id]].expires \in Nat
  BY <1>2, PlaceOf, HeapFacts
<1> QED
  BY <1>3 DEF Expiry, Never

\* Exchanging two nodes that stay changes nothing.
LEMMA ExpirySwap ==
    ASSUME HeapInv, NEW a \in 1 .. Len(heap), NEW b \in 1 .. Len(heap),
           a <= Live, b <= Live, SwapNode(a, b), doomed' = doomed
    PROVE  Expiry' = Expiry
<1>1. /\ Len(heap') = Len(heap) /\ DOMAIN ref' = DOMAIN ref
      /\ \A id \in DOMAIN ref :
            /\ ref'[id] = IF ref[id] = a THEN b ELSE IF ref[id] = b THEN a ELSE ref[id]
            /\ heap'[ref'[id]] = heap[ref[id]]
  BY SwapFacts DEF HeapInv
<1>2. Live' = Live
  BY <1>1 DEF Live
<1>3. \A id \in DOMAIN ref : ref'[id] <= Live' <=> ref[id] <= Live
  BY <1>1, <1>2
<1> QED
  BY <1>1, <1>3 DEF Expiry

\* The first part of a deletion forgets the timer, and nothing else.
LEMMA ExpiryDel ==
    ASSUME HeapInv, pc = "idle", NEW a \in 1 .. Len(heap), Del(a)
    PROVE  /\ heap[a].id \in Ids /\ heap[a].id \in DOMAIN ref
           /\ Expiry' = [Expiry EXCEPT ![heap[a].id] = Never]
<1> DEFINE U == Len(heap)
           x == heap[a].id
<1>1. x \in DOMAIN ref /\ ref[x] = a
  BY DEF HeapInv, RefExact
<1>2. x \in Ids
  BY <1>1, PlaceOf
<1>3. U \in Nat /\ a \in 1 .. U /\ U \in 1 .. U /\ doomed' = TRUE
  BY HeapFacts DEF Del
<1>4. ASSUME NEW id \in DOMAIN ref
      PROVE  ref[id] \in 1 .. U /\ (ref[id] = a <=> id = x) /\ id \in Ids
  BY <1>1, PlaceOf
<1>5. /\ Len(heap') = U /\ DOMAIN ref' = DOMAIN ref
      /\ ref'[x] = U
      /\ \A id \in DOMAIN ref \ {x} : ref'[id] \in 1 .. U - 1 /\ heap'[ref'[id]] = heap[ref[id]]
  <2>1. CASE ~(a < U)
    <3>1. a = U /\ UNCHANGED <<heap, ref>>
      BY <1>3, <2>1 DEF Del
    <3>2. \A id \in DOMAIN ref \ {x} : ref[id] \in 1 .. U - 1
      BY <1>3, <1>4, <3>1
    <3> QED
      BY <1>1, <3>1, <3>2
  <2>2. CASE a < U
    <3>1. SwapNode(a, U)
      BY <2>2 DEF Del
    <3>2. /\ Len(heap') = U /\ DOMAIN ref' = DOMAIN ref
          /\ \A id \in DOMAIN ref :
                /\ ref'[id] \in 1 .. U
                /\ ref'[id] = IF ref[id] = a THEN U ELSE IF ref[id] = U THEN a ELSE ref[id]
                /\ heap'[ref'[id]] = heap[ref[id]]
      BY <1>3, <3>1, SwapFacts DEF HeapInv
    <3>3. \A id \in DOMAIN ref \ {x} : ref'[id] # U
      BY <1>3, <1>4, <2>2, <3>2
    <3>4. \A id \in DOMAIN ref \ {x} : ref'[id] \in 1 .. U - 1
      BY <1>3, <3>2, <3>3
    <3> QED
      BY <1>1, <3>2, <3>4
  <2> QED
    BY <2>1, <2>2
<1>6. Live' = U - 1
  BY <1>3, <1>5 DEF Live
<1>7. ~(ref'[x] <= Live')
  BY <1>3, <1>5, <1>6
<1>8. \A id \in DOMAIN ref \ {x} : ref'[id] <= Live' /\ heap'[ref'[id]] = heap[ref[id]]
  BY <1>3, <1>5, <1>6
<1> HIDE DEF x
<1>9. ASSUME NEW id \in Ids
      PROVE  Expiry'[id] = IF id = x THEN Never ELSE Expiry[id]
  <2>1. Expiry'[id] = IF id \in DOMAIN ref' /\ ref'[id] <= Live'
                      THEN heap'[ref'[id]].expires ELSE Never
    BY DEF Expiry
  <2>2. CASE id = x
    BY <1>7, <2>1, <2>2
  <2>3. CASE id # x /\ id \in DOMAIN ref
    BY <1>5, <1>8, <2>1, <2>3, ExpiryWhenIdle
  <2>4. CASE id # x /\ id \notin DOMAIN ref
    BY <1>5, <2>1, <2>4, ExpiryWhenIdle
  <2> QED
    BY <2>2, <2>3, <2>4
<1>10. Expiry' = [Expiry EXCEPT ![x] = Never]
  BY <1>2, <1>9 DEF Expiry
<1> QED
  BY <1>1, <1>2, <1>10 DEF x


\* The steps of Timer, read for the heap.
LEMMA AbstractForm ==
    /\ Abstract!Init <=> Expiry = [id \in Ids |-> Never] /\ now = 0 /\ ticking = FALSE
    /\ \A id \in Ids : Abstract!Set(id) <=>
          /\ ~ticking
          /\ \E t \in Timeouts : Expiry' = [Expiry EXCEPT ![id] = now + t]
          /\ UNCHANGED <<now, ticking>>
    /\ \A id \in Ids : Abstract!Run(id) <=>
          /\ ~ticking /\ Expiry[id] # Never
          /\ Expiry' = [Expiry EXCEPT ![id] = Never]
          /\ UNCHANGED <<now, ticking>>
    /\ Abstract!Clear <=>
          ~ticking /\ Expiry' = [id \in Ids |-> Never] /\ UNCHANGED <<now, ticking>>
    /\ Abstract!Tick <=> ~ticking /\ ticking' = TRUE /\ Expiry' = Expiry /\ now' = now
    /\ \A id \in Ids : Abstract!Fire(id) <=>
          /\ ticking /\ Expiry[id] # Never /\ Expiry[id] <= now
          /\ \A other \in Ids : Expiry[other] # Never => Expiry[id] <= Expiry[other]
          /\ Expiry' = [Expiry EXCEPT ![id] = Never]
          /\ UNCHANGED <<now, ticking>>
    /\ Abstract!TickEnds <=>
          /\ ticking
          /\ \A id \in Ids : Expiry[id] # Never => Expiry[id] > now
          /\ ticking' = FALSE /\ Expiry' = Expiry /\ now' = now
    /\ Abstract!Advance <=> now' = now + 1 /\ Expiry' = Expiry /\ ticking' = ticking
    /\ Abstract!vars = <<Expiry, now, ticking>>
BY DEF Expiry, Abstract!Init, Abstract!Set, Abstract!Run, Abstract!Clear, Abstract!Tick,
       Abstract!Fire, Abstract!TickEnds, Abstract!Advance, Abstract!vars, Abstract!Armed


LEMMA SetStep ==
    ASSUME HeapTimerAssumption, HeapInv, NEW id \in Ids, NEW t \in Timeouts,
           AddNew(id, t) \/ AddAgain(id, t) \/ Adjust(id, t)
    PROVE  Abstract!Set(id)
<1>1. /\ pc = "idle" /\ ~ticking /\ UNCHANGED <<now, ticking, doomed>>
  BY DEF AddNew, AddAgain, Adjust
<1>2. /\ ~doomed /\ ~doomed' /\ Live = Len(heap) /\ Live' = Len(heap') /\ Len(heap) \in Nat
  BY <1>1, Ordered, HeapFacts DEF Live
<1>3. heap \in Seq(Node) /\ DOMAIN heap = 1 .. Len(heap)
  BY HeapFacts DEF HeapInv, TypeOK
<1>4. \A d \in DOMAIN ref : ref[d] \in 1 .. Len(heap) /\ heap[ref[d]].id = d
  BY PlaceOf
<1>5. /\ DOMAIN ref' = DOMAIN ref \cup {id}
      /\ ref'[id] <= Live' /\ heap'[ref'[id]].expires = now + t
      /\ \A d \in DOMAIN ref \ {id} : ref'[d] <= Live' /\ heap'[ref'[d]] = heap[ref[d]]
  <2>1. CASE AddNew(id, t)
    <3> DEFINE new == [id |-> id, expires |-> now + t]
    <3>1. /\ id \notin DOMAIN ref /\ heap' = Append(heap, new)
          /\ ref' = [d \in DOMAIN ref \cup {id} |-> IF d = id THEN Len(heap) + 1 ELSE ref[d]]
      BY <2>1 DEF AddNew
    <3>2. new.expires = now + t
      OBVIOUS
    <3> HIDE DEF new
    <3>3. /\ Len(heap') = Len(heap) + 1 /\ heap'[Len(heap) + 1] = new
          /\ \A k \in 1 .. Len(heap) : heap'[k] = heap[k]
      BY <1>2, <1>3, <3>1
    <3>4. /\ DOMAIN ref' = DOMAIN ref \cup {id} /\ ref'[id] = Len(heap) + 1
          /\ \A d \in DOMAIN ref \ {id} : ref'[d] = ref[d]
      BY <3>1
    <3> QED
      BY <1>2, <1>4, <3>2, <3>3, <3>4
  <2>2. CASE AddAgain(id, t) \/ Adjust(id, t)
    <3>1. /\ id \in DOMAIN ref /\ heap' = [heap EXCEPT ![ref[id]].expires = now + t]
          /\ ref' = ref
      BY <2>2 DEF AddAgain, Adjust
    <3>2. ref[id] \in 1 .. Len(heap)
      BY <1>4, <3>1
    <3> DEFINE moved == [heap[ref[id]] EXCEPT !.expires = now + t]
    <3>3. moved.expires = now + t
      <4>1. heap[ref[id]] \in Node
        BY <3>2, HeapFacts
      <4> QED
        BY <4>1 DEF Node
    <3>4. heap' = [heap EXCEPT ![ref[id]] = moved]
      BY <3>1
    <3> HIDE DEF moved
    <3>5. /\ Len(heap') = Len(heap) /\ heap'[ref[id]] = moved
          /\ \A k \in 1 .. Len(heap) : k # ref[id] => heap'[k] = heap[k]
      BY <1>3, <3>2, <3>4
    <3>6. \A d \in DOMAIN ref \ {id} : ref[d] # ref[id]
      BY <1>4, <3>1
    <3>7. DOMAIN ref' = DOMAIN ref \cup {id}
      BY <3>1
    <3>8. ref'[id] <= Live' /\ heap'[ref'[id]].expires = now + t
      BY <1>2, <3>1, <3>2, <3>3, <3>5
    <3>9. ASSUME NEW d \in DOMAIN ref \ {id}
          PROVE  ref'[d] <= Live' /\ heap'[ref'[d]] = heap[ref[d]]
      <4>1. ref'[d] = ref[d] /\ ref[d] \in 1 .. Len(heap) /\ ref[d] # ref[id]
        BY <1>4, <3>1, <3>6
      <4> QED
        BY <1>2, <3>5, <4>1
    <3> QED
      BY <3>7, <3>8, <3>9
  <2> QED
    BY <2>1, <2>2
<1>6. ASSUME NEW d \in Ids
      PROVE  Expiry'[d] = IF d = id THEN now + t ELSE Expiry[d]
  <2>1. Expiry'[d] = IF d \in DOMAIN ref' /\ ref'[d] <= Live'
                     THEN heap'[ref'[d]].expires ELSE Never
    BY DEF Expiry, Never
  <2>2. CASE d = id
    BY <1>5, <2>1, <2>2
  <2>3. CASE d # id /\ d \in DOMAIN ref
    BY <1>1, <1>5, <2>1, <2>3, ExpiryWhenIdle
  <2>4. CASE d # id /\ d \notin DOMAIN ref
    BY <1>1, <1>5, <2>1, <2>4, ExpiryWhenIdle
  <2> QED
    BY <2>2, <2>3, <2>4
<1>7. Expiry' = [Expiry EXCEPT ![id] = now + t]
  BY <1>6 DEF Expiry
<1> QED
  BY <1>1, <1>7, AbstractForm

LEMMA RunStep ==
    ASSUME HeapInv, NEW id \in Ids, DoWork(id)
    PROVE  Abstract!Run(id)
<1>1. /\ pc = "idle" /\ ~ticking /\ id \in DOMAIN ref /\ Del(ref[id])
      /\ UNCHANGED <<now, ticking>>
  BY DEF DoWork
<1>2. ref[id] \in 1 .. Len(heap) /\ heap[ref[id]].id = id
  BY <1>1, PlaceOf
<1>3. Expiry' = [Expiry EXCEPT ![id] = Never]
  BY <1>1, <1>2, ExpiryDel
<1>4. Expiry[id] # Never
  BY <1>1, ExpiryWhenIdle
<1> QED
  BY <1>1, <1>3, <1>4, AbstractForm

\* The node that fires has expired, and none expires before it.
LEMMA FireStep ==
    ASSUME HeapInv, Fire
    PROVE  \E id \in Ids : Abstract!Fire(id)
<1>1. /\ pc = "idle" /\ ticking /\ heap # << >> /\ heap[1].expires <= now /\ Del(1)
      /\ UNCHANGED <<now, ticking>>
  BY DEF Fire
<1>2. heap \in Seq(Node) /\ Len(heap) \in Nat /\ Len(heap) # 0
  BY <1>1, HeapFacts, EmptySeq DEF HeapInv, TypeOK
<1>3. 1 \in 1 .. Len(heap)
  BY <1>2
<1>4. PICK x \in Ids : /\ x = heap[1].id /\ x \in DOMAIN ref /\ ref[x] = 1
                       /\ Expiry' = [Expiry EXCEPT ![x] = Never]
  <2> DEFINE y == heap[1].id
  <2>1. y \in Ids /\ y \in DOMAIN ref /\ ref[y] = 1 /\ Expiry' = [Expiry EXCEPT ![y] = Never]
    BY <1>1, <1>3, ExpiryDel DEF HeapInv, RefExact
  <2> QED
    BY <2>1
<1>5. \A k \in 1 .. Len(heap) : heap[1].expires <= heap[k].expires
  <2>1. \A k \in 2 .. Len(heap) : heap[k \div 2].expires <= heap[k].expires
    BY <1>1, Ordered DEF Later
  <2>2. Len(heap) <= Len(heap)
    BY <1>2
  <2> QED
    BY <1>2, <2>1, <2>2, RootEarliest, Zenon
<1>6. Expiry[x] = heap[1].expires /\ Expiry[x] # Never /\ Expiry[x] <= now
  BY <1>1, <1>4, ExpiryWhenIdle
<1>7. ASSUME NEW other \in Ids, Expiry[other] # Never
      PROVE  Expiry[x] <= Expiry[other]
  <2>1. other \in DOMAIN ref /\ Expiry[other] = heap[ref[other]].expires
    BY <1>1, <1>7, ExpiryWhenIdle
  <2>2. ref[other] \in 1 .. Len(heap)
    BY <2>1, PlaceOf
  <2> QED
    BY <1>5, <1>6, <2>1, <2>2
<1>8. Abstract!Fire(x)
  BY <1>1, <1>4, <1>6, <1>7, AbstractForm
<1> QED
  BY <1>8

\* When a tick ends, nothing that has expired is left.
LEMMA EndStep ==
    ASSUME HeapInv, TickEnds
    PROVE  Abstract!TickEnds
<1>1. /\ pc = "idle" /\ ticking /\ ticking' = FALSE
      /\ heap # << >> => heap[1].expires > now
      /\ UNCHANGED <<heap, ref, now, doomed>>
  BY DEF TickEnds
<1>2. Expiry' = Expiry
  BY <1>1 DEF Expiry, Live
<1>3. heap \in Seq(Node) /\ Len(heap) \in Nat /\ now \in Nat
  BY HeapFacts DEF HeapInv, TypeOK
<1>4. \A k \in 1 .. Len(heap) : heap[1].expires <= heap[k].expires
  <2>1. \A k \in 2 .. Len(heap) : heap[k \div 2].expires <= heap[k].expires
    BY <1>1, Ordered DEF Later
  <2>2. Len(heap) <= Len(heap)
    BY <1>3
  <2> QED
    BY <1>3, <2>1, <2>2, RootEarliest, Zenon
<1>5. ASSUME NEW id \in Ids, Expiry[id] # Never
      PROVE  Expiry[id] > now
  <2>1. id \in DOMAIN ref /\ Expiry[id] = heap[ref[id]].expires
    BY <1>1, <1>5, ExpiryWhenIdle
  <2>2. ref[id] \in 1 .. Len(heap)
    BY <2>1, PlaceOf
  <2>3. heap # << >> /\ 1 \in 1 .. Len(heap)
    BY <1>3, <2>2
  <2>4. heap[1].expires \in Nat /\ heap[ref[id]].expires \in Nat
    BY <2>2, <2>3, HeapFacts
  <2> QED
    BY <1>1, <1>3, <1>4, <2>1, <2>2, <2>3, <2>4
<1> QED
  BY <1>1, <1>2, <1>5, AbstractForm

\* A pass of a loop, and the removal of the node that was run, are no steps of Timer.
LEMMA LoopStep ==
    ASSUME HeapInv, SiftDown \/ SiftDownEnds \/ SiftUp \/ SiftUpEnds \/ SiftUpRoot \/ Erase
    PROVE  UNCHANGED <<Expiry, now, ticking>>
<1>1. UNCHANGED <<now, ticking>>
  BY DEF SiftDown, SiftDownEnds, SiftUp, SiftUpEnds, SiftUpRoot, Erase
<1>2. CASE SiftDown
  <2>1. pc \in Loops /\ 2 * i <= n /\ SwapNode(i, Smaller(i)) /\ doomed' = doomed
    BY <1>2 DEF SiftDown, Loops
  <2>2. Smaller(i) \in 2 .. n /\ Smaller(i) \in 1 .. Len(heap)
    BY <2>1, SmallerFacts
  <2>3. i \in 1 .. n /\ i \in 1 .. Len(heap) /\ n = Live /\ n \in Nat
    BY <2>1, HeapFacts
  <2> DEFINE j == Smaller(i)
  <2>4. j \in 2 .. n /\ j \in 1 .. Len(heap) /\ SwapNode(i, j)
    BY <2>1, <2>2
  <2> HIDE DEF j
  <2>5. i <= Live /\ j <= Live
    BY <2>3, <2>4
  <2> QED
    BY <1>1, <2>1, <2>3, <2>4, <2>5, ExpirySwap
<1>3. CASE SiftUp
  <2> DEFINE p == i \div 2
  <2>1. pc \in Loops /\ i > 1 /\ SwapNode(i, p) /\ doomed' = doomed
    BY <1>3 DEF SiftUp, Loops
  <2>2. /\ i \in 1 .. n /\ i \in 1 .. Len(heap) /\ n = Live /\ n \in Nat
        /\ n <= Len(heap) /\ Len(heap) \in Nat
    BY <2>1, HeapFacts
  <2>3. i \in Nat /\ i >= 2
    BY <2>1, <2>2
  <2>4. p \in Nat /\ 1 <= p /\ p < i
    BY <2>3, Half
  <2> HIDE DEF p
  <2>5. p \in 1 .. Len(heap) /\ p <= Live /\ i <= Live
    BY <2>2, <2>4
  <2> QED
    BY <1>1, <2>1, <2>2, <2>5, ExpirySwap
<1>4. CASE SiftDownEnds \/ SiftUpEnds \/ SiftUpRoot
  <2>1. UNCHANGED <<heap, ref, doomed>>
    BY <1>4 DEF SiftDownEnds, SiftUpEnds, SiftUpRoot
  <2> QED
    BY <1>1, <2>1 DEF Expiry, Live
<1>5. CASE Erase
  <2> DEFINE U == Len(heap)
             x == heap[U].id
  <2>1. /\ pc = "erase" /\ doomed' = FALSE
        /\ ref' = [d \in DOMAIN ref \ {x} |-> ref[d]]
        /\ heap' = SubSeq(heap, 1, U - 1)
    BY <1>5 DEF Erase
  <2>2. doomed /\ heap # << >> /\ U \in Nat /\ U # 0 /\ Live = U - 1
    BY <2>1, HeapFacts, EmptySeq DEF HeapInv, TypeOK, LoopInv, Live
  <2>3. /\ Len(heap') = U - 1
        /\ \A k \in 1 .. U - 1 : heap'[k] = heap[k]
    BY <1>5, EraseFacts
  <2>4. Live' = U - 1
    BY <2>1, <2>3 DEF Live
  <2>5. U \in 1 .. U
    BY <2>2
  <2>6. x \in DOMAIN ref /\ ref[x] = U
    BY <2>5 DEF HeapInv, RefExact
  <2>7. \A d \in DOMAIN ref : ref[d] \in 1 .. U /\ heap[ref[d]].id = d
    BY PlaceOf
  <2> HIDE DEF x, U
  <2>8. ASSUME NEW d \in Ids
        PROVE  Expiry'[d] = Expiry[d]
    <3>1. /\ Expiry'[d] = IF d \in DOMAIN ref' /\ ref'[d] <= Live'
                          THEN heap'[ref'[d]].expires ELSE Never
          /\ Expiry[d] = IF d \in DOMAIN ref /\ ref[d] <= Live
                         THEN heap[ref[d]].expires ELSE Never
      BY DEF Expiry, Never
    <3>2. CASE d = x
      BY <2>1, <2>2, <2>6, <3>1, <3>2
    <3>3. CASE d # x /\ d \in DOMAIN ref
      <4>1. ref'[d] = ref[d] /\ d \in DOMAIN ref'
        BY <2>1, <3>3
      <4>2. ref[d] \in 1 .. U - 1 \/ ~(ref[d] <= U - 1)
        BY <2>2, <2>7, <3>3
      <4> QED
        BY <2>2, <2>3, <2>4, <3>1, <3>3, <4>1, <4>2
    <3>4. CASE d \notin DOMAIN ref
      BY <2>1, <3>1, <3>4
    <3> QED
      BY <3>2, <3>3, <3>4
  <2>9. Expiry' = Expiry
    BY <2>8 DEF Expiry
  <2> QED
    BY <1>1, <2>9
<1> QED
  BY <1>2, <1>3, <1>4, <1>5

LEMMA TimerStep ==
    ASSUME HeapTimerAssumption
    PROVE  HeapInv /\ [Next]_vars => [Abstract!Next]_(Abstract!vars)
<1> SUFFICES ASSUME HeapInv, [Next]_vars
             PROVE  Abstract!Next \/ UNCHANGED <<Expiry, now, ticking>>
  <2>1. Abstract!vars = <<Expiry, now, ticking>>
    BY DEF Abstract!vars, Expiry
  <2>2. UNCHANGED <<Expiry, now, ticking>> => UNCHANGED Abstract!vars
    BY DEF Abstract!vars, Expiry
  <2> QED
    BY <2>2
<1>1. CASE \E id \in Ids, t \in Timeouts : AddNew(id, t) \/ AddAgain(id, t) \/ Adjust(id, t)
  BY <1>1, SetStep DEF Abstract!Next
<1>2. CASE \E id \in Ids : DoWork(id)
  BY <1>2, RunStep DEF Abstract!Next
<1>3. CASE Fire
  BY <1>3, FireStep DEF Abstract!Next
<1>4. CASE TickEnds
  BY <1>4, EndStep DEF Abstract!Next
<1>5. CASE SiftDown \/ SiftDownEnds \/ SiftUp \/ SiftUpEnds \/ SiftUpRoot \/ Erase
  BY <1>5, LoopStep
<1>6. CASE Clear
  <2>1. ~ticking /\ UNCHANGED <<now, ticking>> /\ DOMAIN ref' = {}
    BY <1>6, EmptySeq, LenProperties DEF Clear
  <2>2. Expiry' = [id \in Ids |-> Never]
    BY <2>1 DEF Expiry, Never
  <2> QED
    BY <2>1, <2>2, AbstractForm DEF Abstract!Next
<1>7. CASE Tick
  <2>1. ~ticking /\ ticking' = TRUE /\ now' = now /\ UNCHANGED <<heap, ref, doomed>>
    BY <1>7 DEF Tick
  <2>2. Expiry' = Expiry
    BY <2>1 DEF Expiry, Live
  <2> QED
    BY <2>1, <2>2, AbstractForm DEF Abstract!Next
<1>8. CASE Advance
  <2>1. now' = now + 1 /\ ticking' = ticking /\ UNCHANGED <<heap, ref, doomed>>
    BY <1>8 DEF Advance
  <2>2. Expiry' = Expiry
    BY <2>1 DEF Expiry, Live
  <2> QED
    BY <2>1, <2>2, AbstractForm DEF Abstract!Next
<1>9. CASE UNCHANGED vars
  BY <1>9 DEF vars, Expiry, Live
<1> QED
  BY <1>1, <1>2, <1>3, <1>4, <1>5, <1>6, <1>7, <1>8, <1>9 DEF Next

\* The heap of the web server implements a timer: a tick runs what has expired, the
\* earliest first and each once, and leaves nothing that has expired, with any number
\* of timers and whatever was added, extended, run early and cleared before
\* (heaptimer.cpp:56-150).
THEOREM HeapImplementsTimer ==
    ASSUME HeapTimerAssumption
    PROVE  Spec => ImplementsTimer
<1>1. Init => HeapInv
  BY HeapInit
<1>2. HeapInv /\ [Next]_vars => HeapInv'
  BY HeapStep
<1>3. Init => Abstract!Init
  <2> SUFFICES ASSUME Init PROVE Abstract!Init
    OBVIOUS
  <2>1. DOMAIN ref = {} /\ now = 0 /\ ticking = FALSE
    BY EmptySeq, LenProperties DEF Init
  <2>2. Expiry = [id \in Ids |-> Never]
    BY <2>1 DEF Expiry
  <2> QED
    BY <2>1, <2>2, AbstractForm
<1>4. HeapInv /\ [Next]_vars => [Abstract!Next]_(Abstract!vars)
  BY TimerStep
<1> QED
  BY <1>1, <1>2, <1>3, <1>4, PTL DEF Spec, ImplementsTimer, Abstract!Spec
-----------------------------------------------------------------------------
(* The string search.                                                      *)

LEMMA OneLess ==
    ASSUME NEW u \in Nat, NEW v \in Nat, NEW b \in v + 2 .. u + 1
    PROVE  b \in 1 .. u + 1 /\ b - 1 \in v + 1 .. u
OBVIOUS

LEMMA InBetween ==
    ASSUME NEW u \in Nat, NEW w \in 0 .. u, NEW v \in Nat, NEW b \in v + 2 .. u
    PROVE  /\ b \in 1 .. u
           /\ b \notin w + 2 .. u /\ b # w + 1 => b - 1 \in 0 .. w /\ b - 1 \in v + 1 .. w - 1
OBVIOUS

LEMMA ShiftedBy ==
    ASSUME NEW m \in Nat, NEW u \in Nat, NEW a \in 0 .. u, NEW x \in 1 .. a
    PROVE  x \in 1 .. u /\ u - a + x \in 1 .. u /\ m - u + (u - a + x) = m - a + x
OBVIOUS

LEMMA BelowIs ==
    ASSUME NEW w \in Int, NEW pos \in 0 .. w - 1
    PROVE  pos \in Int /\ 0 <= pos /\ pos < w
OBVIOUS

LEMMA SkippedPlace ==
    ASSUME NEW u \in Nat, NEW m \in Nat, NEW v \in 0 .. u - 1, NEW pos \in m - u .. m - v - 1,
           pos # m - u
    PROVE  m - pos \in v + 1 .. u - 1 /\ m - (m - pos) = pos /\ m - pos \in 0 .. u
OBVIOUS

LEMMA BackBy ==
    ASSUME NEW m \in Nat, NEW u \in Nat, NEW v \in 0 .. u - 1, NEW pos \in Int,
           pos < m - v
    PROVE  /\ pos >= m - u /\ pos # m - u => m - pos \in v + 1 .. u - 1
           /\ 0 <= pos =>
                pos \in 0 .. m - u - 1 \/ pos \in m - u .. m - v - 1
           /\ m - (m - pos) = pos
OBVIOUS

\* A border of one letter more ends with the same letter as its prefix, and without
\* that letter is a border.
LEMMA ShorterBorder ==
    ASSUME NEW len \in Nat, NEW b \in 1 .. len, K!Border(len + 1, b)
    PROVE  K!Border(len, b - 1) /\ kmpPattern[len + 1] = kmpPattern[b]
<1>1. ASSUME NEW x \in 1 .. b - 1
      PROVE  kmpPattern[len - (b - 1) + x] = kmpPattern[x]
  <2>1. x \in 1 .. b /\ len + 1 - b + x = len - (b - 1) + x
    OBVIOUS
  <2> QED
    BY <2>1 DEF K!Border
<1>2. b \in 1 .. b /\ len + 1 - b + b = len + 1
  OBVIOUS
<1> QED
  BY <1>1, <1>2 DEF K!Border

LEMMA LongerBorder ==
    ASSUME NEW len \in Nat, NEW b \in 0 .. len, K!Border(len, b),
           kmpPattern[len + 1] = kmpPattern[b + 1]
    PROVE  K!Border(len + 1, b + 1)
<1>1. ASSUME NEW x \in 1 .. b + 1
      PROVE  kmpPattern[len + 1 - (b + 1) + x] = kmpPattern[x]
  <2>1. CASE x = b + 1
    BY <2>1
  <2>2. CASE x # b + 1
    <3>1. x \in 1 .. b /\ len + 1 - (b + 1) + x = len - b + x
      BY <2>2
    <3> QED
      BY <3>1 DEF K!Border
  <2> QED
    BY <2>1, <2>2
<1> QED
  BY <1>1 DEF K!Border

\* The shorter borders are those of the border.
LEMMA BorderOfBorder ==
    ASSUME NEW len \in Nat, NEW b \in 0 .. len, K!Border(len, b), NEW c \in 0 .. b
    PROVE  K!Border(len, c) <=> K!Border(b, c)
<1>1. ASSUME NEW x \in 1 .. c
      PROVE  kmpPattern[len - c + x] = kmpPattern[b - c + x]
  <2>1. b - c + x \in 1 .. b /\ len - b + (b - c + x) = len - c + x
    OBVIOUS
  <2> QED
    BY <2>1 DEF K!Border
<1> QED
  BY <1>1 DEF K!Border

\* Where the prefix table is not changed it stays right.
LEMMA EntryStays ==
    ASSUME NEW len \in Nat, K!RightEntry(len), kmpPattern' = kmpPattern,
           kmpNext'[len - 1] = kmpNext[len - 1]
    PROVE  K!RightEntry(len)'
BY DEF K!RightEntry, K!Border

\* The first loop, when it goes on to the next letter: of the borders of the letters up
\* to that one, none is left that is longer than the new kmpJ.
LEMMA NextEntry ==
    ASSUME K!KmpInv, K!Prefix, kmpI' = kmpI + 1
    PROVE  K!KmpInv'
<1>1. /\ kmpPc = "prefix" /\ kmpPc' = "prefix" /\ kmpI < Len(kmpPattern)
      /\ UNCHANGED <<kmpText, kmpPattern, kmpK, kmpResult>> /\ kmpK = 0
  BY DEF K!Prefix, K!lenP, K!KmpInv, K!PrefixInv
<1>2. /\ kmpI \in 1 .. Len(kmpPattern) /\ kmpJ \in 0 .. kmpI - 1
      /\ \A len \in 1 .. kmpI : K!RightEntry(len)
      /\ \A m \in kmpI .. Len(kmpPattern) - 1 : kmpNext[m] = 0
      /\ K!Border(kmpI, kmpJ)
      /\ \A b \in kmpJ + 2 .. kmpI : ~K!Border(kmpI + 1, b)
  BY <1>1 DEF K!KmpInv, K!PrefixInv, K!lenP
<1>3. /\ kmpPattern \in Seq(KmpLetters) /\ kmpText \in Seq(KmpLetters)
      /\ kmpNext \in [0 .. Len(kmpPattern) - 1 -> Nat] /\ Len(kmpPattern) \in Nat
  BY LenProperties DEF K!KmpInv, K!KmpTypeOK, K!lenP
<1>4. /\ kmpNext' \in [0 .. Len(kmpPattern) - 1 -> Nat]
      /\ \A m \in 0 .. Len(kmpPattern) - 1 : m # kmpI => kmpNext'[m] = kmpNext[m]
      /\ kmpNext'[kmpI] = kmpJ' /\ kmpJ' \in 0 .. kmpI
      /\ \/ kmpJ' = kmpJ + 1 /\ kmpPattern[kmpI + 1] = kmpPattern[kmpJ + 1]
         \/ kmpJ' = 0 /\ kmpJ = 0 /\ kmpPattern[kmpI + 1] # kmpPattern[1]
  <2>1. CASE K!At(kmpPattern, kmpI) = K!At(kmpPattern, kmpJ)
    <3>1. kmpNext' = [kmpNext EXCEPT ![kmpI] = kmpJ + 1] /\ kmpJ' = kmpJ + 1
      BY <2>1, <1>2 DEF K!Prefix
    <3> QED
      BY <3>1, <2>1, <1>1, <1>2, <1>3 DEF K!At
  <2>2. CASE K!At(kmpPattern, kmpI) # K!At(kmpPattern, kmpJ)
    <3>1. kmpJ = 0 /\ kmpJ' = 0 /\ kmpNext' = kmpNext
      BY <2>2, <1>2 DEF K!Prefix
    <3> QED
      BY <3>1, <2>2, <1>1, <1>2, <1>3 DEF K!At
  <2> QED
    BY <2>1, <2>2
<1>5. K!Border(kmpI + 1, kmpJ')
  <2>1. CASE kmpJ' = kmpJ + 1 /\ kmpPattern[kmpI + 1] = kmpPattern[kmpJ + 1]
    BY <2>1, <1>2, LongerBorder
  <2>2. CASE kmpJ' = 0
    BY <2>2 DEF K!Border
  <2> QED
    BY <2>1, <2>2, <1>4
<1>6. \A b \in kmpJ' + 1 .. kmpI : ~K!Border(kmpI + 1, b)
  <2> SUFFICES ASSUME NEW b \in kmpJ' + 1 .. kmpI, K!Border(kmpI + 1, b)
               PROVE  FALSE
    OBVIOUS
  <2>1. CASE kmpJ' = kmpJ + 1
    BY <2>1, <1>2
  <2>2. CASE kmpJ = 0 /\ kmpJ' = 0 /\ kmpPattern[kmpI + 1] # kmpPattern[1]
    <3>1. CASE b = 1
      BY <3>1, <2>2, <1>2, ShorterBorder
    <3>2. CASE b # 1
      <4>1. b \in kmpJ + 2 .. kmpI
        BY <3>2, <2>2, <1>2
      <4> QED
        BY <4>1, <1>2
    <3> QED
      BY <3>1, <3>2
  <2> QED
    BY <2>1, <2>2, <1>4
<1>7. ASSUME NEW len, len = kmpI + 1
      PROVE  K!RightEntry(len)'
  <2>1. kmpNext'[len - 1] = kmpJ' /\ kmpJ' \in 0 .. len - 1
    BY <1>2, <1>4, <1>7
  <2>2. \A b \in kmpJ' + 1 .. len - 1 : ~K!Border(len, b)
    BY <1>2, <1>6, <1>7
  <2>3. K!Border(len, kmpJ')
    BY <1>5, <1>7
  <2> QED
    BY <1>1, <2>1, <2>2, <2>3 DEF K!RightEntry, K!Border
<1>8. \A len \in 1 .. kmpI + 1 : K!RightEntry(len)'
  <2> SUFFICES ASSUME NEW len \in 1 .. kmpI + 1 PROVE K!RightEntry(len)'
    OBVIOUS
  <2>1. CASE len = kmpI + 1
    BY <2>1, <1>7, Zenon
  <2>2. CASE len # kmpI + 1
    <3>1. len \in 1 .. kmpI /\ len \in Nat /\ len - 1 # kmpI
          /\ len - 1 \in 0 .. Len(kmpPattern) - 1
      BY <2>2, <1>1, <1>2, <1>3
    <3> QED
      BY <3>1, <1>1, <1>2, <1>4, EntryStays
  <2> QED
    BY <2>1, <2>2
<1>9. \A b \in kmpJ' + 2 .. kmpI + 1 : ~K!Border(kmpI + 2, b)
  <2> SUFFICES ASSUME NEW b \in kmpJ' + 2 .. kmpI + 1, K!Border(kmpI + 2, b)
               PROVE  FALSE
    OBVIOUS
  <2>0. kmpI \in Nat /\ kmpJ' \in Nat
    BY <1>2, <1>4
  <2>1. b \in 1 .. kmpI + 1 /\ b - 1 \in kmpJ' + 1 .. kmpI
    BY <2>0, OneLess
  <2>3. kmpI + 1 \in Nat /\ kmpI + 2 = (kmpI + 1) + 1
    BY <2>0
  <2>2. K!Border(kmpI + 1, b - 1)
    BY <2>1, <2>3, ShorterBorder
  <2> QED
    BY <2>1, <2>2, <1>6
<1>10. K!PrefixInv'
  <2>1. kmpI' \in 1 .. Len(kmpPattern) /\ kmpJ' \in 0 .. kmpI' - 1
    BY <1>1, <1>2, <1>3, <1>4
  <2>2. \A m \in kmpI' .. Len(kmpPattern) - 1 : kmpNext'[m] = 0
    BY <1>1, <1>2, <1>3, <1>4
  <2>3. K!Border(kmpI', kmpJ') /\ \A b \in kmpJ' + 2 .. kmpI' : ~K!Border(kmpI' + 1, b)
    <3>1. kmpI' + 1 = kmpI + 2
      BY <1>2
    <3> QED
      BY <3>1, <1>5, <1>9
  <2> QED
    BY <2>1, <2>2, <2>3, <1>1, <1>8 DEF K!PrefixInv, K!lenP, K!Border
<1>11. K!KmpTypeOK'
  BY <1>1, <1>3, <1>4 DEF K!KmpTypeOK, K!lenP
<1> QED
  BY <1>1, <1>10, <1>11 DEF K!KmpInv, K!MatchInv, K!PrefixTable, K!FirstOccurrence

\* The first loop, when it tries a shorter border: those in between are borders of the
\* longer one, and its entry is right.
LEMMA ShorterTry ==
    ASSUME K!KmpInv, K!Prefix, kmpI' = kmpI
    PROVE  K!KmpInv'
<1>1. /\ kmpPc = "prefix" /\ kmpPc' = "prefix" /\ kmpI < Len(kmpPattern)
      /\ UNCHANGED <<kmpText, kmpPattern, kmpK, kmpResult>> /\ kmpK = 0
  BY DEF K!Prefix, K!lenP, K!KmpInv, K!PrefixInv
<1>2. /\ kmpI \in 1 .. Len(kmpPattern) /\ kmpJ \in 0 .. kmpI - 1
      /\ \A len \in 1 .. kmpI : K!RightEntry(len)
      /\ \A m \in kmpI .. Len(kmpPattern) - 1 : kmpNext[m] = 0
      /\ K!Border(kmpI, kmpJ)
      /\ \A b \in kmpJ + 2 .. kmpI : ~K!Border(kmpI + 1, b)
  BY <1>1 DEF K!KmpInv, K!PrefixInv, K!lenP
<1>3. /\ kmpJ > 0 /\ kmpJ' = kmpNext[kmpJ - 1] /\ UNCHANGED <<kmpNext, kmpI>>
      /\ kmpPattern[kmpI + 1] # kmpPattern[kmpJ + 1]
  <2>1. kmpI # kmpI + 1
    BY <1>2
  <2> QED
    BY <2>1, <1>2 DEF K!Prefix, K!At
<1>4. kmpJ \in 1 .. kmpI /\ K!RightEntry(kmpJ)
  BY <1>2, <1>3
<1>5. kmpJ' \in 0 .. kmpJ - 1 /\ K!Border(kmpJ, kmpJ')
      /\ \A b \in kmpJ' + 1 .. kmpJ - 1 : ~K!Border(kmpJ, b)
  BY <1>3, <1>4 DEF K!RightEntry
<1>6. K!Border(kmpI, kmpJ')
  <2>1. kmpI \in Nat /\ kmpJ \in 0 .. kmpI /\ kmpJ' \in 0 .. kmpJ
    BY <1>2, <1>5
  <2> QED
    BY <2>1, <1>2, <1>5, BorderOfBorder
<1>7. \A b \in kmpJ' + 2 .. kmpI : ~K!Border(kmpI + 1, b)
  <2> SUFFICES ASSUME NEW b \in kmpJ' + 2 .. kmpI, K!Border(kmpI + 1, b)
               PROVE  FALSE
    OBVIOUS
  <2>a. kmpI \in Nat /\ kmpJ \in 0 .. kmpI /\ kmpJ' \in Nat
    BY <1>2, <1>5
  <2>0. b \in 1 .. kmpI
    BY <2>a, InBetween
  <2>1. K!Border(kmpI, b - 1) /\ kmpPattern[kmpI + 1] = kmpPattern[b]
    BY <2>a, <2>0, ShorterBorder
  <2>2. b \notin kmpJ + 2 .. kmpI /\ b # kmpJ + 1
    BY <2>1, <1>2, <1>3
  <2>3. b - 1 \in 0 .. kmpJ /\ b - 1 \in kmpJ' + 1 .. kmpJ - 1
    BY <2>a, <2>2, InBetween
  <2>4. K!Border(kmpJ, b - 1)
    BY <2>a, <2>1, <2>3, <1>2, BorderOfBorder
  <2> QED
    BY <2>3, <2>4, <1>5
<1>8. \A len \in 1 .. kmpI : K!RightEntry(len)'
  <2> SUFFICES ASSUME NEW len \in 1 .. kmpI PROVE K!RightEntry(len)'
    OBVIOUS
  <2>1. len \in Nat /\ kmpI \in Nat
    BY <1>2
  <2> QED
    BY <2>1, <1>1, <1>2, <1>3, EntryStays
<1>9. K!PrefixInv'
  <2>1. kmpJ' \in 0 .. kmpI - 1
    BY <1>2, <1>5
  <2> QED
    BY <2>1, <1>1, <1>2, <1>3, <1>6, <1>7, <1>8 DEF K!PrefixInv, K!lenP, K!Border
<1>10. K!KmpTypeOK'
  BY <1>1, <1>3 DEF K!KmpInv, K!KmpTypeOK, K!lenP
<1> QED
  BY <1>1, <1>9, <1>10 DEF K!KmpInv, K!MatchInv, K!PrefixTable, K!FirstOccurrence

\* What the entries that are right say of the table.
LEMMA TableIsRight ==
    ASSUME kmpPattern \in Seq(KmpLetters),
           \A len \in 1 .. Len(kmpPattern) : K!RightEntry(len)
    PROVE  \A m \in 0 .. Len(kmpPattern) - 1 :
              /\ K!IsAt(SubSeq(kmpPattern, 1, kmpNext[m]), kmpPattern, m + 1 - kmpNext[m])
              /\ \A length \in kmpNext[m] + 1 .. m :
                    ~K!IsAt(SubSeq(kmpPattern, 1, length), kmpPattern, m + 1 - length)
<1>1. Len(kmpPattern) \in Nat
  BY LenProperties
<1>2. ASSUME NEW len \in 1 .. Len(kmpPattern), NEW b \in 0 .. len - 1
      PROVE  K!IsAt(SubSeq(kmpPattern, 1, b), kmpPattern, len - b) <=> K!Border(len, b)
  <2>1. /\ Len(SubSeq(kmpPattern, 1, b)) = b
        /\ \A x \in 1 .. b : SubSeq(kmpPattern, 1, b)[x] = kmpPattern[x]
    BY <1>1, SubSeqProperties
  <2>2. len - b + b <= Len(kmpPattern)
    BY <1>1
  <2> QED
    BY <2>1, <2>2 DEF K!IsAt, K!Border
<1>3. ASSUME NEW m \in 0 .. Len(kmpPattern) - 1
      PROVE  /\ K!IsAt(SubSeq(kmpPattern, 1, kmpNext[m]), kmpPattern, m + 1 - kmpNext[m])
             /\ \A length \in kmpNext[m] + 1 .. m :
                   ~K!IsAt(SubSeq(kmpPattern, 1, length), kmpPattern, m + 1 - length)
  <2>1. m + 1 \in 1 .. Len(kmpPattern) /\ (m + 1) - 1 = m
    BY <1>1
  <2>2. /\ kmpNext[m] \in 0 .. (m + 1) - 1 /\ K!Border(m + 1, kmpNext[m])
        /\ \A b \in kmpNext[m] + 1 .. m : ~K!Border(m + 1, b)
    BY <2>1 DEF K!RightEntry
  <2>3. ASSUME NEW b \in kmpNext[m] + 1 .. m
        PROVE  b \in 0 .. (m + 1) - 1
    BY <2>1, <2>2
  <2>4. K!IsAt(SubSeq(kmpPattern, 1, kmpNext[m]), kmpPattern, m + 1 - kmpNext[m])
    BY <2>1, <2>2, <1>2
  <2>5. ASSUME NEW b \in kmpNext[m] + 1 .. m
        PROVE  ~K!IsAt(SubSeq(kmpPattern, 1, b), kmpPattern, m + 1 - b)
    BY <2>1, <2>2, <2>3, <1>2
  <2> QED
    BY <2>4, <2>5
<1> QED
  BY <1>3

\* The pattern falls back to the longest border of the letters that are the same: at a
\* place that is skipped it would begin with a longer one.
LEMMA FallBackSkips ==
    ASSUME NEW u \in Nat, NEW m \in Nat, u <= m, m < Len(kmpText), u < Len(kmpPattern),
           Len(kmpText) \in Nat, Len(kmpPattern) \in Nat,
           \A x \in 1 .. u : kmpText[m - u + x] = kmpPattern[x],
           kmpText[m + 1] # kmpPattern[u + 1],
           NEW v \in 0 .. u - 1, \A b \in v + 1 .. u - 1 : ~K!Border(u, b),
           NEW pos \in m - u .. m - v - 1
    PROVE  ~K!IsAt(kmpPattern, kmpText, pos)
<1> SUFFICES ASSUME K!IsAt(kmpPattern, kmpText, pos)
             PROVE  FALSE
  OBVIOUS
<1>1. pos \in Nat
  OBVIOUS
<1>2. \A x \in 1 .. Len(kmpPattern) : kmpText[pos + x] = kmpPattern[x]
  BY DEF K!IsAt
<1>3. CASE pos = m - u
  <2>1. u + 1 \in 1 .. Len(kmpPattern) /\ pos + (u + 1) = m + 1
    BY <1>3
  <2>2. kmpText[pos + (u + 1)] = kmpPattern[u + 1]
    BY <2>1, <1>2
  <2> QED
    BY <2>1, <2>2
<1>4. CASE pos # m - u
  <2> DEFINE a == m - pos
  <2>1. a \in v + 1 .. u - 1 /\ m - a = pos
    BY <1>4, SkippedPlace, Zenon
  <2>2. a \in 0 .. u
    BY <1>4, SkippedPlace, Zenon
  <2> HIDE DEF a
  <2>3. ASSUME NEW x \in 1 .. a
        PROVE  kmpPattern[u - a + x] = kmpPattern[x]
    <3>1. x \in 1 .. u /\ u - a + x \in 1 .. u /\ m - u + (u - a + x) = pos + x
      BY <2>1, <2>2, ShiftedBy
    <3>2. kmpText[m - u + (u - a + x)] = kmpPattern[u - a + x]
      BY <3>1
    <3>3. x \in 1 .. Len(kmpPattern)
      BY <3>1
    <3> QED
      BY <3>1, <3>2, <3>3, <1>2
  <2> QED
    BY <2>1, <2>3 DEF K!Border
<1> QED
  BY <1>3, <1>4

\* The second loop.
LEMMA MatchStep ==
    ASSUME K!KmpInv, K!Match
    PROVE  K!KmpInv'
<1>1. /\ kmpPc = "match" /\ kmpPc' = "match"
      /\ kmpK < Len(kmpText) /\ kmpI < Len(kmpPattern)
      /\ UNCHANGED <<kmpText, kmpPattern, kmpJ, kmpNext, kmpResult>>
  BY DEF K!Match, K!lenP, K!lenT
<1>2. /\ Len(kmpPattern) > 0 /\ \A len \in 1 .. Len(kmpPattern) : K!RightEntry(len)
      /\ kmpK \in 0 .. Len(kmpText) /\ kmpI \in 0 .. Len(kmpPattern) /\ kmpI <= kmpK
      /\ \A x \in 1 .. kmpI : kmpText[kmpK - kmpI + x] = kmpPattern[x]
      /\ \A pos \in 0 .. kmpK - kmpI - 1 : ~K!IsAt(kmpPattern, kmpText, pos)
  BY <1>1 DEF K!KmpInv, K!MatchInv, K!lenP, K!lenT
<1>3. /\ kmpText \in Seq(KmpLetters) /\ kmpPattern \in Seq(KmpLetters)
      /\ Len(kmpText) \in Nat /\ Len(kmpPattern) \in Nat
  BY LenProperties DEF K!KmpInv, K!KmpTypeOK
<1>4. /\ kmpK' \in 0 .. Len(kmpText) /\ kmpI' \in 0 .. Len(kmpPattern) /\ kmpI' <= kmpK'
      /\ \A x \in 1 .. kmpI' : kmpText[kmpK' - kmpI' + x] = kmpPattern[x]
      /\ \A pos \in 0 .. kmpK' - kmpI' - 1 : ~K!IsAt(kmpPattern, kmpText, pos)
  <2>1. CASE /\ kmpPattern[kmpI + 1] = kmpText[kmpK + 1]
             /\ kmpI' = kmpI + 1 /\ kmpK' = kmpK + 1
    <3>1. /\ kmpK' \in 0 .. Len(kmpText) /\ kmpI' \in 0 .. Len(kmpPattern)
          /\ kmpI' <= kmpK' /\ kmpK' - kmpI' = kmpK - kmpI
      BY <2>1, <1>1, <1>2, <1>3
    <3>2. ASSUME NEW x \in 1 .. kmpI'
          PROVE  kmpText[kmpK - kmpI + x] = kmpPattern[x]
      <4>1. CASE x = kmpI + 1
        <5>1. kmpK - kmpI + x = kmpK + 1
          BY <4>1, <1>2, <1>3
        <5> QED
          BY <5>1, <4>1, <2>1
      <4>2. CASE x # kmpI + 1
        <5>1. x \in 1 .. kmpI
          BY <4>2, <2>1, <1>2, <1>3
        <5> QED
          BY <5>1, <1>2
      <4> QED
        BY <4>1, <4>2
    <3> QED
      BY <3>1, <3>2, <1>2
  <2>2. CASE /\ kmpPattern[kmpI + 1] # kmpText[kmpK + 1] /\ kmpI > 0
             /\ kmpI' = kmpNext[kmpI - 1] /\ kmpK' = kmpK
    <3>0. kmpI \in Nat /\ kmpK \in Nat
      BY <1>2, <1>3
    <3>i. kmpI \in 1 .. Len(kmpPattern)
      BY <3>0, <2>2, <1>2, <1>3
    <3>1. K!RightEntry(kmpI)
      BY <3>i, <1>2
    <3>2. kmpI' \in 0 .. kmpI - 1 /\ K!Border(kmpI, kmpI')
          /\ \A b \in kmpI' + 1 .. kmpI - 1 : ~K!Border(kmpI, b)
      BY <2>2, <3>1 DEF K!RightEntry
    <3>3. kmpI' \in 0 .. Len(kmpPattern) /\ kmpI' <= kmpK
      BY <3>0, <3>2, <1>2, <1>3
    <3>4. ASSUME NEW x \in 1 .. kmpI'
          PROVE  kmpText[kmpK - kmpI' + x] = kmpPattern[x]
      <4>0. kmpI' \in 0 .. kmpI
        BY <3>0, <3>2
      <4>1. kmpI - kmpI' + x \in 1 .. kmpI
            /\ kmpK - kmpI + (kmpI - kmpI' + x) = kmpK - kmpI' + x
        BY <3>0, <4>0, ShiftedBy
      <4>2. kmpText[kmpK - kmpI' + x] = kmpPattern[kmpI - kmpI' + x]
        BY <4>1, <1>2
      <4> QED
        BY <4>2, <3>2 DEF K!Border
    <3>5. ASSUME NEW pos \in 0 .. kmpK - kmpI' - 1
          PROVE  ~K!IsAt(kmpPattern, kmpText, pos)
      <4>a. kmpK - kmpI' \in Int
        BY <3>0, <3>2
      <4>0. pos \in Int /\ 0 <= pos /\ pos < kmpK - kmpI'
        BY <4>a, BelowIs
      <4>1. pos \in 0 .. kmpK - kmpI - 1 \/ pos \in kmpK - kmpI .. kmpK - kmpI' - 1
        BY <3>0, <3>2, <4>0, BackBy
      <4> QED
        BY <4>1, <3>0, <3>2, <2>2, <1>1, <1>2, <1>3, FallBackSkips
    <3> QED
      BY <3>3, <3>4, <3>5, <2>2, <1>2
  <2>3. CASE /\ kmpPattern[kmpI + 1] # kmpText[kmpK + 1] /\ kmpI = 0
             /\ kmpI' = kmpI /\ kmpK' = kmpK + 1
    <3>1. /\ kmpK' \in 0 .. Len(kmpText) /\ kmpI' \in 0 .. Len(kmpPattern)
          /\ kmpI' <= kmpK' /\ kmpI' = 0 /\ kmpK' - kmpI' - 1 = kmpK
          /\ kmpK - kmpI - 1 = kmpK - 1 /\ kmpK \in Nat
      BY <2>3, <1>1, <1>2, <1>3
    <3>2. ASSUME NEW pos \in 0 .. kmpK
          PROVE  ~K!IsAt(kmpPattern, kmpText, pos)
      <4>1. CASE pos = kmpK
        <5>1. 1 \in 1 .. Len(kmpPattern)
          BY <1>2, <1>3
        <5> QED
          BY <5>1, <4>1, <2>3 DEF K!IsAt
      <4>2. CASE pos # kmpK
        <5>1. pos \in 0 .. kmpK - 1
          BY <4>2, <3>1
        <5> QED
          BY <5>1, <3>1, <1>2
      <4> QED
        BY <4>1, <4>2
    <3>3. \A x \in 1 .. kmpI' : kmpText[kmpK' - kmpI' + x] = kmpPattern[x]
      BY <3>1
    <3> QED
      BY <3>1, <3>2, <3>3
  <2> QED
    BY <2>1, <2>2, <2>3 DEF K!Match, K!At, K!FallBack
<1>5. \A len \in 1 .. Len(kmpPattern) : K!RightEntry(len)'
  <2> SUFFICES ASSUME NEW len \in 1 .. Len(kmpPattern) PROVE K!RightEntry(len)'
    OBVIOUS
  <2> QED
    BY <1>1, <1>2, <1>3, EntryStays
<1>6. K!MatchInv'
  BY <1>1, <1>2, <1>4, <1>5 DEF K!MatchInv, K!lenP, K!lenT, K!IsAt
<1>7. K!PrefixTable'
  BY <1>1, <1>3, <1>5, TableIsRight DEF K!PrefixTable, K!KmpInv, K!lenP
<1>8. K!KmpTypeOK'
  BY <1>1, <1>3 DEF K!KmpInv, K!KmpTypeOK, K!lenP
<1> QED
  BY <1>1, <1>6, <1>7, <1>8 DEF K!KmpInv, K!PrefixInv, K!FirstOccurrence

\* The end of the search.
LEMMA MatchEndsStep ==
    ASSUME K!KmpInv, K!MatchEnds
    PROVE  K!KmpInv'
<1>1. /\ kmpPc = "match" /\ kmpPc' = "done"
      /\ kmpK >= Len(kmpText) \/ kmpI >= Len(kmpPattern)
      /\ kmpResult' = IF kmpI = Len(kmpPattern) THEN kmpK - kmpI ELSE -1
      /\ UNCHANGED <<kmpText, kmpPattern, kmpI, kmpJ, kmpK, kmpNext>>
  BY DEF K!MatchEnds, K!lenP, K!lenT
<1>2. /\ Len(kmpPattern) > 0
      /\ kmpK \in 0 .. Len(kmpText) /\ kmpI \in 0 .. Len(kmpPattern) /\ kmpI <= kmpK
      /\ \A x \in 1 .. kmpI : kmpText[kmpK - kmpI + x] = kmpPattern[x]
      /\ \A pos \in 0 .. kmpK - kmpI - 1 : ~K!IsAt(kmpPattern, kmpText, pos)
  BY <1>1 DEF K!KmpInv, K!MatchInv, K!lenP, K!lenT
<1>3. Len(kmpText) \in Nat /\ Len(kmpPattern) \in Nat
  BY LenProperties DEF K!KmpInv, K!KmpTypeOK
<1>4. ASSUME kmpResult' # -1
      PROVE  K!IsAt(kmpPattern, kmpText, kmpResult')
  <2>1. kmpI = Len(kmpPattern) /\ kmpResult' = kmpK - kmpI
    BY <1>1, <1>4
  <2>2. kmpK - kmpI + Len(kmpPattern) <= Len(kmpText)
    BY <2>1, <1>2, <1>3
  <2> QED
    BY <2>1, <2>2, <1>2 DEF K!IsAt
<1>5. ASSUME NEW pos \in 0 .. Len(kmpText), K!IsAt(kmpPattern, kmpText, pos)
      PROVE  kmpResult' \in 0 .. pos
  <2>1. pos + Len(kmpPattern) <= Len(kmpText)
    BY <1>5 DEF K!IsAt
  <2>2. pos >= kmpK - kmpI
    BY <1>2, <1>3, <1>5
  <2>3. kmpI = Len(kmpPattern)
    BY <2>1, <2>2, <1>1, <1>2, <1>3
  <2> QED
    BY <2>2, <2>3, <1>1, <1>2, <1>3
<1>6. K!FirstOccurrence'
  BY <1>1, <1>4, <1>5 DEF K!FirstOccurrence, K!lenT, K!IsAt
<1>7. K!PrefixTable'
  BY <1>1 DEF K!KmpInv, K!PrefixTable, K!lenP
<1>8. K!KmpTypeOK'
  BY <1>1 DEF K!KmpInv, K!KmpTypeOK, K!lenP
<1> QED
  BY <1>1, <1>6, <1>7, <1>8 DEF K!KmpInv, K!PrefixInv, K!MatchInv

\* kmp finds where the pattern first is in the text, and -1 if it is nowhere, with a
\* right prefix table, for every alphabet, text and pattern (string.c:44).
THEOREM SearchIsRight == K!Spec => [](K!PrefixTable /\ K!FirstOccurrence)
<1>1. K!Init => K!KmpInv
  <2> SUFFICES ASSUME K!Init PROVE K!KmpInv
    OBVIOUS
  <2>1. /\ kmpText \in Seq(KmpLetters) /\ kmpPattern \in Seq(KmpLetters)
        /\ Len(kmpPattern) \in Nat /\ Len(kmpText) \in Nat
    <3>1. ASSUME NEW max, NEW s \in K!TextsUpTo(max)
          PROVE  s \in Seq(KmpLetters)
      <4>1. PICK m \in 0 .. max : s \in [1 .. m -> KmpLetters]
        BY DEF K!TextsUpTo
      <4>2. m \in Nat
        OBVIOUS
      <4> QED
        BY <4>1, <4>2, SeqDef
    <3>2. kmpText \in K!TextsUpTo(KmpMaxText) /\ kmpPattern \in K!TextsUpTo(KmpMaxPattern)
      BY DEF K!Init
    <3> QED
      BY <3>1, <3>2, LenProperties
  <2>2. /\ kmpPc = IF Len(kmpPattern) = 0 THEN "done" ELSE "prefix"
        /\ kmpI = 1 /\ kmpJ = 0 /\ kmpK = 0 /\ kmpResult = 0
        /\ kmpNext = [pos \in 0 .. Len(kmpPattern) - 1 |-> 0]
    BY DEF K!Init, K!lenP
  <2>3. K!KmpTypeOK
    BY <2>1, <2>2 DEF K!KmpTypeOK, K!lenP
  <2>4. (K!RightEntry(1) /\ K!Border(1, 0) /\ K!FirstOccurrence) \/ Len(kmpPattern) = 0
    BY <2>1, <2>2 DEF K!RightEntry, K!Border, K!FirstOccurrence
  <2>5. K!PrefixInv
    BY <2>1, <2>2, <2>4 DEF K!PrefixInv, K!lenP
  <2>6. K!FirstOccurrence
    BY <2>1, <2>2 DEF K!FirstOccurrence, K!IsAt, K!lenT
  <2>7. K!PrefixTable
    BY <2>1, <2>2 DEF K!PrefixTable, K!lenP
  <2> QED
    BY <2>2, <2>3, <2>5, <2>6, <2>7 DEF K!KmpInv, K!MatchInv
<1>2. K!KmpInv /\ [K!Next]_(K!vars) => K!KmpInv'
  <2> SUFFICES ASSUME K!KmpInv, [K!Next]_(K!vars) PROVE K!KmpInv'
    OBVIOUS
  <2>1. CASE K!Prefix
    <3>1. kmpI' = kmpI + 1 \/ kmpI' = kmpI
      BY <2>1 DEF K!Prefix
    <3> QED
      BY <3>1, <2>1, NextEntry, ShorterTry
  <2>2. CASE K!PrefixEnds
    <3>1. /\ kmpPc = "prefix" /\ kmpPc' = "match" /\ kmpI >= Len(kmpPattern) /\ kmpI' = 0
          /\ UNCHANGED <<kmpText, kmpPattern, kmpJ, kmpK, kmpNext, kmpResult>>
      BY <2>2 DEF K!PrefixEnds, K!lenP
    <3>2. /\ kmpI = Len(kmpPattern) /\ kmpI > 0 /\ kmpK = 0
          /\ \A len \in 1 .. Len(kmpPattern) : K!RightEntry(len)
      BY <3>1 DEF K!KmpInv, K!PrefixInv, K!lenP
    <3>3. kmpPattern \in Seq(KmpLetters) /\ kmpText \in Seq(KmpLetters) /\ Len(kmpText) \in Nat
      BY LenProperties DEF K!KmpInv, K!KmpTypeOK
    <3>4. \A len \in 1 .. Len(kmpPattern) : K!RightEntry(len)'
      <4> SUFFICES ASSUME NEW len \in 1 .. Len(kmpPattern) PROVE K!RightEntry(len)'
        OBVIOUS
      <4> QED
        BY <3>1, <3>2, EntryStays
    <3>5. K!MatchInv'
      BY <3>1, <3>2, <3>3, <3>4 DEF K!MatchInv, K!lenP, K!lenT
    <3>6. K!PrefixTable'
      BY <3>1, <3>2, <3>3, TableIsRight DEF K!PrefixTable, K!lenP
    <3>7. K!KmpTypeOK'
      BY <3>1 DEF K!KmpInv, K!KmpTypeOK, K!lenP
    <3> QED
      BY <3>1, <3>5, <3>6, <3>7 DEF K!KmpInv, K!PrefixInv, K!FirstOccurrence
  <2>3. CASE K!Match
    BY <2>3, MatchStep
  <2>4. CASE K!MatchEnds
    BY <2>4, MatchEndsStep
  <2>5. CASE UNCHANGED K!vars
    <3>1. K!KmpTypeOK'
      BY <2>5 DEF K!vars, K!KmpInv, K!KmpTypeOK, K!lenP
    <3>4. K!PrefixTable'
      BY <2>5 DEF K!vars, K!KmpInv, K!PrefixTable, K!lenP
    <3>5. K!FirstOccurrence'
      BY <2>5 DEF K!vars, K!KmpInv, K!FirstOccurrence, K!lenT
    <3>2. K!PrefixInv'
      BY <2>5 DEF K!vars, K!KmpInv, K!PrefixInv, K!RightEntry, K!Border, K!lenP
    <3>3. K!MatchInv'
      BY <2>5 DEF K!vars, K!KmpInv, K!MatchInv, K!RightEntry, K!Border, K!IsAt, K!lenP, K!lenT
    <3> QED
      BY <3>1, <3>2, <3>3, <3>4, <3>5 DEF K!KmpInv
  <2> QED
    BY <2>1, <2>2, <2>3, <2>4, <2>5 DEF K!Next
<1>3. K!KmpInv => K!PrefixTable /\ K!FirstOccurrence
  BY DEF K!KmpInv
<1> QED
  BY <1>1, <1>2, <1>3, PTL DEF K!Spec
-----------------------------------------------------------------------------
(* The buffers.                                                            *)

LEMMA SeqOfLength ==
    ASSUME NEW S, NEW len \in Nat, NEW s \in [1 .. len -> S]
    PROVE  s \in Seq(S) /\ Len(s) = len
<1>1. s \in Seq(S)
  BY SeqDef
<1>2. Len(s) \in Nat /\ 1 .. Len(s) = 1 .. len
  BY <1>1, LenProperties
<1> QED
  BY <1>1, <1>2

\* The text from position r to before w.
Stretch(b, r, w) == [x \in 1 .. w - r |-> b[r + x - 1]]

LEMMA StretchAt ==
    ASSUME NEW b, NEW r, NEW w, NEW x \in 1 .. w - r
    PROVE  Stretch(b, r, w)[x] = b[r + x - 1]
BY DEF Stretch

LEMMA StretchLength ==
    ASSUME NEW b, NEW r \in Nat, NEW w \in Nat, r <= w
    PROVE  Len(Stretch(b, r, w)) = w - r
<1> DEFINE S == {b[r + x - 1] : x \in 1 .. w - r}
<1>1. w - r \in Nat
  OBVIOUS
<1>2. Stretch(b, r, w) \in [1 .. w - r -> S]
  BY DEF Stretch
<1> HIDE DEF S
<1> QED
  BY <1>1, <1>2, SeqOfLength

LEMMA StretchType ==
    ASSUME NEW S, NEW b, NEW r \in Nat, NEW w \in Nat, r <= w, \A p \in r .. w - 1 : b[p] \in S
    PROVE  Stretch(b, r, w) \in Seq(S)
<1>1. w - r \in Nat
  OBVIOUS
<1>2. \A x \in 1 .. w - r : r + x - 1 \in r .. w - 1
  OBVIOUS
<1>3. Stretch(b, r, w) \in [1 .. w - r -> S]
  BY <1>2 DEF Stretch
<1> QED
  BY <1>1, <1>3, SeqOfLength

LEMMA StretchIs ==
    ASSUME NEW S, NEW u \in Seq(S), NEW c, NEW q \in Nat,
           \A x \in 1 .. Len(u) : c[q + x - 1] = u[x]
    PROVE  Stretch(c, q, q + Len(u)) = u
<1>1. (q + Len(u)) - q = Len(u)
  BY LenProperties
<1>2. Stretch(c, q, q + Len(u)) = [x \in 1 .. (q + Len(u)) - q |-> c[q + x - 1]]
  BY DEF Stretch
<1>3. Stretch(c, q, q + Len(u)) = [x \in 1 .. Len(u) |-> c[q + x - 1]]
  BY <1>1, <1>2, Zenon
<1>4. u = [x \in 1 .. Len(u) |-> u[x]]
  BY LenProperties
<1> QED
  BY <1>3, <1>4

LEMMA SuffixIs ==
    ASSUME NEW S, NEW s \in Seq(S), NEW k \in 0 .. Len(s)
    PROVE  /\ SubSeq(s, k + 1, Len(s)) \in Seq(S)
           /\ Len(SubSeq(s, k + 1, Len(s))) = Len(s) - k
           /\ \A x \in 1 .. Len(s) - k : SubSeq(s, k + 1, Len(s))[x] = s[k + x]
<1>1. Len(s) \in Nat /\ k \in Nat /\ k <= Len(s)
  BY LenProperties
<1>2. \A x \in k + 1 .. Len(s) : s[x] \in S
  BY <1>1, LenProperties
<1>3. /\ SubSeq(s, k + 1, Len(s)) \in Seq(S)
      /\ Len(SubSeq(s, k + 1, Len(s)))
            = IF k + 1 <= Len(s) THEN Len(s) - (k + 1) + 1 ELSE 0
      /\ \A x \in 1 .. Len(s) - (k + 1) + 1 :
            SubSeq(s, k + 1, Len(s))[x] = s[k + 1 + x - 1]
  BY <1>1, <1>2, SubSeqProperties
<1>4. (IF k + 1 <= Len(s) THEN Len(s) - (k + 1) + 1 ELSE 0) = Len(s) - k
  BY <1>1
<1>5. \A x \in 1 .. Len(s) - k : x \in 1 .. Len(s) - (k + 1) + 1 /\ k + 1 + x - 1 = k + x
  BY <1>1
<1> QED
  BY <1>3, <1>4, <1>5

ByteSet == 0 .. Labels - 1

\* The text of b from r to before w has q as a position, k behind its first.
Within(b, r, w, k, q) ==
    /\ r \in Nat /\ w \in Nat /\ \A p \in r .. w - 1 : b[p] \in ByteSet
    /\ k \in Nat /\ q = r + k /\ q <= w

\* A reading position that goes on takes from the front.
LEMMA StretchTaken ==
    ASSUME NEW b, NEW r, NEW w, NEW k, NEW q, Within(b, r, w, k, q)
    PROVE  Stretch(b, q, w) = SubSeq(Stretch(b, r, w), k + 1, Len(Stretch(b, r, w)))
<1> r \in Nat /\ w \in Nat /\ (\A p \in r .. w - 1 : b[p] \in ByteSet)
        /\ k \in Nat /\ q = r + k /\ q <= w
  BY DEF Within
<1> DEFINE s == Stretch(b, r, w)
           t == Stretch(b, r + k, w)
           u == SubSeq(s, k + 1, Len(s))
<1>1. s \in Seq(ByteSet) /\ Len(s) = w - r /\ \A x \in 1 .. w - r : s[x] = b[r + x - 1]
  <2>1. r <= w
    OBVIOUS
  <2>2. s \in Seq(ByteSet)
    BY <2>1, StretchType
  <2>3. Len(s) = w - r
    BY <2>1, StretchLength
  <2>4. \A x \in 1 .. w - r : s[x] = b[r + x - 1]
    BY Zenon DEF Stretch
  <2> QED
    BY <2>2, <2>3, <2>4
<1>2. /\ t \in Seq(ByteSet) /\ Len(t) = w - (r + k)
      /\ \A x \in 1 .. w - (r + k) : t[x] = b[(r + k) + x - 1]
  <2>1. r + k \in Nat /\ \A p \in r + k .. w - 1 : b[p] \in ByteSet
    OBVIOUS
  <2>2. t \in Seq(ByteSet)
    BY <2>1, StretchType
  <2>3. Len(t) = w - (r + k)
    BY <2>1, StretchLength
  <2>4. \A x \in 1 .. w - (r + k) : t[x] = b[(r + k) + x - 1]
    BY Zenon DEF Stretch
  <2> QED
    BY <2>2, <2>3, <2>4
<1> HIDE DEF s, t
<1>3. /\ u \in Seq(ByteSet) /\ Len(u) = w - (r + k)
      /\ \A x \in 1 .. w - (r + k) : u[x] = s[k + x]
  <2>1. k \in 0 .. Len(s) /\ Len(s) - k = w - (r + k)
    BY <1>1
  <2>2. /\ u \in Seq(ByteSet) /\ Len(u) = Len(s) - k
        /\ \A x \in 1 .. Len(s) - k : u[x] = s[k + x]
    BY <2>1, <1>1, SuffixIs
  <2> HIDE DEF u
  <2> QED
    BY <2>1, <2>2
<1> HIDE DEF u
<1>4. ASSUME NEW x \in 1 .. w - (r + k)
      PROVE  t[x] = u[x]
  <2>1. k + x \in 1 .. w - r /\ r + (k + x) - 1 = (r + k) + x - 1
    OBVIOUS
  <2> QED
    BY <2>1, <1>1, <1>2, <1>3
<1>5. t = u
  BY <1>2, <1>3, <1>4, SeqEqual
<1> QED
  BY <1>5 DEF s, t, u

\* From position q on, c has the text of b from r to before w and then the k bytes of piece,
\* without the oldest, and ends before e.
Fed(b, r, w, k, piece, drop, c, q, e) ==
    /\ r \in Nat /\ w \in Nat /\ r <= w /\ \A p \in r .. w - 1 : b[p] \in ByteSet
    /\ k \in Nat /\ piece \in [1 .. k -> ByteSet] /\ drop \in 0 .. w - r + k /\ q \in Nat
    /\ e = q + (w - r + k - drop)
    /\ \A x \in 1 .. w - r + k - drop :
          c[q + x - 1] = IF x + drop <= w - r THEN b[r + (x + drop) - 1]
                         ELSE piece[x + drop - (w - r)]

\* The text of b and piece behind it, without the oldest.
Joined(b, r, w, piece, drop) ==
    SubSeq(Stretch(b, r, w) \o piece, drop + 1, Len(Stretch(b, r, w) \o piece))

\* A text that is fed stands behind the old one, of which the oldest are dropped.
LEMMA StretchFed ==
    ASSUME NEW b, NEW r, NEW w, NEW k, NEW piece, NEW drop, NEW c, NEW q, NEW e,
           Fed(b, r, w, k, piece, drop, c, q, e)
    PROVE  Stretch(c, q, e) = Joined(b, r, w, piece, drop)
<1> r \in Nat /\ w \in Nat /\ r <= w /\ (\A p \in r .. w - 1 : b[p] \in ByteSet)
        /\ k \in Nat /\ piece \in [1 .. k -> ByteSet] /\ drop \in 0 .. w - r + k /\ q \in Nat
  BY DEF Fed
<1>0. /\ e = q + (w - r + k - drop)
      /\ \A x \in 1 .. w - r + k - drop :
                  c[q + x - 1] = IF x + drop <= w - r THEN b[r + (x + drop) - 1]
                                 ELSE piece[x + drop - (w - r)]
  BY DEF Fed
<1> DEFINE len == w - r + k - drop
           s == Stretch(b, r, w)
           t == Stretch(c, q, q + len)
           whole == s \o piece
           u == SubSeq(whole, drop + 1, Len(whole))
<1>1. s \in Seq(ByteSet) /\ Len(s) = w - r /\ \A x \in 1 .. w - r : s[x] = b[r + x - 1]
  <2>1. s \in Seq(ByteSet)
    BY StretchType
  <2>2. Len(s) = w - r
    BY StretchLength
  <2>3. \A x \in 1 .. w - r : s[x] = b[r + x - 1]
    BY Zenon DEF Stretch
  <2> QED
    BY <2>1, <2>2, <2>3
<1>2. piece \in Seq(ByteSet) /\ Len(piece) = k
  BY SeqOfLength
<1> HIDE DEF s
<1>3. /\ whole \in Seq(ByteSet) /\ Len(whole) = w - r + k
      /\ \A x \in 1 .. w - r + k : whole[x] = IF x <= w - r THEN s[x] ELSE piece[x - (w - r)]
  <2>1. /\ whole \in Seq(ByteSet) /\ Len(whole) = Len(s) + Len(piece)
        /\ \A x \in 1 .. Len(s) + Len(piece) :
              whole[x] = IF x <= Len(s) THEN s[x] ELSE piece[x - Len(s)]
    BY <1>1, <1>2, ConcatProperties
  <2> HIDE DEF whole
  <2> QED
    BY <2>1, <1>1, <1>2
<1> HIDE DEF whole
<1>4. len \in Nat
  OBVIOUS
<1>5. /\ u \in Seq(ByteSet) /\ Len(u) = len
      /\ \A x \in 1 .. len : u[x] = whole[drop + x]
  <2>1. drop \in 0 .. Len(whole) /\ Len(whole) - drop = len
    BY <1>3
  <2>2. /\ u \in Seq(ByteSet) /\ Len(u) = Len(whole) - drop
        /\ \A x \in 1 .. Len(whole) - drop : u[x] = whole[drop + x]
    BY <2>1, <1>3, SuffixIs
  <2> HIDE DEF u
  <2> QED
    BY <2>1, <2>2
<1> HIDE DEF u
<1>6. ASSUME NEW x \in 1 .. len
      PROVE  c[q + x - 1] = u[x]
  <2>1. drop + x = x + drop /\ x + drop \in 1 .. w - r + k
    OBVIOUS
  <2>5. u[x] = whole[x + drop]
    BY <2>1, <1>5
  <2>2. u[x] = IF x + drop <= w - r THEN s[x + drop] ELSE piece[x + drop - (w - r)]
    BY <2>1, <2>5, <1>3
  <2>3. CASE x + drop <= w - r
    <3>1. x + drop \in 1 .. w - r
      BY <2>1, <2>3
    <3>2. s[x + drop] = b[r + (x + drop) - 1]
      BY <3>1, <1>1
    <3> QED
      BY <3>2, <2>2, <2>3, <1>0
  <2>4. CASE ~(x + drop <= w - r)
    BY <2>2, <2>4, <1>0
  <2> QED
    BY <2>3, <2>4
<1>7. t = u
  <2>1. Stretch(c, q, q + Len(u)) = u
    BY <1>5, <1>6, StretchIs
  <2> QED
    BY <2>1, <1>5
<1> QED
  BY <1>0, <1>7 DEF len, s, t, u, whole, Joined

\* What is in the buffers, and the steps of ByteStream read for them.
Bytes == Stretch(bytes, bytesRead, bytesWritten)
RingBytes  == Stretch(ring, ringRead, ringWritten)

Byte(from, x)   == (from + x) % Labels
Pieces(from, k) == [x \in 1 .. k |-> Byte(from, x)]

LEMMA ByteType ==
    ASSUME Labels \in Nat \ {0}, NEW from \in Nat
    PROVE  \A x \in Nat : Byte(from, x) \in ByteSet
BY DEF Byte, ByteSet

LEMMA PieceType ==
    ASSUME Labels \in Nat \ {0}, NEW from \in Nat, NEW k \in Nat
    PROVE  Pieces(from, k) \in [1 .. k -> ByteSet]
BY ByteType DEF Pieces

LEMMA BufferForm ==
    /\ B!Abstract!Init <=> Bytes = << >> /\ bytesFed = 0
    /\ \A k : B!Abstract!Feed(k) <=>
          /\ Bytes' = SubSeq(Bytes \o Pieces(bytesFed, k),
                             (IF k > MaxPiece THEN k - MaxPiece ELSE 0) + 1,
                             Len(Bytes \o Pieces(bytesFed, k)))
          /\ bytesFed' = Byte(bytesFed, k)
    /\ \A k : B!Abstract!Take(k) <=>
          Bytes' = SubSeq(Bytes, k + 1, Len(Bytes)) /\ UNCHANGED bytesFed
    /\ B!Abstract!Next <=>
          \/ \E k \in 0 .. MaxPiece : B!Abstract!Feed(k)
          \/ \E k \in 0 .. Len(Bytes) : B!Abstract!Take(k)
    /\ UNCHANGED B!Abstract!vars <=> UNCHANGED <<Bytes, bytesFed>>
BY DEF B!Abstract!Init, B!Abstract!Feed, B!Abstract!Take, B!Abstract!Next, B!Abstract!vars,
       B!Abstract!From, B!ReadableBytes, Bytes, Stretch, Pieces, Byte

\* The input from the j-th byte on is behind position w of b, and what was there is d
\* places further to the front.
Behind(b, w, j, k, d) ==
    /\ bytesRead' = bytesRead - d /\ bytesWritten' = w - d + (k - j + 1)
    /\ bytesSize' \in 0 .. MaxSize /\ bytesWritten' <= bytesSize'
    /\ bytes' \in [0 .. bytesSize' - 1 -> ByteSet]
    /\ \A p \in 0 .. bytesWritten' - 1 :
          bytes'[p] = IF p + d < w THEN b[p + d] ELSE Byte(bytesFed, j + (p + d - w))

LEMMA AppendPlaces ==
    ASSUME B!BufferSizes, B!TypeOK,
           NEW b \in [0 .. bytesSize - 1 -> ByteSet], NEW w \in bytesRead .. bytesSize,
           NEW j \in Nat, NEW k \in Nat, j >= 1, j <= k + 1, B!AppendInput(b, w, j, k)
    PROVE  \E d \in {0, bytesRead} : Behind(b, w, j, k, d)
<1> DEFINE len == k - j + 1
           grown == [p \in 0 .. w + len |-> IF p < bytesSize THEN b[p] ELSE 0]
           moved == [p \in DOMAIN b |-> IF p < w - bytesRead THEN b[p + bytesRead] ELSE b[p]]
           put(c, at) == [p \in DOMAIN c |-> IF p \in at .. at + k - j THEN Byte(bytesFed, j + p - at) ELSE c[p]]
<1>1. /\ bytesSize \in Nat /\ bytesRead \in Nat /\ bytesFed \in Nat /\ bytesSize <= MaxSize
      /\ w \in Nat /\ bytesRead <= w /\ w <= bytesSize /\ len \in Nat
      /\ DOMAIN b = 0 .. bytesSize - 1 /\ MaxSize \in Nat /\ Labels \in Nat \ {0}
  BY DEF ByteSet, B!TypeOK, B!BufferSizes
<1>2. 0 \in ByteSet /\ \A x \in Nat : Byte(bytesFed, x) \in ByteSet
  <2>1. 0 \in ByteSet
    BY <1>1 DEF ByteSet
  <2>2. \A x \in Nat : Byte(bytesFed, x) \in ByteSet
    BY <1>1, ByteType
  <2> QED
    BY <2>1, <2>2
<1>3. CASE len <= bytesSize - w
  <2>1. /\ bytes' = put(b, w) /\ bytesSize' = bytesSize /\ bytesRead' = bytesRead
        /\ bytesWritten' = w + len
    <3>1. ~(bytesSize - w < k - j + 1)
      BY <1>1, <1>3
    <3> QED
      BY <3>1 DEF B!AppendInput, B!Filled, B!Input, Byte
  <2>2. ASSUME NEW p \in 0 .. bytesSize - 1, p \in w .. w + k - j
        PROVE  Byte(bytesFed, j + p - w) \in ByteSet
    <3>1. j + p - w \in Nat
      BY <2>2, <1>1
    <3> QED
      BY <3>1, <1>2
  <2>3. bytes' \in [0 .. bytesSize - 1 -> ByteSet]
    BY <2>1, <2>2, <1>1, <1>2
  <2>4. ASSUME NEW p \in 0 .. w + len - 1
        PROVE  bytes'[p] = IF p + 0 < w THEN b[p + 0] ELSE Byte(bytesFed, j + (p + 0 - w))
    BY <2>1, <1>1, <1>3
  <2>5. /\ bytesRead' = bytesRead - 0 /\ bytesWritten' = w - 0 + (k - j + 1)
        /\ bytesSize' \in 0 .. MaxSize /\ bytesWritten' <= bytesSize'
        /\ bytesWritten' - 1 = w + len - 1 /\ bytesSize' - 1 = bytesSize - 1
    BY <2>1, <1>1, <1>3
  <2> HIDE DEF len
  <2> QED
    BY <2>3, <2>4, <2>5 DEF Behind
<1>4. CASE len > bytesSize - w /\ bytesSize - w + bytesRead < len
  <2>1. /\ bytes' = put(grown, w) /\ bytesSize' = w + len + 1 /\ bytesRead' = bytesRead
        /\ bytesWritten' = w + len /\ bytesSize' <= MaxSize
    BY <1>1, <1>4 DEF B!AppendInput, B!Filled, B!Input, Byte, B!MakeSpace, B!PrependableBytes
  <2>2. ASSUME NEW p \in 0 .. w + len, p \in w .. w + k - j
        PROVE  Byte(bytesFed, j + p - w) \in ByteSet
    <3>1. j + p - w \in Nat
      BY <2>2, <1>1
    <3> QED
      BY <3>1, <1>2
  <2>3. bytes' \in [0 .. bytesSize' - 1 -> ByteSet]
    <3>1. DOMAIN grown = 0 .. w + len /\ \A p \in 0 .. w + len : grown[p] \in ByteSet
      BY <1>1, <1>2
    <3>2. bytesSize' - 1 = w + len
      BY <2>1, <1>1
    <3> HIDE DEF grown
    <3>3. \A p \in 0 .. w + len : (IF p \in w .. w + k - j THEN Byte(bytesFed, j + p - w) ELSE grown[p]) \in ByteSet
      BY <2>2, <3>1
    <3> QED
      BY <2>1, <3>1, <3>2, <3>3
  <2>4. ASSUME NEW p \in 0 .. w + len - 1
        PROVE  bytes'[p] = IF p + 0 < w THEN b[p + 0] ELSE Byte(bytesFed, j + (p + 0 - w))
    BY <2>1, <1>1, <1>4
  <2>5. /\ bytesRead' = bytesRead - 0 /\ bytesWritten' = w - 0 + (k - j + 1)
        /\ bytesSize' \in 0 .. MaxSize /\ bytesWritten' <= bytesSize'
        /\ bytesWritten' - 1 = w + len - 1
    BY <2>1, <1>1
  <2> HIDE DEF len
  <2> QED
    BY <2>3, <2>4, <2>5 DEF Behind
<1>5. CASE len > bytesSize - w /\ ~(bytesSize - w + bytesRead < len)
  <2>1. /\ bytes' = put(moved, w - bytesRead) /\ bytesSize' = bytesSize /\ bytesRead' = 0
        /\ bytesWritten' = w - bytesRead + len
    BY <1>1, <1>5 DEF B!AppendInput, B!Filled, B!Input, Byte, B!MakeSpace, B!PrependableBytes
  <2>2. ASSUME NEW p \in 0 .. bytesSize - 1, p \in w - bytesRead .. w - bytesRead + k - j
        PROVE  Byte(bytesFed, j + p - (w - bytesRead)) \in ByteSet
    <3>1. j + p - (w - bytesRead) \in Nat
      BY <2>2, <1>1
    <3> QED
      BY <3>1, <1>2
  <2>3. bytes' \in [0 .. bytesSize - 1 -> ByteSet]
    <3>1. DOMAIN moved = 0 .. bytesSize - 1 /\ \A p \in 0 .. bytesSize - 1 : moved[p] \in ByteSet
      BY <1>1, <1>2
    <3>2. bytesSize' - 1 = bytesSize - 1
      BY <2>1, <1>1
    <3> HIDE DEF moved
    <3>3. \A p \in 0 .. bytesSize - 1 : (IF p \in w - bytesRead .. w - bytesRead + k - j THEN Byte(bytesFed, j + p - (w - bytesRead)) ELSE moved[p]) \in ByteSet
      BY <2>2, <3>1
    <3> QED
      BY <2>1, <3>1, <3>2, <3>3
  <2>4. ASSUME NEW p \in 0 .. w - bytesRead + len - 1
        PROVE  bytes'[p] = IF p + bytesRead < w THEN b[p + bytesRead]
                           ELSE Byte(bytesFed, j + (p + bytesRead - w))
    BY <2>1, <1>1, <1>5
  <2>5. /\ bytesRead' = bytesRead - bytesRead /\ bytesWritten' = w - bytesRead + (k - j + 1)
        /\ bytesSize' \in 0 .. MaxSize /\ bytesWritten' <= bytesSize'
        /\ bytesWritten' - 1 = w - bytesRead + len - 1 /\ bytesSize' - 1 = bytesSize - 1
    BY <2>1, <1>1, <1>5
  <2> HIDE DEF len
  <2> QED
    BY <2>3, <2>4, <2>5 DEF Behind
<1> QED
  BY <1>1, <1>3, <1>4, <1>5

\* The same for both ways to feed the buffer: the bytes that readv leaves on the stack
\* follow those it put behind writePos.
LEMMA BufferFed ==
    ASSUME B!BufferSizes, B!TypeOK, NEW k \in Nat, B!Append_(k) \/ B!ReadFd(k)
    PROVE  /\ \E d \in {0, bytesRead} :
                 /\ bytesRead' = bytesRead - d /\ bytesWritten' = bytesWritten - d + k
                 /\ bytesSize' \in 0 .. MaxSize /\ bytesWritten' <= bytesSize'
                 /\ bytes' \in [0 .. bytesSize' - 1 -> ByteSet]
                 /\ \A p \in 0 .. bytesWritten' - 1 :
                       bytes'[p] = IF p + d < bytesWritten THEN bytes[p + d]
                                   ELSE Byte(bytesFed, 1 + (p + d - bytesWritten))
           /\ bytesFed' = Byte(bytesFed, k)
<1> DEFINE w == bytesWritten
           v == bytesSize - bytesWritten
           b == [p \in DOMAIN bytes |-> IF p \in w .. w + v - 1 THEN Byte(bytesFed, 1 + p - w) ELSE bytes[p]]
<1>1. /\ bytesSize \in Nat /\ bytesRead \in Nat /\ bytesFed \in Nat /\ bytesSize <= MaxSize
      /\ w \in Nat /\ bytesRead <= w /\ w <= bytesSize /\ v \in Nat
      /\ bytes \in [0 .. bytesSize - 1 -> ByteSet] /\ MaxSize \in Nat /\ Labels \in Nat \ {0}
  BY DEF ByteSet, B!TypeOK, B!BufferSizes
<1>2. \A x \in Nat : Byte(bytesFed, x) \in ByteSet
  BY <1>1, ByteType
<1>3. CASE B!Append_(k)
  <2>1. B!AppendInput(bytes, bytesWritten, 1, k) /\ bytesFed' = Byte(bytesFed, k)
    BY <1>3 DEF B!Append_, Byte
  <2>2. bytesWritten \in bytesRead .. bytesSize /\ 1 <= k + 1 /\ k - 1 + 1 = k
    BY <1>1
  <2>3. PICK d \in {0, bytesRead} : Behind(bytes, bytesWritten, 1, k, d)
    <3>1. bytes \in [0 .. bytesSize - 1 -> ByteSet] /\ 1 \in Nat /\ 1 >= 1 /\ 1 <= k + 1
      BY <1>1
    <3> HIDE DEF w, v, b
    <3> QED
      BY <3>1, <2>1, <2>2, AppendPlaces
  <2>4. /\ bytesRead' = bytesRead - d /\ bytesWritten' = bytesWritten - d + (k - 1 + 1)
        /\ bytesSize' \in 0 .. MaxSize /\ bytesWritten' <= bytesSize'
        /\ bytes' \in [0 .. bytesSize' - 1 -> ByteSet]
        /\ \A p \in 0 .. bytesWritten' - 1 :
              bytes'[p] = IF p + d < bytesWritten THEN bytes[p + d]
                          ELSE Byte(bytesFed, 1 + (p + d - bytesWritten))
    BY <2>3 DEF Behind
  <2>5. bytesWritten' = bytesWritten - d + k
    BY <2>2, <2>4
  <2> HIDE DEF w, v, b
  <2> QED
    BY <2>1, <2>4, <2>5
<1>4. CASE B!ReadFd(k) /\ k <= v
  <2>1. /\ bytes' = [p \in DOMAIN bytes |-> IF p \in w .. w + k - 1 THEN Byte(bytesFed, 1 + p - w)
                                           ELSE bytes[p]]
        /\ bytesWritten' = w + k /\ bytesSize' = bytesSize /\ bytesRead' = bytesRead
        /\ bytesFed' = Byte(bytesFed, k)
    BY <1>4 DEF B!ReadFd, B!WritableBytes, B!Filled, B!Input, Byte
  <2>2. \A p \in 0 .. bytesSize - 1 : p \in w .. w + k - 1 => 1 + p - w \in Nat
    BY <1>1
  <2>3. bytes' \in [0 .. bytesSize - 1 -> ByteSet]
    BY <2>1, <2>2, <1>1, <1>2
  <2>4. ASSUME NEW p \in 0 .. w + k - 1
        PROVE  bytes'[p] = IF p + 0 < w THEN bytes[p + 0] ELSE Byte(bytesFed, 1 + (p + 0 - w))
    BY <2>1, <1>1, <1>4
  <2>5. /\ bytesRead' = bytesRead - 0 /\ bytesWritten' = w - 0 + k
        /\ bytesSize' \in 0 .. MaxSize /\ bytesWritten' <= bytesSize'
        /\ bytesWritten' - 1 = w + k - 1
    BY <2>1, <1>1, <1>4
  <2> HIDE DEF v, b
  <2> QED
    BY <2>1, <2>3, <2>4, <2>5
<1>5. CASE B!ReadFd(k) /\ ~(k <= v)
  <2>1. /\ B!AppendInput(b, bytesSize, v + 1, k)
        /\ bytesFed' = Byte(bytesFed, k)
    BY <1>5 DEF B!ReadFd, B!WritableBytes, B!Filled, B!Input, Byte
  <2>2. \A p \in 0 .. bytesSize - 1 : p \in w .. w + v - 1 => 1 + p - w \in Nat
    BY <1>1
  <2>3. b \in [0 .. bytesSize - 1 -> ByteSet]
    BY <2>2, <1>1, <1>2
  <2>4. /\ bytesSize \in bytesRead .. bytesSize /\ v + 1 \in Nat /\ v + 1 >= 1 /\ v + 1 <= k + 1
        /\ k - (v + 1) + 1 = k - v
    BY <1>1, <1>5
  <2>5. \A p \in 0 .. bytesSize - 1 : b[p] = IF p < w THEN bytes[p] ELSE Byte(bytesFed, 1 + (p - w))
    BY <1>1
  <2> HIDE DEF b
  <2>6. PICK d \in {0, bytesRead} : Behind(b, bytesSize, v + 1, k, d)
    <3>1. \A x \in Nat : x = v + 1 => \E d \in {0, bytesRead} : Behind(b, bytesSize, x, k, d)
      BY <2>1, <2>3, <2>4, AppendPlaces
    <3> QED
      BY <3>1, <2>4
  <2>7. /\ bytesRead' = bytesRead - d /\ bytesWritten' = bytesSize - d + (k - (v + 1) + 1)
        /\ bytesSize' \in 0 .. MaxSize /\ bytesWritten' <= bytesSize'
        /\ bytes' \in [0 .. bytesSize' - 1 -> ByteSet]
        /\ \A p \in 0 .. bytesWritten' - 1 :
              bytes'[p] = IF p + d < bytesSize THEN b[p + d]
                          ELSE Byte(bytesFed, (v + 1) + (p + d - bytesSize))
    BY <2>6 DEF Behind
  <2>8. d \in Nat /\ d <= w /\ bytesWritten' = w - d + k
    BY <2>7, <1>1, <1>5
  <2>9. ASSUME NEW p \in 0 .. bytesWritten' - 1
        PROVE  bytes'[p] = IF p + d < w THEN bytes[p + d] ELSE Byte(bytesFed, 1 + (p + d - w))
    <3>0. p \in Nat
      BY <2>8, <1>1
    <3>1. CASE p + d < bytesSize
      <4>1. p + d \in 0 .. bytesSize - 1
        BY <3>0, <3>1, <2>8, <1>1
      <4>2. bytes'[p] = b[p + d]
        BY <3>1, <2>7
      <4>3. b[p + d] = IF p + d < w THEN bytes[p + d] ELSE Byte(bytesFed, 1 + (p + d - w))
        BY <4>1, <3>0, <2>5, <2>8, <1>1
      <4> QED
        BY <4>2, <4>3
    <3>2. CASE ~(p + d < bytesSize)
      <4>1. ~(p + d < w) /\ (v + 1) + (p + d - bytesSize) = 1 + (p + d - w)
        BY <3>0, <3>2, <2>8, <1>1
      <4>2. bytes'[p] = Byte(bytesFed, (v + 1) + (p + d - bytesSize))
        BY <3>2, <2>7
      <4> QED
        BY <4>1, <4>2
    <3> QED
      BY <3>1, <3>2
  <2> HIDE DEF v
  <2> QED
    BY <2>1, <2>7, <2>8, <2>9
<1> QED
  BY <1>3, <1>4, <1>5

LEMMA BufferFeedStep ==
    ASSUME B!BufferSizes, B!TypeOK, NEW k \in 0 .. MaxPiece, B!Append_(k) \/ B!ReadFd(k)
    PROVE  B!TypeOK' /\ B!Abstract!Feed(k)
<1> DEFINE r == bytesRead
           w == bytesWritten
           piece == Pieces(bytesFed, k)
<1>1. /\ bytesSize \in Nat /\ r \in Nat /\ bytesFed \in Nat /\ w \in Nat /\ r <= w /\ w <= bytesSize
      /\ bytes \in [0 .. bytesSize - 1 -> ByteSet] /\ Labels \in Nat \ {0}
      /\ k \in Nat /\ ~(k > MaxPiece)
  BY DEF ByteSet, B!TypeOK, B!BufferSizes
<1>2. PICK d \in {0, bytesRead} :
              /\ bytesRead' = bytesRead - d /\ bytesWritten' = bytesWritten - d + k
              /\ bytesSize' \in 0 .. MaxSize /\ bytesWritten' <= bytesSize'
              /\ bytes' \in [0 .. bytesSize' - 1 -> ByteSet]
              /\ \A p \in 0 .. bytesWritten' - 1 :
                    bytes'[p] = IF p + d < bytesWritten THEN bytes[p + d]
                                ELSE Byte(bytesFed, 1 + (p + d - bytesWritten))
  BY <1>1, BufferFed
<1>3. bytesFed' = Byte(bytesFed, k)
  BY <1>1, BufferFed
<1>4. bytesRead' \in Nat /\ bytesRead' <= bytesWritten' /\ bytesWritten' \in Nat /\ d \in Nat
  BY <1>1, <1>2
<1>5. B!TypeOK'
  <2>1. bytesFed' \in ByteSet
    BY <1>1, <1>3, ByteType
  <2>2. bytesRead' \in 0 .. bytesWritten' /\ bytesWritten' \in 0 .. bytesSize'
    BY <1>2, <1>4
  <2> QED
    BY <2>1, <2>2, <1>2 DEF ByteSet, B!TypeOK
<1>6. piece \in [1 .. k -> ByteSet] /\ \A x \in 1 .. k : piece[x] = Byte(bytesFed, x)
  BY <1>1, PieceType DEF Pieces
<1> HIDE DEF piece
<1>7. ASSUME NEW x \in 1 .. w - r + k - 0
      PROVE  bytes'[bytesRead' + x - 1] = IF x + 0 <= w - r THEN bytes[r + (x + 0) - 1]
                                          ELSE piece[x + 0 - (w - r)]
  <2>1. /\ bytesRead' + x - 1 \in 0 .. bytesWritten' - 1
        /\ (bytesRead' + x - 1) + d = r + (x + 0) - 1
        /\ r + (x + 0) - 1 < w <=> x + 0 <= w - r
    BY <1>1, <1>2, <1>4
  <2>2. CASE x + 0 <= w - r
    BY <2>1, <2>2, <1>2
  <2>3. CASE ~(x + 0 <= w - r)
    <3> DEFINE p == bytesRead' + x - 1
    <3>1. x + 0 - (w - r) \in 1 .. k /\ 1 + (p + d - w) = x + 0 - (w - r) /\ ~(p + d < w)
      BY <2>1, <2>3, <1>1, <1>2, <1>4
    <3>2. bytes'[p] = IF p + d < w THEN bytes[p + d] ELSE Byte(bytesFed, 1 + (p + d - w))
      BY <2>1, <1>2
    <3> HIDE DEF p, w
    <3>3. bytes'[p] = Byte(bytesFed, 1 + (p + d - w))
      BY <3>1, <3>2
    <3>4. bytes'[p] = Byte(bytesFed, x + 0 - (w - r))
      BY <3>1, <3>3, Zenon
    <3>5. bytes'[p] = piece[x + 0 - (w - r)]
      BY <3>1, <3>4, <1>6
    <3> QED
      BY <3>5, <2>3 DEF p
  <2> QED
    BY <2>2, <2>3
<1>8. Fed(bytes, r, w, k, piece, 0, bytes', bytesRead', bytesWritten')
  <2>1. bytesWritten' = bytesRead' + (w - r + k - 0)
    BY <1>1, <1>2
  <2>2. \A p \in r .. w - 1 : bytes[p] \in ByteSet
    BY <1>1
  <2>3. 0 \in 0 .. w - r + k
    BY <1>1
  <2> HIDE DEF r, w
  <2> QED
    BY <2>1, <2>2, <2>3, <1>1, <1>4, <1>6, <1>7 DEF Fed
<1>9. Bytes' = SubSeq(Bytes \o piece, 0 + 1, Len(Bytes \o piece))
  <2>1. Stretch(bytes', bytesRead', bytesWritten') = Joined(bytes, r, w, piece, 0)
    BY <1>8, StretchFed
  <2> QED
    BY <2>1 DEF Bytes, Joined
<1> QED
  BY <1>1, <1>3, <1>5, <1>9, BufferForm DEF piece

LEMMA StretchNone ==
    ASSUME NEW b, NEW c, NEW r \in Nat, NEW w \in Nat
    PROVE  Stretch(b, r, r) = Stretch(c, w, w) /\ Stretch(b, r, r) = << >>
<1>1. r - r = 0 /\ w - w = 0
  OBVIOUS
<1>2. /\ Stretch(b, r, r) = [x \in 1 .. 0 |-> b[r + x - 1]]
      /\ Stretch(c, w, w) = [x \in 1 .. 0 |-> c[w + x - 1]]
  BY <1>1 DEF Stretch
<1>3. 1 .. 0 = {}
  OBVIOUS
<1> QED
  BY <1>2, <1>3

LEMMA BufferRetrieveStep ==
    ASSUME B!BufferSizes, B!TypeOK, NEW k \in Nat, B!Retrieve(k)
    PROVE  B!TypeOK' /\ k \in 0 .. Len(Bytes) /\ B!Abstract!Take(k)
<1>1. /\ bytesSize \in Nat /\ bytesRead \in Nat /\ bytesWritten \in Nat
      /\ bytesRead <= bytesWritten /\ bytesWritten <= bytesSize
      /\ bytes \in [0 .. bytesSize - 1 -> ByteSet]
  BY DEF ByteSet, B!TypeOK, B!BufferSizes
<1>2. /\ k <= bytesWritten - bytesRead /\ bytesRead' = bytesRead + k
      /\ UNCHANGED <<bytes, bytesSize, bytesWritten, bytesFed>>
  BY DEF B!Retrieve, B!ReadableBytes
<1>3. B!TypeOK'
  <2>1. bytesRead' \in 0 .. bytesWritten
    BY <1>1, <1>2
  <2> QED
    BY <2>1, <1>2 DEF B!TypeOK
<1>4. k \in 0 .. Len(Bytes)
  <2>1. Len(Bytes) = bytesWritten - bytesRead
    BY <1>1, StretchLength DEF Bytes
  <2> QED
    BY <2>1, <1>1, <1>2
<1>5. Bytes' = SubSeq(Bytes, k + 1, Len(Bytes))
  <2>1. \A p \in bytesRead .. bytesWritten - 1 : bytes[p] \in ByteSet
    BY <1>1
  <2>2. bytesRead' = bytesRead + k /\ bytesRead' <= bytesWritten
    BY <1>1, <1>2
  <2>3. Stretch(bytes, bytesRead', bytesWritten)
           = SubSeq(Stretch(bytes, bytesRead, bytesWritten), k + 1,
                    Len(Stretch(bytes, bytesRead, bytesWritten)))
    <3>1. Within(bytes, bytesRead, bytesWritten, k, bytesRead')
      BY <2>1, <2>2, <1>1 DEF Within
    <3> QED
      BY <3>1, StretchTaken
  <2> QED
    BY <2>3, <1>2 DEF Bytes
<1> QED
  BY <1>2, <1>3, <1>4, <1>5, BufferForm

LEMMA BufferRetrieveAllStep ==
    ASSUME B!BufferSizes, B!TypeOK, B!RetrieveAll
    PROVE  B!TypeOK' /\ \E x \in 0 .. Len(Bytes) : B!Abstract!Take(x)
<1>1. /\ bytesSize \in Nat /\ bytesRead \in Nat /\ bytesWritten \in Nat
      /\ bytesRead <= bytesWritten /\ bytesWritten <= bytesSize /\ bytesSize <= MaxSize
      /\ bytes \in [0 .. bytesSize - 1 -> ByteSet] /\ Labels \in Nat \ {0} /\ MaxSize \in Nat
  BY DEF ByteSet, B!TypeOK, B!BufferSizes
<1>2. /\ bytes' = [p \in 0 .. bytesSize - 1 |-> 0] /\ bytesRead' = 0 /\ bytesWritten' = 0
      /\ UNCHANGED <<bytesSize, bytesFed>>
  BY DEF B!RetrieveAll, B!Fresh
<1>3. B!TypeOK'
  <2>1. bytes' \in [0 .. bytesSize - 1 -> 0 .. Labels - 1]
    BY <1>1, <1>2
  <2> QED
    BY <2>1, <1>1, <1>2 DEF B!TypeOK
<1>4. PICK rest \in Nat : Len(Bytes) = rest /\ bytesRead + rest = bytesWritten
  <2>1. bytesWritten - bytesRead \in Nat /\ bytesRead + (bytesWritten - bytesRead) = bytesWritten
    BY <1>1
  <2>2. Len(Bytes) = bytesWritten - bytesRead
    BY <1>1, StretchLength DEF Bytes
  <2> QED
    BY <2>1, <2>2
<1>5. Bytes' = SubSeq(Bytes, rest + 1, Len(Bytes))
  <2>1. \A p \in bytesRead .. bytesWritten - 1 : bytes[p] \in ByteSet
    BY <1>1
  <2>2. bytesWritten = bytesRead + rest /\ bytesWritten <= bytesWritten
    BY <1>1, <1>4
  <2>3. Stretch(bytes, bytesWritten, bytesWritten)
           = SubSeq(Stretch(bytes, bytesRead, bytesWritten), rest + 1,
                    Len(Stretch(bytes, bytesRead, bytesWritten)))
    <3>1. Within(bytes, bytesRead, bytesWritten, rest, bytesWritten)
      BY <2>1, <2>2, <1>1 DEF Within
    <3> QED
      BY <3>1, StretchTaken
  <2>4. Stretch(bytes', 0, 0) = Stretch(bytes, bytesWritten, bytesWritten)
    BY <1>1, StretchNone
  <2> QED
    BY <2>3, <2>4, <1>2, <1>4 DEF Bytes
<1>6. B!Abstract!Take(rest)
  BY <1>2, <1>5, BufferForm
<1>7. rest \in 0 .. Len(Bytes)
  BY <1>4
<1> QED
  BY <1>3, <1>6, <1>7

LEMMA BufferInit ==
    ASSUME B!BufferSizes, B!Init
    PROVE  B!TypeOK /\ B!Abstract!Init
<1>1. /\ bytesSize = FirstSize /\ bytes = [p \in 0 .. FirstSize - 1 |-> 0] /\ bytesRead = 0
      /\ bytesWritten = 0 /\ bytesFed = 0
  BY DEF B!Init, B!Fresh
<1>2. FirstSize \in 0 .. MaxSize /\ 0 \in 0 .. Labels - 1 /\ 0 \in 0 .. FirstSize /\ 0 \in 0 .. 0
  BY DEF B!BufferSizes
<1>3. B!TypeOK
  BY <1>1, <1>2 DEF B!TypeOK
<1>4. Bytes = << >>
  BY <1>1, StretchNone DEF Bytes
<1> QED
  BY <1>1, <1>3, <1>4, BufferForm

LEMMA BufferStep ==
    ASSUME B!BufferSizes, B!TypeOK, [B!Next]_(B!vars)
    PROVE  B!TypeOK' /\ (B!Abstract!Next \/ UNCHANGED B!Abstract!vars)
<1>1. CASE UNCHANGED B!vars
  <2>1. UNCHANGED <<bytes, bytesSize, bytesRead, bytesWritten, bytesFed>>
    BY <1>1 DEF B!vars
  <2>2. UNCHANGED <<Bytes, bytesFed>>
    BY <2>1 DEF Bytes
  <2> QED
    BY <2>1, <2>2, BufferForm DEF B!TypeOK
<1>2. ASSUME NEW k \in 0 .. MaxPiece, B!Append_(k) \/ B!ReadFd(k)
      PROVE  B!TypeOK' /\ B!Abstract!Next
  BY <1>2, BufferFeedStep, BufferForm
<1>3. ASSUME NEW k \in 1 .. MaxSize, B!Retrieve(k)
      PROVE  B!TypeOK' /\ B!Abstract!Next
  <2>1. k \in Nat
    BY DEF B!BufferSizes
  <2> QED
    BY <2>1, <1>3, BufferRetrieveStep, BufferForm
<1>4. CASE B!RetrieveAll
  BY <1>4, BufferRetrieveAllStep, BufferForm
<1> QED
  BY <1>1, <1>2, <1>3, <1>4 DEF B!Next

\* The positions of the growing buffer stay in order, and its bytes come out in the order
\* they went in, each once, through every growth, move to the front and scattered read:
\* for every first and greatest size and every length of a piece.
THEOREM BufferImplementsStream ==
    ASSUME B!BufferSizes
    PROVE  B!Spec => []B!TypeOK /\ B!ImplementsStream
<1>1. B!Init => B!TypeOK /\ B!Abstract!Init
  BY BufferInit
<1>2. B!TypeOK /\ [B!Next]_(B!vars)
         => B!TypeOK' /\ (B!Abstract!Next \/ UNCHANGED B!Abstract!vars)
  BY BufferStep
<1>3. B!Spec => []B!TypeOK
  BY <1>1, <1>2, PTL DEF B!Spec
<1>4. B!Spec => B!ImplementsStream
  BY <1>1, <1>2, <1>3, PTL DEF B!Spec, B!ImplementsStream, B!Abstract!Spec
<1> QED
  BY <1>3, <1>4

LEMMA RingForm ==
    /\ R!Abstract!Init <=> RingBytes = << >> /\ ringFed = 0
    /\ \A k : R!Abstract!Feed(k) <=>
          /\ RingBytes' = SubSeq(RingBytes \o Pieces(ringFed, k),
                            (IF k > RingSize - ringWritten THEN k - (RingSize - ringWritten)
                             ELSE 0) + 1,
                            Len(RingBytes \o Pieces(ringFed, k)))
          /\ ringFed' = Byte(ringFed, k)
    /\ \A k : R!Abstract!Take(k) <=>
          RingBytes' = SubSeq(RingBytes, k + 1, Len(RingBytes)) /\ UNCHANGED ringFed
    /\ R!Abstract!Next <=>
          \/ \E k \in 0 .. MaxPiece : R!Abstract!Feed(k)
          \/ \E k \in 0 .. Len(RingBytes) : R!Abstract!Take(k)
    /\ UNCHANGED R!Abstract!vars <=> UNCHANGED <<RingBytes, ringFed>>
BY DEF R!Abstract!Init, R!Abstract!Feed, R!Abstract!Take, R!Abstract!Next, R!Abstract!vars,
       R!Abstract!From, R!readableBytes, R!writableBytes, RingBytes, Stretch, Pieces, Byte

\* Both ways to feed the ring buffer: all bytes go to the front by as many places, x, as
\* there was no room for at the end, and the input is behind them.
LEMMA RingFed ==
    ASSUME R!RingSizes, R!TypeOK, NEW k \in Nat, R!Append_(k) \/ R!BufferReadFd(k), ~ringBroken'
    PROVE  /\ \E x \in Nat :
                 /\ x = IF k > RingSize - ringWritten THEN k - (RingSize - ringWritten) ELSE 0
                 /\ ringRead' = ringRead /\ ringWritten' = ringWritten - x + k
                 /\ ringWritten' <= RingSize
                 /\ ring' \in [0 .. RingSize - 1 -> ByteSet]
                 /\ \A p \in 0 .. ringWritten' - 1 :
                       ring'[p] = IF p + x < ringWritten THEN ring[p + x]
                                  ELSE Byte(ringFed, 1 + (p + x - ringWritten))
           /\ ringFed' = Byte(ringFed, k) /\ ringBroken' = ringBroken
<1>a. R!Append_(k) => /\ k <= RingSize /\ R!AppendInput(ring, ringWritten, 1, k)
                      /\ ringRead' = ringRead /\ ringFed' = Byte(ringFed, k)
                      /\ ringBroken' = ringBroken
  BY DEF R!Append_, R!AppendOverruns, Byte
<1>b. R!BufferReadFd(k) =>
         /\ k - (RingSize - ringWritten) <= RingSize
         /\ IF k <= RingSize - ringWritten
            THEN /\ ring' = R!Filled(ring, ringWritten, 1, k)
                 /\ ringWritten' = ringWritten + k
            ELSE R!AppendInput(R!Filled(ring, ringWritten, 1, RingSize - ringWritten), RingSize,
                               (RingSize - ringWritten) + 1, k)
         /\ ringRead' = ringRead /\ ringFed' = Byte(ringFed, k)
         /\ ringBroken' = ringBroken
  BY DEF R!BufferReadFd, R!AppendOverruns, R!writableBytes, Byte
<1>c. ringBroken' = ringBroken
  BY <1>a, <1>b
<1> DEFINE w == ringWritten
           v == RingSize - ringWritten
<1>1. /\ RingSize \in Nat /\ ringRead \in Nat /\ ringFed \in Nat /\ w \in Nat
      /\ ringRead <= w /\ w <= RingSize /\ v \in Nat
      /\ ring \in [0 .. RingSize - 1 -> ByteSet] /\ Labels \in Nat \ {0}
  BY DEF ByteSet, R!TypeOK, R!RingSizes
<1>2. \A x \in Nat : Byte(ringFed, x) \in ByteSet
  BY <1>1, ByteType
<1>3. CASE k <= v
  <2>1. /\ ring' = [p \in DOMAIN ring |-> IF p \in w .. w + k - 1 THEN Byte(ringFed, 1 + p - w)
                                          ELSE ring[p]]
        /\ ringWritten' = w + k /\ ringRead' = ringRead /\ ringFed' = Byte(ringFed, k)
    <3>1. CASE R!Append_(k)
      <4>1. ~(RingSize - w < k - 1 + 1) /\ w - 0 = w /\ w - 0 + (k - 1 + 1) = w + k
        BY <1>1, <1>3
      <4>2. /\ ring' = R!Filled(R!Moved(ring, 0), w - 0, 1, k)
            /\ ringWritten' = w - 0 + (k - 1 + 1) /\ ringRead' = ringRead
            /\ ringFed' = Byte(ringFed, k)
        BY <1>a, <3>1, <4>1 DEF R!AppendInput
      <4>3. R!Moved(ring, 0) = ring
        BY <1>1 DEF R!Moved
      <4> QED
        BY <4>1, <4>2, <4>3, <1>1 DEF R!Filled, R!Input, Byte
    <3>2. CASE R!BufferReadFd(k)
      BY <1>b, <3>2, <1>1, <1>3 DEF R!Filled, R!Input, Byte
    <3> QED
      BY <3>1, <3>2
  <2>2. \A p \in 0 .. RingSize - 1 : p \in w .. w + k - 1 => 1 + p - w \in Nat
    BY <1>1
  <2>3. ring' \in [0 .. RingSize - 1 -> ByteSet]
    BY <2>1, <2>2, <1>1, <1>2
  <2>4. ASSUME NEW p \in 0 .. w + k - 1
        PROVE  ring'[p] = IF p + 0 < w THEN ring[p + 0] ELSE Byte(ringFed, 1 + (p + 0 - w))
    BY <2>1, <1>1, <1>3
  <2>5. /\ 0 = IF k > v THEN k - v ELSE 0
        /\ ringWritten' = w - 0 + k /\ ringWritten' <= RingSize /\ ringWritten' - 1 = w + k - 1
    BY <2>1, <1>1, <1>3
  <2> QED
    BY <1>c, <2>1, <2>3, <2>4, <2>5
<1>4. PICK x \in Int : x = k - v
  BY <1>1
<1>5. CASE R!Append_(k) /\ ~(k <= v)
  <2>1. /\ k <= RingSize
        /\ ring' = R!Filled(R!Moved(ring, x), w - x, 1, k)
        /\ ringWritten' = w - x + k /\ ringRead' = ringRead /\ ringFed' = Byte(ringFed, k)
    <3>1. RingSize - w < k - 1 + 1 /\ k - 1 + 1 = k
      BY <1>1, <1>5
    <3>2. /\ k <= RingSize
          /\ ring' = R!Filled(R!Moved(ring, (k - 1 + 1) - (RingSize - w)), w - ((k - 1 + 1) - (RingSize - w)), 1, k)
          /\ ringWritten' = w - ((k - 1 + 1) - (RingSize - w)) + (k - 1 + 1)
          /\ ringRead' = ringRead /\ ringFed' = Byte(ringFed, k)
      BY <1>a, <3>1, <1>5 DEF R!AppendInput
    <3>3. (k - 1 + 1) - (RingSize - w) = x
      BY <3>1, <1>4
    <3> QED
      BY <3>1, <3>2, <3>3
  <2>2. x \in Nat /\ x <= w /\ w - x + k = RingSize /\ w - x + k - 1 = RingSize - 1
    BY <2>1, <1>1, <1>4, <1>5
  <2> DEFINE m == R!Moved(ring, x)
  <2>3. m \in [0 .. RingSize - 1 -> ByteSet] /\ \A p \in 0 .. w - x - 1 : m[p] = ring[p + x]
    BY <2>2, <1>1 DEF R!Moved
  <2> HIDE DEF m
  <2>4. ring' = [p \in 0 .. RingSize - 1 |-> IF p \in w - x .. RingSize - 1
                                             THEN Byte(ringFed, 1 + p - (w - x)) ELSE m[p]]
    <3>1. ring' = [p \in DOMAIN m |-> IF p \in w - x .. w - x + k - 1
                                       THEN Byte(ringFed, 1 + p - (w - x)) ELSE m[p]]
      BY <2>1, Zenon DEF R!Filled, R!Input, Byte, m
    <3>2. DOMAIN m = 0 .. RingSize - 1
      BY <2>3
    <3> QED
      BY <3>1, <3>2, <2>2, Zenon
  <2>5. \A p \in 0 .. RingSize - 1 : p \in w - x .. RingSize - 1 => 1 + p - (w - x) \in Nat
    BY <2>2, <1>1
  <2>6. ring' \in [0 .. RingSize - 1 -> ByteSet]
    BY <2>3, <2>4, <2>5, <1>1, <1>2
  <2>7. ASSUME NEW p \in 0 .. RingSize - 1
        PROVE  ring'[p] = IF p + x < w THEN ring[p + x] ELSE Byte(ringFed, 1 + (p + x - w))
    <3>1. p + x < w => p \in 0 .. w - x - 1 /\ p \notin w - x .. RingSize - 1
      BY <2>2, <1>1
    <3>2. ~(p + x < w) => p \in w - x .. RingSize - 1 /\ 1 + p - (w - x) = 1 + (p + x - w)
      BY <2>2, <1>1
    <3>3. ring'[p] = IF p \in w - x .. RingSize - 1 THEN Byte(ringFed, 1 + p - (w - x)) ELSE m[p]
      BY <2>4
    <3> QED
      BY <3>1, <3>2, <3>3, <2>3
  <2>8. x = (IF k > v THEN k - v ELSE 0) /\ ringWritten' = RingSize /\ RingSize <= RingSize
    BY <2>1, <2>2, <1>1, <1>4, <1>5
  <2> QED
    BY <1>c, <2>1, <2>2, <2>6, <2>7, <2>8
<1>6. CASE R!BufferReadFd(k) /\ ~(k <= v)
  <2> DEFINE b == R!Filled(ring, w, 1, v)
  <2>1. /\ x <= RingSize
        /\ ring' = R!Filled(R!Moved(b, x), RingSize - x, v + 1, k)
        /\ ringWritten' = RingSize - x + x /\ ringRead' = ringRead /\ ringFed' = Byte(ringFed, k)
    <3>1. R!AppendInput(b, RingSize, v + 1, k) /\ ringRead' = ringRead /\ ringFed' = Byte(ringFed, k)
      BY <1>b, <1>6
    <3>2. k - (v + 1) + 1 = x /\ RingSize - RingSize < x /\ x - (RingSize - RingSize) = x
      BY <1>1, <1>4, <1>6
    <3>3. x <= RingSize
      BY <1>b, <1>4, <1>6
    <3> HIDE DEF b, w, v
    <3> QED
      BY <3>1, <3>2, <3>3 DEF R!AppendInput
  <2>2. x \in Nat /\ w - x + k = RingSize /\ RingSize - x + x = RingSize /\ v + 1 \in Nat
    BY <2>1, <1>1, <1>4, <1>6
  <2>3. /\ b \in [0 .. RingSize - 1 -> ByteSet]
        /\ \A p \in 0 .. RingSize - 1 : b[p] = IF p < w THEN ring[p] ELSE Byte(ringFed, 1 + (p - w))
    <3>1. b = [p \in 0 .. RingSize - 1 |-> IF p \in w .. w + v - 1 THEN Byte(ringFed, 1 + p - w)
                                           ELSE ring[p]]
      BY <1>1 DEF R!Filled, R!Input, Byte
    <3> HIDE DEF b
    <3>2. \A p \in 0 .. RingSize - 1 : p \in w .. w + v - 1 => 1 + p - w \in Nat
      BY <1>1
    <3>3. b \in [0 .. RingSize - 1 -> ByteSet]
      BY <3>1, <3>2, <1>1, <1>2
    <3>4. \A p \in 0 .. RingSize - 1 : /\ p \in w .. w + v - 1 <=> ~(p < w)
                                        /\ 1 + p - w = 1 + (p - w)
      BY <1>1
    <3> QED
      BY <3>1, <3>3, <3>4
  <2> HIDE DEF b
  <2> DEFINE m == R!Moved(b, x)
  <2>4. m \in [0 .. RingSize - 1 -> ByteSet] /\ \A p \in 0 .. RingSize - x - 1 : m[p] = b[p + x]
    BY <2>2, <2>3, <1>1 DEF R!Moved
  <2> HIDE DEF m
  <2>5. ring' = [p \in 0 .. RingSize - 1 |-> IF p \in RingSize - x .. RingSize - 1
                                             THEN Byte(ringFed, v + 1 + p - (RingSize - x)) ELSE m[p]]
    <3>1. ring' = [p \in DOMAIN m |-> IF p \in RingSize - x .. RingSize - x + k - (v + 1)
                                       THEN Byte(ringFed, v + 1 + p - (RingSize - x)) ELSE m[p]]
      BY <2>1, Zenon DEF R!Filled, R!Input, Byte, m
    <3>2. DOMAIN m = 0 .. RingSize - 1
      BY <2>4
    <3>3. RingSize - x + k - (v + 1) = RingSize - 1
      BY <2>2, <1>1, <1>4
    <3> QED
      BY <3>1, <3>2, <3>3, Zenon
  <2>6. \A p \in 0 .. RingSize - 1 :
           p \in RingSize - x .. RingSize - 1 => v + 1 + p - (RingSize - x) \in Nat
    BY <2>2, <1>1
  <2>7. ring' \in [0 .. RingSize - 1 -> ByteSet]
    BY <2>4, <2>5, <2>6, <1>1, <1>2
  <2>8. ASSUME NEW p \in 0 .. RingSize - 1
        PROVE  ring'[p] = IF p + x < w THEN ring[p + x] ELSE Byte(ringFed, 1 + (p + x - w))
    <3>1. CASE p + x < RingSize
      <4>1. p + x \in 0 .. RingSize - 1 /\ p \in 0 .. RingSize - x - 1 /\ p \notin RingSize - x .. RingSize - 1
        BY <3>1, <2>2, <1>1
      <4>2. ring'[p] = b[p + x]
        BY <4>1, <2>4, <2>5
      <4> QED
        <5> DEFINE t == p + x
        <5>1. t \in 0 .. RingSize - 1
          BY <4>1
        <5> HIDE DEF t, w
        <5>2. b[t] = IF t < w THEN ring[t] ELSE Byte(ringFed, 1 + (t - w))
          BY <5>1, <2>3
        <5>3. (p + x) - w = p + x - w
          BY <2>2, <1>1
        <5> QED
          BY <5>2, <5>3, <4>2, Zenon DEF t
    <3>2. CASE ~(p + x < RingSize)
      <4>1. /\ ~(p + x < w) /\ p \in RingSize - x .. RingSize - 1
            /\ v + 1 + p - (RingSize - x) = 1 + (p + x - w)
        BY <3>2, <2>2, <1>1
      <4>2. ring'[p] = Byte(ringFed, v + 1 + p - (RingSize - x))
        BY <4>1, <2>5
      <4> HIDE DEF w, v
      <4> QED
        BY <4>1, <4>2
    <3> QED
      BY <3>1, <3>2
  <2>9. /\ x = (IF k > v THEN k - v ELSE 0) /\ ringWritten' = RingSize /\ RingSize <= RingSize
        /\ ringWritten' = w - x + k
    BY <2>1, <2>2, <1>1, <1>4, <1>6
  <2> QED
    BY <1>c, <2>1, <2>2, <2>7, <2>8, <2>9
<1> QED
  BY <1>3, <1>5, <1>6, <1>a, <1>b

LEMMA RingFeedStep ==
    ASSUME R!RingSizes, R!TypeOK, NEW k \in 0 .. MaxPiece, R!Append_(k) \/ R!BufferReadFd(k),
           ~ringBroken'
    PROVE  R!TypeOK' /\ R!Abstract!Feed(k)
<1> DEFINE r == ringRead
           w == ringWritten
           piece == Pieces(ringFed, k)
<1>1. /\ RingSize \in Nat /\ r \in Nat /\ ringFed \in Nat /\ w \in Nat /\ r <= w /\ w <= RingSize
      /\ ring \in [0 .. RingSize - 1 -> ByteSet] /\ Labels \in Nat \ {0} /\ k \in Nat
  BY DEF ByteSet, R!TypeOK, R!RingSizes
<1>2. PICK x \in Nat :
              /\ x = IF k > RingSize - ringWritten THEN k - (RingSize - ringWritten) ELSE 0
              /\ ringRead' = ringRead /\ ringWritten' = ringWritten - x + k
              /\ ringWritten' <= RingSize
              /\ ring' \in [0 .. RingSize - 1 -> ByteSet]
              /\ \A p \in 0 .. ringWritten' - 1 :
                    ring'[p] = IF p + x < ringWritten THEN ring[p + x]
                               ELSE Byte(ringFed, 1 + (p + x - ringWritten))
  BY <1>1, RingFed
<1>3. ringFed' = Byte(ringFed, k) /\ ringBroken' = ringBroken
  BY <1>1, RingFed
<1>4. /\ ringWritten' \in Nat /\ r <= ringWritten'
      /\ x \in 0 .. w - r + k /\ ringWritten' = r + (w - r + k - x)
  BY <1>1, <1>2
<1>5. R!TypeOK'
  <2>1. ringFed' \in ByteSet
    BY <1>1, <1>3, ByteType
  <2>2. ringRead' \in 0 .. ringWritten' /\ ringWritten' \in 0 .. RingSize
    BY <1>1, <1>2, <1>4
  <2> QED
    BY <2>1, <2>2, <1>2, <1>3 DEF ByteSet, R!TypeOK
<1>6. piece \in [1 .. k -> ByteSet] /\ \A y \in 1 .. k : piece[y] = Byte(ringFed, y)
  BY <1>1, PieceType DEF Pieces
<1> HIDE DEF piece
<1>7. ASSUME NEW y \in 1 .. w - r + k - x
      PROVE  ring'[r + y - 1] = IF y + x <= w - r THEN ring[r + (y + x) - 1]
                                ELSE piece[y + x - (w - r)]
  <2>0. PICK p \in Int : p = r + y - 1
    BY <1>1
  <2>1. /\ p \in 0 .. ringWritten' - 1 /\ p + x = r + (y + x) - 1
        /\ p + x < w <=> y + x <= w - r
    BY <2>0, <1>1, <1>4
  <2>2. ring'[p] = IF p + x < w THEN ring[p + x] ELSE Byte(ringFed, 1 + (p + x - w))
    BY <2>1, <1>2
  <2>3. CASE y + x <= w - r
    BY <2>0, <2>1, <2>2, <2>3
  <2>4. CASE ~(y + x <= w - r)
    <3>1. /\ y + x - (w - r) \in 1 .. k /\ 1 + (p + x - w) = y + x - (w - r)
          /\ ~(p + x < w)
      BY <2>0, <2>1, <2>4, <1>1, <1>4
    <3> HIDE DEF w, r
    <3>2. ring'[p] = Byte(ringFed, 1 + (p + x - w))
      BY <3>1, <2>2
    <3>3. ring'[p] = piece[y + x - (w - r)]
      <4>1. piece[y + x - (w - r)] = Byte(ringFed, y + x - (w - r))
        BY <3>1, <1>6
      <4> QED
        BY <3>1, <3>2, <4>1, Zenon
    <3> QED
      BY <3>3, <2>0, <2>4
  <2> QED
    BY <2>3, <2>4
<1>8. Fed(ring, r, w, k, piece, x, ring', r, ringWritten')
  <2>1. \A p \in r .. w - 1 : ring[p] \in ByteSet
    BY <1>1
  <2> HIDE DEF r, w
  <2> QED
    BY <2>1, <1>1, <1>4, <1>6, <1>7 DEF Fed
<1>9. RingBytes' = SubSeq(RingBytes \o piece, x + 1, Len(RingBytes \o piece))
  <2>1. Stretch(ring', r, ringWritten') = Joined(ring, r, w, piece, x)
    BY <1>8, StretchFed
  <2> QED
    BY <2>1, <1>2 DEF RingBytes, Joined
<1> QED
  BY <1>2, <1>3, <1>5, <1>9, RingForm DEF piece

LEMMA RingRetrieveStep ==
    ASSUME R!RingSizes, R!TypeOK, NEW k \in Nat, R!retrieve(k)
    PROVE  R!TypeOK' /\ k \in 0 .. Len(RingBytes) /\ R!Abstract!Take(k)
<1>1. /\ RingSize \in Nat /\ ringRead \in Nat /\ ringWritten \in Nat
      /\ ringRead <= ringWritten /\ ringWritten <= RingSize
      /\ ring \in [0 .. RingSize - 1 -> ByteSet]
  BY DEF ByteSet, R!TypeOK, R!RingSizes
<1>2. /\ k <= ringWritten - ringRead /\ ringRead' = ringRead + k
      /\ UNCHANGED <<ring, ringWritten, ringFed, ringBroken>>
  BY DEF R!retrieve, R!readableBytes
<1>3. R!TypeOK'
  <2>1. ringRead' \in 0 .. ringWritten
    BY <1>1, <1>2
  <2> QED
    BY <2>1, <1>2 DEF R!TypeOK
<1>4. k \in 0 .. Len(RingBytes)
  <2>1. Len(RingBytes) = ringWritten - ringRead
    BY <1>1, StretchLength DEF RingBytes
  <2> QED
    BY <2>1, <1>1, <1>2
<1>5. RingBytes' = SubSeq(RingBytes, k + 1, Len(RingBytes))
  <2>1. \A p \in ringRead .. ringWritten - 1 : ring[p] \in ByteSet
    BY <1>1
  <2>2. ringRead' = ringRead + k /\ ringRead' <= ringWritten
    BY <1>1, <1>2
  <2>3. Stretch(ring, ringRead', ringWritten)
           = SubSeq(Stretch(ring, ringRead, ringWritten), k + 1,
                    Len(Stretch(ring, ringRead, ringWritten)))
    <3>1. Within(ring, ringRead, ringWritten, k, ringRead')
      BY <2>1, <2>2, <1>1 DEF Within
    <3> QED
      BY <3>1, StretchTaken
  <2> QED
    BY <2>3, <1>2 DEF RingBytes
<1> QED
  BY <1>2, <1>3, <1>4, <1>5, RingForm

LEMMA RingRetrieveAllStep ==
    ASSUME R!RingSizes, R!TypeOK, R!retrieveAll
    PROVE  R!TypeOK' /\ \E x \in 0 .. Len(RingBytes) : R!Abstract!Take(x)
<1>1. /\ RingSize \in Nat /\ ringRead \in Nat /\ ringWritten \in Nat
      /\ ringRead <= ringWritten /\ ringWritten <= RingSize
      /\ ring \in [0 .. RingSize - 1 -> ByteSet] /\ Labels \in Nat \ {0}
  BY DEF ByteSet, R!TypeOK, R!RingSizes
<1>2. /\ ring' = [p \in 0 .. RingSize - 1 |-> 0] /\ ringRead' = 0 /\ ringWritten' = 0
      /\ UNCHANGED <<ringFed, ringBroken>>
  BY DEF R!retrieveAll, R!Fresh
<1>3. R!TypeOK'
  <2>1. ring' \in [0 .. RingSize - 1 -> 0 .. Labels - 1]
    BY <1>1, <1>2
  <2> QED
    BY <2>1, <1>1, <1>2 DEF R!TypeOK
<1>4. PICK rest \in Nat : Len(RingBytes) = rest /\ ringRead + rest = ringWritten
  <2>1. ringWritten - ringRead \in Nat /\ ringRead + (ringWritten - ringRead) = ringWritten
    BY <1>1
  <2>2. Len(RingBytes) = ringWritten - ringRead
    BY <1>1, StretchLength DEF RingBytes
  <2> QED
    BY <2>1, <2>2
<1>5. RingBytes' = SubSeq(RingBytes, rest + 1, Len(RingBytes))
  <2>1. \A p \in ringRead .. ringWritten - 1 : ring[p] \in ByteSet
    BY <1>1
  <2>2. ringWritten = ringRead + rest /\ ringWritten <= ringWritten
    BY <1>1, <1>4
  <2>3. Stretch(ring, ringWritten, ringWritten)
           = SubSeq(Stretch(ring, ringRead, ringWritten), rest + 1,
                    Len(Stretch(ring, ringRead, ringWritten)))
    <3>1. Within(ring, ringRead, ringWritten, rest, ringWritten)
      BY <2>1, <2>2, <1>1 DEF Within
    <3> QED
      BY <3>1, StretchTaken
  <2>4. Stretch(ring', 0, 0) = Stretch(ring, ringWritten, ringWritten)
    BY <1>1, StretchNone
  <2> QED
    BY <2>3, <2>4, <1>2, <1>4 DEF RingBytes
<1>6. R!Abstract!Take(rest)
  BY <1>2, <1>5, RingForm
<1>7. rest \in 0 .. Len(RingBytes)
  BY <1>4
<1> QED
  BY <1>3, <1>6, <1>7

LEMMA RingInit ==
    ASSUME R!RingSizes, R!Init
    PROVE  R!TypeOK /\ R!Abstract!Init
<1>1. /\ ring = [p \in 0 .. RingSize - 1 |-> 0] /\ ringRead = 0 /\ ringWritten = 0 /\ ringFed = 0
      /\ ringBroken = FALSE
  BY DEF R!Init, R!Fresh
<1>2. 0 \in 0 .. Labels - 1 /\ 0 \in 0 .. RingSize /\ 0 \in 0 .. 0
  BY DEF R!RingSizes
<1>3. R!TypeOK
  BY <1>1, <1>2 DEF R!TypeOK
<1>4. RingBytes = << >>
  BY <1>1, StretchNone DEF RingBytes
<1> QED
  BY <1>1, <1>3, <1>4, RingForm

LEMMA RingStep ==
    ASSUME R!RingSizes, R!TypeOK, [R!Next]_(R!vars)
    PROVE  R!TypeOK' /\ (R!Abstract!Next \/ UNCHANGED R!Abstract!vars)
<1>1. CASE UNCHANGED R!vars
  <2>1. UNCHANGED <<ring, ringRead, ringWritten, ringFed, ringBroken>>
    BY <1>1 DEF R!vars
  <2>2. UNCHANGED <<RingBytes, ringFed>>
    BY <2>1 DEF RingBytes
  <2> QED
    BY <2>1, <2>2, RingForm DEF R!TypeOK
<1>2. ASSUME ~ringBroken, NEW k \in 0 .. MaxPiece, R!Append_(k) \/ R!BufferReadFd(k)
      PROVE  R!TypeOK' /\ (R!Abstract!Next \/ UNCHANGED R!Abstract!vars)
  <2>1. CASE \E len : R!AppendOverruns(len)
    <3>1. UNCHANGED <<ring, ringRead, ringWritten, ringFed>> /\ ringBroken' = TRUE
      BY <2>1 DEF R!AppendOverruns
    <3>2. UNCHANGED <<RingBytes, ringFed>>
      BY <3>1 DEF RingBytes
    <3> QED
      BY <3>1, <3>2, RingForm DEF R!TypeOK
  <2>2. CASE ~\E len : R!AppendOverruns(len)
    <3>1. ~ringBroken'
      BY <1>2, <2>2 DEF R!Append_, R!BufferReadFd
    <3> QED
      BY <1>2, <3>1, RingFeedStep, RingForm
  <2> QED
    BY <2>1, <2>2
<1>3. ASSUME NEW k \in 1 .. RingSize, R!retrieve(k)
      PROVE  R!TypeOK' /\ R!Abstract!Next
  <2>1. k \in Nat
    BY DEF R!RingSizes
  <2> QED
    BY <2>1, <1>3, RingRetrieveStep, RingForm
<1>4. CASE R!retrieveAll
  BY <1>4, RingRetrieveAllStep, RingForm
<1> QED
  BY <1>1, <1>2, <1>3, <1>4 DEF R!Next

\* The positions of the buffer of fixed size stay in order, and what is read from it is
\* what went in, in order, without as many of the oldest bytes as there was no room for
\* at the end: for every size of the buffer, up to the first piece that is longer than
\* the whole buffer, which the code writes outside it.
THEOREM RingImplementsLossyStream ==
    ASSUME R!RingSizes
    PROVE  R!Spec => []R!TypeOK /\ R!ImplementsLossyStream
<1>1. R!Init => R!TypeOK /\ R!Abstract!Init
  BY RingInit
<1>2. R!TypeOK /\ [R!Next]_(R!vars)
         => R!TypeOK' /\ (R!Abstract!Next \/ UNCHANGED R!Abstract!vars)
  BY RingStep
<1>3. R!Spec => []R!TypeOK
  BY <1>1, <1>2, PTL DEF R!Spec
<1>4. R!Spec => R!ImplementsLossyStream
  BY <1>1, <1>2, <1>3, PTL DEF R!Spec, R!ImplementsLossyStream, R!Abstract!Spec
<1> QED
  BY <1>3, <1>4
=============================================================================
