--------------------------- MODULE EdgeServerProofs ---------------------------
(***************************************************************************)
(* Proofs about the parts of MCEdge that run beside the registry's handlers, for  *)
(* any browsers, people, clients, operators and releases: signing in, the rate     *)
(* limiter, what operators run, which is migrations and reindexing, and the lists  *)
(* that are read page by page, in the order of names, numbers and versions.        *)
(***************************************************************************)
EXTENDS MCEdge, FiniteSetTheorems, SequenceTheorems, WellFoundedInduction, TLAPS

-----------------------------------------------------------------------------
(* Browsers: their invariant.                                                *)

MemberRole == {"viewer", "admin", "none"}

Place ==
  {"idle", "exchange", "verify", "user", "member", "create", "answer", "expired", "forget", "logout"}

Redemption == [kind : {"callback"}, browser : Browser, state : Nat]
UseOfSession == [kind : {"call", "logout"}, browser : Browser, proven : BOOLEAN]
Request == {Browsers!Nothing} \cup Redemption \cup UseOfSession

Token == [of : Person, as : MemberRole, nonce : Nat]
OpenSession == [id : Nat, of : Person, as : MemberRole, expires : Nat]

BrowserTyped ==
  /\ now \in Nat
  /\ begun \in Seq(Browser) /\ opened \in Seq([login : Nat, browser : Browser])
  /\ pending \in SUBSET [id : Nat, at : Nat] /\ sessions \in SUBSET OpenSession
  /\ jar \in [Browser -> [login : Nat, session : Nat]]
  /\ role \in [Person -> MemberRole]
  /\ pc \in [Conn -> Place] /\ req \in [Conn -> Request]
  /\ held \in [Conn -> {Browsers!Nothing} \cup Token \cup OpenSession]
  /\ since \in [Conn -> SUBSET MemberRole]

Redeems(c) == req[c].kind = "callback"
Uses(c) == req[c].kind \in {"call", "logout"}

\* A cookie is of a login that its browser began; a login that waits has opened no
\* session, and one that has did so where it was begun.
LoginsSound ==
  /\ \A b \in Browser : jar[b].login # 0 => jar[b].login \in DOMAIN begun /\ begun[jar[b].login] = b
  /\ \A l \in pending : l.id \in DOMAIN begun /\ \A i \in DOMAIN opened : opened[i].login # l.id
  /\ \A i, j \in DOMAIN opened : opened[i].login = opened[j].login => i = j
  /\ \A i \in DOMAIN opened : opened[i].login \in DOMAIN begun /\ begun[opened[i].login] = opened[i].browser

\* A login that c redeems waits no longer, nobody else redeems it, and nobody has.
RedemptionSound(c) == Redeems(c) =>
  /\ req[c].state \in DOMAIN begun /\ begun[req[c].state] = req[c].browser
  /\ \A l \in pending : l.id # req[c].state
  /\ \A i \in DOMAIN opened : opened[i].login # req[c].state
  /\ \A d \in Conn \ {c} : Redeems(d) => req[d].state # req[c].state

\* What a request does at which place, and which roles it has seen.
RequestSound(c) ==
  /\ pc[c] = "idle" => ~Redeems(c) /\ ~Uses(c)
  /\ pc[c] \in {"exchange", "verify", "create"} => Redeems(c)
  /\ pc[c] \in {"user", "member"} => Redeems(c) \/ Uses(c)
  /\ pc[c] \in {"answer", "expired", "forget", "logout"} => Uses(c)
  /\ pc[c] \notin {"idle", "exchange"} => held[c] \in Token \cup OpenSession
  /\ Uses(c) => held[c] \in OpenSession /\ role[held[c].of] \in since[c]
  /\ pc[c] = "answer" => held[c].as \in since[c]

BrowserInv ==
  /\ BrowserTyped /\ LoginsSound
  /\ \A c \in Conn : RedemptionSound(c) /\ RequestSound(c)

LEMMA BrowserInit ==
  ASSUME Browsers!Init
  PROVE  BrowserInv
<1>1. /\ now = 0 /\ begun = <<>> /\ pending = {} /\ sessions = {} /\ opened = <<>>
      /\ jar = [b \in Browser |-> [login |-> 0, session |-> 0]]
      /\ role = [p \in Person |-> "admin"]
      /\ pc = [c \in Conn |-> "idle"] /\ req = [c \in Conn |-> Browsers!Nothing]
      /\ held = [c \in Conn |-> Browsers!Nothing] /\ since = [c \in Conn |-> {}]
  BY DEF Browsers!Init
<1>2. BrowserTyped
  BY <1>1 DEF BrowserTyped, MemberRole, Place, Request
<1>3. LoginsSound
  BY <1>1 DEF LoginsSound
<1>4. \A c \in Conn : RedemptionSound(c) /\ RequestSound(c)
  BY <1>1 DEF RedemptionSound, RequestSound, Redeems, Uses, Browsers!Nothing
<1>. QED  BY <1>2, <1>3, <1>4 DEF BrowserInv

LEMMA BrowserStutter ==
  ASSUME BrowserInv, UNCHANGED browserVars
  PROVE  BrowserInv'
<1>1. UNCHANGED <<now, begun, pending, sessions, jar, role, pc, req, held, opened, since>>
  BY DEF browserVars
<1>2. BrowserTyped' /\ LoginsSound'
  BY <1>1 DEF BrowserInv, BrowserTyped, LoginsSound
<1>3. \A c \in Conn : RedemptionSound(c)' /\ RequestSound(c)'
  BY <1>1 DEF BrowserInv, RedemptionSound, RequestSound, Redeems, Uses
<1>. QED  BY <1>2, <1>3 DEF BrowserInv

\* What a request of its kind holds.
LEMMA RequestShape ==
  ASSUME BrowserTyped, NEW c \in Conn
  PROVE  /\ Redeems(c) => req[c] \in Redemption /\ ~Uses(c)
         /\ Uses(c) => req[c] \in UseOfSession /\ ~Redeems(c)
BY DEF BrowserTyped, Request, Redemption, UseOfSession, Redeems, Uses, Browsers!Nothing

-----------------------------------------------------------------------------
(* What a step of one request leaves as it was.                              *)

Same(c) == pc'[c] = pc[c] /\ req'[c] = req[c] /\ held'[c] = held[c] /\ since'[c] = since[c]

\* No login is begun and no session opened, and nobody starts to redeem.
LoginsSteady ==
  /\ UNCHANGED <<begun, opened>> /\ pending' \subseteq pending
  /\ \A b \in Browser : jar'[b].login \in {0, jar[b].login}

LEMMA SameRequest ==
  ASSUME BrowserInv, NEW c \in Conn, Same(c), role' = role
  PROVE  RequestSound(c)'
BY DEF BrowserInv, Same, RequestSound, Redeems, Uses

LEMMA SteadyLogins ==
  ASSUME BrowserInv, LoginsSteady, \A c \in Conn : req'[c] = req[c] \/ ~Redeems(c)'
  PROVE  LoginsSound' /\ \A c \in Conn : RedemptionSound(c)'
<1>1. LoginsSound'
  BY DEF BrowserInv, LoginsSteady, LoginsSound
<1>2. ASSUME NEW c \in Conn, Redeems(c)'
      PROVE  RedemptionSound(c)'
  <2>1. \A d \in Conn : Redeems(d)' => Redeems(d) /\ req'[d] = req[d]
    BY DEF Redeems
  <2>2. RedemptionSound(c) /\ Redeems(c) /\ req'[c] = req[c]
    BY <1>2, <2>1 DEF BrowserInv
  <2>. QED  BY <2>1, <2>2 DEF RedemptionSound, LoginsSteady
<1>. QED  BY <1>1, <1>2 DEF RedemptionSound

LEMMA OneMoves ==
  ASSUME BrowserInv, BrowserTyped', NEW c \in Conn, LoginsSteady, role' = role,
         \A d \in Conn \ {c} : Same(d), req'[c] = req[c] \/ ~Redeems(c)', RequestSound(c)'
  PROVE  BrowserInv'
<1>1. \A d \in Conn : req'[d] = req[d] \/ ~Redeems(d)'
  BY DEF Same
<1>2. \A d \in Conn : RequestSound(d)'
  BY SameRequest
<1>. QED  BY <1>1, <1>2, SteadyLogins DEF BrowserInv

\* A request that ends leaves nothing behind.
LEMMA EndsSound ==
  ASSUME BrowserTyped, NEW c \in Conn, Browsers!End(c)
  PROVE  /\ pc' \in [Conn -> Place] /\ req' \in [Conn -> Request]
         /\ held' \in [Conn -> {Browsers!Nothing} \cup Token \cup OpenSession]
         /\ since' \in [Conn -> SUBSET MemberRole]
         /\ \A d \in Conn \ {c} : Same(d)
         /\ ~Redeems(c)' /\ RequestSound(c)'
<1>1. /\ pc' = [pc EXCEPT ![c] = "idle"] /\ req' = [req EXCEPT ![c] = Browsers!Nothing]
      /\ held' = [held EXCEPT ![c] = Browsers!Nothing] /\ since' = [since EXCEPT ![c] = {}]
  BY DEF Browsers!End, Browsers!Goto
<1>2. pc' \in [Conn -> Place] /\ req' \in [Conn -> Request]
  BY <1>1 DEF BrowserTyped, Place, Request
<1>3. held' \in [Conn -> {Browsers!Nothing} \cup Token \cup OpenSession] /\ since' \in [Conn -> SUBSET MemberRole]
  BY <1>1 DEF BrowserTyped
<1>4. \A d \in Conn \ {c} : Same(d)
  BY <1>1 DEF BrowserTyped, Same
<1>5. pc'[c] = "idle" /\ req'[c] = [kind |-> "nothing"]
  BY <1>1 DEF BrowserTyped, Browsers!Nothing
<1>6. ~Redeems(c)' /\ ~Uses(c)'
  BY <1>5 DEF Redeems, Uses
<1>7. RequestSound(c)'
  BY <1>5, <1>6 DEF RequestSound
<1>. QED  BY <1>2, <1>3, <1>4, <1>6, <1>7

\* A cookie of a login that is taken away.
LEMMA CookieCleared ==
  ASSUME BrowserTyped, NEW b \in Browser, Browsers!clearLoginCookie(b)
  PROVE  /\ jar' \in [Browser -> [login : Nat, session : Nat]]
         /\ \A d \in Browser : jar'[d].login \in {0, jar[d].login}
BY DEF Browsers!clearLoginCookie, BrowserTyped

LEMMA SessionCookieCleared ==
  ASSUME BrowserTyped, NEW b \in Browser, Browsers!clearSessionCookies(b)
  PROVE  /\ jar' \in [Browser -> [login : Nat, session : Nat]]
         /\ \A d \in Browser : jar'[d].login \in {0, jar[d].login}
BY DEF Browsers!clearSessionCookies, BrowserTyped

\* A callback that fails after it was accepted.
LEMMA AbandonSound ==
  ASSUME BrowserInv, NEW c \in Conn, Redeems(c), Browsers!Abandon(c),
         UNCHANGED <<now, begun, pending, sessions, role, opened>>
  PROVE  BrowserInv'
<1>1. BrowserTyped /\ Browsers!End(c) /\ Browsers!clearLoginCookie(req[c].browser) /\ req[c].browser \in Browser
  BY RequestShape DEF BrowserInv, Browsers!Abandon, Redemption
<1>2. BrowserTyped'
  BY <1>1, EndsSound, CookieCleared DEF BrowserTyped
<1>3. LoginsSteady
  BY <1>1, CookieCleared DEF LoginsSteady
<1>. QED  BY <1>1, <1>2, <1>3, EndsSound, OneMoves

-----------------------------------------------------------------------------
(* The steps of a login.                                                     *)

LEMMA LoginStep ==
  ASSUME BrowserInv, NEW b \in Browser, Browsers!Login(b)
  PROVE  BrowserInv'
<1> DEFINE state == Len(begun) + 1
<1>1. /\ BrowserTyped /\ LoginsSound
      /\ begun' = Append(begun, b)
      /\ pending' = Browsers!prunePending(pending \cup {[id |-> state, at |-> now]})
      /\ jar' = [jar EXCEPT ![b].login = state]
      /\ UNCHANGED <<now, sessions, role, pc, req, held, opened, since>>
  BY DEF BrowserInv, Browsers!Login, Browsers!people
<1>2. begun \in Seq(Browser) /\ state \in Nat \ {0} /\ now \in Nat
  BY <1>1 DEF BrowserTyped
<1>3. /\ begun' \in Seq(Browser) /\ DOMAIN begun' = DOMAIN begun \cup {state} /\ state \notin DOMAIN begun
      /\ begun'[state] = b /\ \A l \in DOMAIN begun : begun'[l] = begun[l]
  BY <1>1, <1>2
<1>4. pending' \subseteq pending \cup {[id |-> state, at |-> now]}
  BY <1>1 DEF Browsers!prunePending, Browsers!Newest
<1>5. BrowserTyped'
  <2>1. [id |-> state, at |-> now] \in [id : Nat, at : Nat]
    BY <1>2
  <2>2. pending' \in SUBSET [id : Nat, at : Nat]
    BY <1>1, <1>4, <2>1 DEF BrowserTyped
  <2>3. jar' \in [Browser -> [login : Nat, session : Nat]]
    BY <1>1, <1>2 DEF BrowserTyped
  <2>. QED  BY <1>1, <1>2, <1>3, <2>2, <2>3 DEF BrowserTyped
<1>6. LoginsSound'
  <2>1. \A d \in Browser : jar'[d].login # 0 => jar'[d].login \in DOMAIN begun' /\ begun'[jar'[d].login] = d
    BY <1>1, <1>3 DEF BrowserTyped, LoginsSound
  <2>2. \A i \in DOMAIN opened : opened[i].login # state
    BY <1>1, <1>3 DEF LoginsSound
  <2>3. \A l \in pending' : l.id \in DOMAIN begun' /\ \A i \in DOMAIN opened : opened[i].login # l.id
    <3>1. ASSUME NEW l \in pending'
          PROVE  l \in pending \/ l.id = state
      BY <1>4
    <3>2. \A l \in pending : l.id \in DOMAIN begun /\ \A i \in DOMAIN opened : opened[i].login # l.id
      BY <1>1 DEF LoginsSound
    <3>. QED  BY <1>3, <2>2, <3>1, <3>2
  <2>4. /\ \A i, j \in DOMAIN opened : opened[i].login = opened[j].login => i = j
        /\ \A i \in DOMAIN opened : opened[i].login \in DOMAIN begun' /\ begun'[opened[i].login] = opened[i].browser
    BY <1>1, <1>3 DEF LoginsSound
  <2>5. opened' = opened
    BY <1>1
  <2>. QED  BY <2>1, <2>3, <2>4, <2>5 DEF LoginsSound
<1>7. ASSUME NEW c \in Conn
      PROVE  RedemptionSound(c)' /\ RequestSound(c)'
  <2>1. RedemptionSound(c) /\ RequestSound(c) /\ UNCHANGED <<pc, req, held, since, role, opened>>
    BY <1>1 DEF BrowserInv
  <2>2. RequestSound(c)'
    BY <2>1 DEF RequestSound, Redeems, Uses
  <2>. QED  BY <1>3, <1>4, <2>1, <2>2 DEF RedemptionSound, Redeems
<1>. QED  BY <1>5, <1>6, <1>7 DEF BrowserInv

LEMMA DeniedStep ==
  ASSUME BrowserInv, NEW b \in Browser, NEW state \in DOMAIN begun, Browsers!CallbackDenied(b, state)
  PROVE  BrowserInv'
<1>1. /\ BrowserTyped /\ Browsers!clearLoginCookie(b) /\ pending' \subseteq pending
      /\ UNCHANGED <<now, begun, sessions, role, pc, req, held, opened, since>>
  BY DEF BrowserInv, Browsers!CallbackDenied, Browsers!TakePending, Browsers!people
<1>2. BrowserTyped' /\ LoginsSteady
  BY <1>1, CookieCleared DEF BrowserTyped, LoginsSteady
<1>3. \A c \in Conn : RequestSound(c)'
  BY <1>1, SameRequest DEF Same
<1>. QED  BY <1>1, <1>2, <1>3, SteadyLogins DEF BrowserInv

\* The state is taken before anything is awaited: nobody else redeems it.
LEMMA CallbackStep ==
  ASSUME BrowserInv, NEW c \in Conn, NEW b \in Browser, NEW state \in DOMAIN begun,
         Browsers!Callback(c, b, state)
  PROVE  BrowserInv'
<1>1. /\ BrowserTyped /\ LoginsSound /\ pc[c] = "idle"
      /\ pending' = {l \in pending : l.id # state}
      /\ UNCHANGED <<now, begun, sessions, role, opened>>
  BY DEF BrowserInv, Browsers!Callback, Browsers!TakePending, Browsers!people
<1>2. CASE ~Browsers!Accepted(b, state)
  <2>1. Browsers!End(c) /\ Browsers!clearLoginCookie(b)
    BY <1>2 DEF Browsers!Callback
  <2>2. BrowserTyped' /\ LoginsSteady
    BY <1>1, <2>1, EndsSound, CookieCleared DEF BrowserTyped, LoginsSteady
  <2>. QED  BY <1>1, <2>1, <2>2, EndsSound, OneMoves
<1>3. CASE Browsers!Accepted(b, state)
  <2>1. /\ pc' = [pc EXCEPT ![c] = "exchange"] /\ UNCHANGED <<jar, held, since>>
        /\ req' = [req EXCEPT ![c] = [kind |-> "callback", browser |-> b, state |-> state]]
    BY <1>3 DEF Browsers!Callback, Browsers!Goto
  <2>2. /\ begun \in Seq(Browser) /\ state \in Nat /\ begun[state] = b
        /\ \E l \in pending : l.id = state
    <3>1. begun \in Seq(Browser) /\ state \in Nat /\ state # 0
      BY <1>1 DEF BrowserTyped
    <3>2. jar[b].login = state /\ \E l \in pending : l.id = state
      BY <1>3 DEF Browsers!Accepted
    <3>. QED  BY <1>1, <3>1, <3>2 DEF LoginsSound
  <2>3. [kind |-> "callback", browser |-> b, state |-> state] \in Request
    BY <2>2 DEF Request, Redemption
  <2>4. BrowserTyped'
    BY <1>1, <2>1, <2>3 DEF BrowserTyped, Place
  <2>5. /\ req'[c].kind = "callback" /\ req'[c].browser = b /\ req'[c].state = state
        /\ pc'[c] = "exchange" /\ \A d \in Conn \ {c} : Same(d)
    BY <1>1, <2>1 DEF BrowserTyped, Same
  <2>6. LoginsSound'
    BY <1>1, <2>1 DEF LoginsSound
  <2>7. RequestSound(c)'
    BY <2>5 DEF RequestSound, Redeems, Uses
  <2>8. ASSUME NEW d \in Conn \ {c}
        PROVE  Redeems(d)' => Redeems(d) /\ req'[d] = req[d] /\ req[d].state # state
    <3>1. Redeems(d)' => Redeems(d) /\ req'[d] = req[d]
      BY <2>5 DEF Same, Redeems
    <3>. QED  BY <2>2, <3>1 DEF BrowserInv, RedemptionSound
  <2>9. RedemptionSound(c)'
    BY <1>1, <2>2, <2>5, <2>8 DEF RedemptionSound, LoginsSound
  <2>10. ASSUME NEW d \in Conn \ {c}, Redeems(d)'
         PROVE  RedemptionSound(d)'
    <3>1. Redeems(d) /\ RedemptionSound(d) /\ req'[d] = req[d] /\ req[d].state # state
      BY <2>8, <2>10 DEF BrowserInv
    <3>2. \A e \in Conn \ {d} : Redeems(e)' => req'[e].state # req[d].state
      BY <2>5, <2>8, <3>1 DEF RedemptionSound
    <3>. QED  BY <1>1, <3>1, <3>2 DEF RedemptionSound
  <2>11. \A d \in Conn : RedemptionSound(d)'
    BY <2>9, <2>10 DEF RedemptionSound
  <2>12. \A d \in Conn : RequestSound(d)'
    BY <1>1, <2>5, <2>7, SameRequest
  <2>. QED  BY <2>4, <2>6, <2>11, <2>12 DEF BrowserInv
<1>. QED  BY <1>2, <1>3

LEMMA ExchangeStep ==
  ASSUME BrowserInv, NEW c \in Conn, Browsers!Exchange(c)
  PROVE  BrowserInv'
<1>1. /\ BrowserTyped /\ RequestSound(c) /\ Redeems(c) /\ ~Uses(c)
      /\ UNCHANGED <<now, begun, pending, sessions, role, opened>>
  BY RequestShape DEF BrowserInv, Browsers!Exchange, Browsers!people, RequestSound
<1>2. CASE Browsers!Abandon(c)
  BY <1>1, <1>2, AbandonSound
<1>3. ASSUME NEW p \in Person, NEW nonce \in DOMAIN begun,
             held' = [held EXCEPT ![c] = [of |-> p, as |-> "none", nonce |-> nonce]],
             Browsers!Goto(c, "verify"), UNCHANGED <<req, jar, since>>
      PROVE  BrowserInv'
  <2>1. begun \in Seq(Browser) /\ nonce \in Nat
    BY <1>1 DEF BrowserTyped
  <2>2. [of |-> p, as |-> "none", nonce |-> nonce] \in Token /\ pc' = [pc EXCEPT ![c] = "verify"]
    BY <1>3, <2>1 DEF Token, MemberRole, Browsers!Goto
  <2>3. BrowserTyped' /\ LoginsSteady /\ \A d \in Conn \ {c} : Same(d)
    BY <1>1, <1>3, <2>2 DEF BrowserTyped, LoginsSteady, Same, Place
  <2>4. pc'[c] = "verify" /\ held'[c] \in Token /\ req'[c] = req[c]
    BY <1>1, <1>3, <2>2 DEF BrowserTyped
  <2>5. RequestSound(c)'
    BY <1>1, <2>4 DEF RequestSound, Redeems, Uses
  <2>. QED  BY <1>1, <2>3, <2>4, <2>5, OneMoves
<1>. QED  BY <1>2, <1>3 DEF Browsers!Exchange

\* A request goes on to a place where it may be with what it holds.
LEMMA GoesOn ==
  ASSUME BrowserInv, NEW c \in Conn, pc[c] \notin {"idle", "exchange"}, NEW next \in Place,
         next \in {"user", "member", "forget"}, next = "forget" => Uses(c),
         Browsers!Goto(c, next), UNCHANGED <<req, held, jar, since, now, begun, pending, sessions, role, opened>>
  PROVE  BrowserInv'
<1>1. BrowserTyped /\ RequestSound(c) /\ pc' = [pc EXCEPT ![c] = next]
  BY DEF BrowserInv, Browsers!Goto
<1>2. BrowserTyped' /\ LoginsSteady /\ (\A d \in Conn \ {c} : Same(d)) /\ pc'[c] = next
  BY <1>1 DEF BrowserTyped, LoginsSteady, Same
<1>3. Redeems(c) \/ Uses(c)
  BY <1>1, <1>2 DEF RequestSound, BrowserTyped, Place
<1>4. RequestSound(c)'
  BY <1>1, <1>2, <1>3 DEF RequestSound, Redeems, Uses
<1>. QED  BY <1>2, <1>4, OneMoves

LEMMA VerifyStep ==
  ASSUME BrowserInv, NEW c \in Conn, Browsers!Verify(c)
  PROVE  BrowserInv'
<1>1. /\ pc[c] = "verify" /\ Redeems(c)
      /\ UNCHANGED <<now, begun, pending, sessions, role, opened>>
  BY DEF BrowserInv, Browsers!Verify, Browsers!people, RequestSound
<1>2. "user" \in Place
  BY DEF Place
<1>. QED  BY <1>1, <1>2, AbandonSound, GoesOn DEF Browsers!Verify

LEMMA UnknownSound ==
  ASSUME BrowserInv, NEW c \in Conn, pc[c] \in {"user", "member"}, Browsers!Unknown(c),
         UNCHANGED <<now, begun, pending, sessions, role, opened>>
  PROVE  BrowserInv'
<1>1. "forget" \in Place /\ (Redeems(c) \/ Uses(c))
  BY DEF Place, BrowserInv, RequestSound
<1>. QED  BY <1>1, AbandonSound, GoesOn DEF Browsers!Unknown, Redeems

LEMMA ReadUserStep ==
  ASSUME BrowserInv, NEW c \in Conn, Browsers!ReadUser(c)
  PROVE  BrowserInv'
<1>1. pc[c] = "user" /\ UNCHANGED <<now, begun, pending, sessions, role, opened>>
  BY DEF Browsers!ReadUser, Browsers!people
<1>2. "member" \in Place
  BY DEF Place
<1>. QED  BY <1>1, <1>2, UnknownSound, GoesOn DEF Browsers!ReadUser

\* The role that the actor gets is one that the request has seen.
LEMMA ReadMemberStep ==
  ASSUME BrowserInv, NEW c \in Conn, Browsers!ReadMember(c)
  PROVE  BrowserInv'
<1>1. pc[c] = "member" /\ UNCHANGED <<now, begun, pending, sessions, role, opened>>
  BY DEF Browsers!ReadMember, Browsers!people
<1>2. CASE Browsers!Unknown(c)
  BY <1>1, <1>2, UnknownSound
<1>3. CASE /\ held' = [held EXCEPT ![c] = Browsers!Actor(c)]
           /\ Browsers!Goto(c, IF req[c].kind = "callback" THEN "create" ELSE "answer")
           /\ UNCHANGED <<req, jar, since>>
  <2>1. BrowserTyped /\ RequestSound(c) /\ (Redeems(c) \/ Uses(c)) /\ held[c] \in Token \cup OpenSession
    BY <1>1 DEF BrowserInv, RequestSound
  <2> DEFINE of == held[c].of
  <2>2. of \in Person /\ role[of] \in MemberRole
    BY <2>1 DEF BrowserTyped, Token, OpenSession
  <2>3. /\ Browsers!Actor(c) \in Token \cup OpenSession
        /\ Browsers!Actor(c).of = of /\ Browsers!Actor(c).as = role[of]
        /\ held[c] \in OpenSession => Browsers!Actor(c) \in OpenSession
    BY <2>1, <2>2 DEF Browsers!Actor, Token, OpenSession
  <2>4. pc' = [pc EXCEPT ![c] = IF Redeems(c) THEN "create" ELSE "answer"]
    BY <1>3 DEF Browsers!Goto, Redeems
  <2>5. BrowserTyped' /\ LoginsSteady /\ \A d \in Conn \ {c} : Same(d)
    BY <1>1, <1>3, <2>1, <2>3, <2>4 DEF BrowserTyped, LoginsSteady, Same, Place
  <2>6. /\ pc'[c] = IF Redeems(c) THEN "create" ELSE "answer"
        /\ held'[c] = Browsers!Actor(c) /\ req'[c] = req[c] /\ since'[c] = since[c]
    BY <1>3, <2>1, <2>4 DEF BrowserTyped
  <2>7. RequestSound(c)'
    BY <1>1, <2>1, <2>3, <2>6, RequestShape DEF RequestSound, Redeems, Uses
  <2>. QED  BY <1>1, <2>5, <2>6, <2>7, OneMoves
<1>. QED  BY <1>2, <1>3 DEF Browsers!ReadMember

\* The login that was redeemed is one that has opened no session yet.
LEMMA CreateSessionStep ==
  ASSUME BrowserInv, NEW c \in Conn, Browsers!CreateSession(c)
  PROVE  BrowserInv'
<1> DEFINE id == Len(opened) + 1
           b == req[c].browser
           record == [id |-> id, of |-> held[c].of, as |-> held[c].as, expires |-> now + SESSION_TTL]
           made == [login |-> req[c].state, browser |-> b]
<1>1. /\ BrowserTyped /\ LoginsSound /\ RedemptionSound(c) /\ Redeems(c) /\ held[c] \in Token \cup OpenSession
      /\ Browsers!End(c)
      /\ sessions' = Browsers!Newest(sessions \cup {record}, MAX_SESSIONS)
      /\ opened' = Append(opened, made)
      /\ jar' = [jar EXCEPT ![b] = [login |-> 0, session |-> id]]
      /\ UNCHANGED <<now, begun, pending, role>>
  BY DEF BrowserInv, RequestSound, Browsers!CreateSession, Browsers!people
<1>2. /\ opened \in Seq([login : Nat, browser : Browser]) /\ id \in Nat
      /\ req[c] \in Redemption /\ b \in Browser
  BY <1>1, RequestShape DEF BrowserTyped, Redemption
<1>3. record \in OpenSession
  BY <1>1, <1>2, BrowserAssumption DEF BrowserTyped, Token, OpenSession
<1>4. /\ opened' \in Seq([login : Nat, browser : Browser])
      /\ DOMAIN opened' = DOMAIN opened \cup {id} /\ id \notin DOMAIN opened
      /\ opened'[id] = made /\ \A i \in DOMAIN opened : opened'[i] = opened[i]
  BY <1>1, <1>2 DEF Redemption
<1>5. sessions' \in SUBSET OpenSession
  BY <1>1, <1>3 DEF BrowserTyped, Browsers!Newest
<1>6. /\ jar' \in [Browser -> [login : Nat, session : Nat]]
      /\ \A d \in Browser : jar'[d].login \in {0, jar[d].login}
  BY <1>1, <1>2 DEF BrowserTyped
<1>7. BrowserTyped'
  BY <1>1, <1>4, <1>5, <1>6, EndsSound DEF BrowserTyped
<1>8. /\ made.login = req[c].state /\ made.browser = b
      /\ req[c].state \in DOMAIN begun /\ begun[req[c].state] = b
      /\ \A l \in pending : l.id # req[c].state
      /\ \A i \in DOMAIN opened : opened[i].login # req[c].state
      /\ \A d \in Conn \ {c} : Redeems(d) => req[d].state # req[c].state
  BY <1>1 DEF RedemptionSound
<1>9. LoginsSound'
  <2>1. \A d \in Browser : jar'[d].login # 0 => jar'[d].login \in DOMAIN begun /\ begun[jar'[d].login] = d
    BY <1>1, <1>6 DEF LoginsSound
  <2>2. \A l \in pending : l.id \in DOMAIN begun /\ \A i \in DOMAIN opened' : opened'[i].login # l.id
    BY <1>1, <1>4, <1>8 DEF LoginsSound
  <2>3. \A i, j \in DOMAIN opened' : opened'[i].login = opened'[j].login => i = j
    BY <1>1, <1>4, <1>8 DEF LoginsSound
  <2>4. \A i \in DOMAIN opened' : opened'[i].login \in DOMAIN begun /\ begun[opened'[i].login] = opened'[i].browser
    BY <1>1, <1>4, <1>8 DEF LoginsSound
  <2>. QED  BY <1>1, <2>1, <2>2, <2>3, <2>4 DEF LoginsSound
<1>10. ASSUME NEW d \in Conn \ {c}
       PROVE  RedemptionSound(d)' /\ RequestSound(d)'
  <2>1. Same(d) /\ RequestSound(d)'
    BY <1>1, <1>10, EndsSound, SameRequest
  <2>2. RedemptionSound(d) /\ \A e \in Conn : Redeems(e)' => Redeems(e) /\ req'[e] = req[e]
    BY <1>1, EndsSound DEF BrowserInv, Same, Redeems
  <2>3. ASSUME Redeems(d)'
        PROVE  RedemptionSound(d)'
    <3>1. Redeems(d) /\ req'[d] = req[d] /\ req[d].state # req[c].state
      BY <1>8, <2>2, <2>3
    <3>2. \A i \in DOMAIN opened' : opened'[i].login # req[d].state
      BY <1>4, <1>8, <2>2, <3>1 DEF RedemptionSound
    <3>. QED  BY <1>1, <2>2, <3>1, <3>2 DEF RedemptionSound
  <2>. QED  BY <2>1, <2>3 DEF RedemptionSound
<1>11. RedemptionSound(c)' /\ RequestSound(c)'
  BY <1>1, EndsSound DEF RedemptionSound
<1>. QED  BY <1>7, <1>9, <1>10, <1>11 DEF BrowserInv

-----------------------------------------------------------------------------
(* The steps of a session's use.                                             *)

LEMMA UseStep ==
  ASSUME BrowserInv, NEW c \in Conn, NEW b \in Browser, NEW kind \in {"call", "logout"}, NEW proven \in BOOLEAN,
         Browsers!Use(c, b, kind, proven)
  PROVE  BrowserInv'
<1>1. BrowserTyped /\ UNCHANGED <<now, begun, pending, sessions, role, opened>>
  BY DEF BrowserInv, Browsers!Use, Browsers!people
<1>2. CASE Browsers!clearSessionCookies(b) /\ UNCHANGED <<pc, req, held, since>>
  <2>1. BrowserTyped' /\ LoginsSteady
    BY <1>1, <1>2, SessionCookieCleared DEF BrowserTyped, LoginsSteady
  <2>2. \A d \in Conn : Same(d)
    BY <1>2 DEF Same
  <2>. QED  BY <1>1, <2>1, <2>2, SameRequest, OneMoves DEF Same
<1>3. ASSUME NEW s \in Browsers!Stored(jar[b].session),
             req' = [req EXCEPT ![c] = [kind |-> kind, browser |-> b, proven |-> proven]],
             held' = [held EXCEPT ![c] = s],
             Browsers!Goto(c, IF s.expires <= now THEN "expired" ELSE IF kind = "logout" THEN "logout" ELSE "user"),
             since' = [since EXCEPT ![c] = {role[s.of]}], UNCHANGED jar
      PROVE  BrowserInv'
  <2> DEFINE next == IF s.expires <= now THEN "expired" ELSE IF kind = "logout" THEN "logout" ELSE "user"
  <2>1. s \in OpenSession /\ s.of \in Person /\ role[s.of] \in MemberRole
    BY <1>1 DEF BrowserTyped, Browsers!Stored, OpenSession
  <2>2. [kind |-> kind, browser |-> b, proven |-> proven] \in Request
    BY DEF Request, UseOfSession
  <2>3. pc' = [pc EXCEPT ![c] = next] /\ next \in Place /\ next \in {"expired", "logout", "user"}
    BY <1>3 DEF Browsers!Goto, Place
  <2>4. BrowserTyped' /\ LoginsSteady /\ \A d \in Conn \ {c} : Same(d)
    BY <1>1, <1>3, <2>1, <2>2, <2>3 DEF BrowserTyped, LoginsSteady, Same
  <2>5. req'[c].kind = kind /\ held'[c] = s /\ pc'[c] = next /\ since'[c] = {role[s.of]}
    BY <1>1, <1>3, <2>3 DEF BrowserTyped
  <2>6. Uses(c)' /\ ~Redeems(c)'
    BY <2>5 DEF Uses, Redeems
  <2>7. RequestSound(c)'
    BY <1>1, <2>1, <2>3, <2>5, <2>6 DEF RequestSound
  <2>. QED  BY <1>1, <2>4, <2>6, <2>7, OneMoves
<1>. QED  BY <1>2, <1>3 DEF Browsers!Use

\* A request that ends with or without its session and its cookies.
LEMMA Answered ==
  ASSUME BrowserInv, NEW c \in Conn, Browsers!End(c), UNCHANGED <<now, begun, pending, role, opened>>,
         Uses(c),
         \/ Browsers!DeleteSession(held[c].id) /\ Browsers!clearSessionCookies(req[c].browser)
         \/ UNCHANGED <<sessions, jar>>
  PROVE  BrowserInv'
<1>1. BrowserTyped /\ req[c].browser \in Browser
  BY RequestShape DEF BrowserInv, UseOfSession
<1>2. sessions' \in SUBSET OpenSession
  BY <1>1 DEF BrowserTyped, Browsers!DeleteSession
<1>3. /\ jar' \in [Browser -> [login : Nat, session : Nat]]
      /\ \A d \in Browser : jar'[d].login \in {0, jar[d].login}
  BY <1>1, SessionCookieCleared DEF BrowserTyped
<1>4. BrowserTyped' /\ LoginsSteady
  BY <1>1, <1>2, <1>3, EndsSound DEF BrowserTyped, LoginsSteady
<1>. QED  BY <1>1, <1>4, EndsSound, OneMoves

LEMMA AnswerStep ==
  ASSUME BrowserInv, NEW c \in Conn, Browsers!Answer(c) \/ Browsers!Forget(c) \/ Browsers!Logout(c)
  PROVE  BrowserInv'
<1>1. Uses(c) /\ Browsers!End(c) /\ UNCHANGED <<now, begun, pending, role, opened>>
  BY DEF BrowserInv, RequestSound, Browsers!Answer, Browsers!Forget, Browsers!Logout, Browsers!people
<1>2. \/ Browsers!DeleteSession(held[c].id) /\ Browsers!clearSessionCookies(req[c].browser)
      \/ UNCHANGED <<sessions, jar>>
  BY DEF Browsers!Answer, Browsers!Forget, Browsers!Logout
<1>. QED  BY <1>1, <1>2, Answered

-----------------------------------------------------------------------------

LEMMA BrowserTickStep ==
  ASSUME BrowserInv, Browsers!Tick
  PROVE  BrowserInv'
<1>1. now' = now + 1 /\ UNCHANGED <<begun, pending, sessions, jar, role, pc, req, held, opened, since>>
  BY DEF Browsers!Tick, Browsers!people
<1>2. BrowserTyped' /\ LoginsSteady
  BY <1>1 DEF BrowserInv, BrowserTyped, LoginsSteady
<1>3. \A c \in Conn : RequestSound(c)'
  BY <1>1, SameRequest DEF Same
<1>. QED  BY <1>1, <1>2, <1>3, SteadyLogins DEF BrowserInv

\* Whoever is asking sees the new role too.
LEMMA ChangeStep ==
  ASSUME BrowserInv, NEW p \in Person, NEW to \in Change, Browsers!ChangePerson(p, to)
  PROVE  BrowserInv'
<1>1. /\ BrowserTyped /\ to.role \in MemberRole
      /\ role' = [role EXCEPT ![p] = to.role]
      /\ since' = [c \in Conn |-> IF since[c] # {} /\ held[c].of = p THEN since[c] \cup {to.role} ELSE since[c]]
      /\ UNCHANGED <<now, begun, pending, sessions, jar, pc, req, held, opened>>
  BY BrowserAssumption DEF BrowserInv, Browsers!ChangePerson, MemberRole
<1>2. \A c \in Conn : since'[c] \in {since[c], since[c] \cup {to.role}}
  BY <1>1
<1>3. since' \in [Conn -> SUBSET MemberRole]
  BY <1>1 DEF BrowserTyped
<1>4. BrowserTyped' /\ LoginsSteady
  BY <1>1, <1>3 DEF BrowserTyped, LoginsSteady
<1>5. ASSUME NEW c \in Conn
      PROVE  RequestSound(c)'
  <2>1. RequestSound(c) /\ since[c] \subseteq since'[c]
    BY <1>2 DEF BrowserInv
  <2>2. ASSUME Uses(c)
        PROVE  held[c] \in OpenSession /\ role'[held[c].of] \in since'[c]
    <3>1. held[c] \in OpenSession /\ held[c].of \in Person /\ role[held[c].of] \in since[c]
      BY <2>1, <2>2 DEF RequestSound, OpenSession
    <3>2. CASE held[c].of = p
      BY <1>1, <3>1, <3>2 DEF BrowserTyped
    <3>3. CASE held[c].of # p
      BY <1>1, <2>1, <3>1, <3>3 DEF BrowserTyped
    <3>. QED  BY <3>1, <3>2, <3>3
  <2>. QED  BY <1>1, <2>1, <2>2 DEF RequestSound, Uses, Redeems
<1>. QED  BY <1>1, <1>4, <1>5, SteadyLogins DEF BrowserInv

LEMMA BrowserNext ==
  ASSUME BrowserInv, Browsers!Next
  PROVE  BrowserInv'
<1>1. ASSUME NEW c \in Conn, Browsers!Step(c)
      PROVE  BrowserInv'
  BY <1>1, ExchangeStep, VerifyStep, ReadUserStep, ReadMemberStep, CreateSessionStep, AnswerStep DEF Browsers!Step
<1>. QED  BY <1>1, BrowserTickStep, LoginStep, DeniedStep, CallbackStep, UseStep, ChangeStep DEF Browsers!Next

\* BrowserLogin: for any browsers, people and requests in flight, a login opens at
\* most one session, in the browser that it was begun in. Whatever becomes of a person
\* while a request of its session is handled, the request is let in with a role that
\* the person had meanwhile.
THEOREM SessionsAreSound == EdgeSpec => []SessionsSound
<1>1. EdgeInit => (part = "browsers" => BrowserInv)
  BY BrowserInit DEF EdgeInit
<1>2. /\ part = "browsers" => BrowserInv
      /\ [EdgeNext]_<<part, browserVars, limiterVars, pageVars, clientVars, loreVars, operatorVars, tabVars>>
      => (part = "browsers" => BrowserInv)'
  BY BrowserNext, BrowserStutter DEF EdgeNext
<1>3. BrowserInv => Browsers!OneSessionPerLogin
  BY DEF BrowserInv, LoginsSound, Browsers!OneSessionPerLogin
<1>4. BrowserInv => Browsers!RoleHeldMeanwhile
  BY DEF BrowserInv, RequestSound, Browsers!RoleHeldMeanwhile, Browsers!LetIn
<1>5. (part = "browsers" => BrowserInv) => SessionsSound
  BY <1>3, <1>4 DEF SessionsSound
<1>. QED  BY <1>1, <1>2, <1>5, PTL DEF EdgeSpec

-----------------------------------------------------------------------------
(* The rate limiter.                                                         *)

Full == capacity * TOKEN

Bucket == [key : Client, tokens : 0 .. Full, updatedAt : Nat]

LimiterTyped ==
  /\ clock \in Nat
  /\ buckets \in Seq(Bucket)
  /\ \A i, j \in DOMAIN buckets : buckets[i].key = buckets[j].key => i = j
  /\ granted \in [Client -> Nat] /\ credit \in [Client -> Nat] /\ promise \in [Client -> Int]

Buckets == {buckets[i] : i \in DOMAIN buckets}

Elapsed(b) == IF clock > b.updatedAt THEN clock - b.updatedAt ELSE 0

\* What a bucket gave, what it has and what it has yet to gain come out of a full
\* one and of the time that the clock gained since it was made; and it has by the
\* time that was promised what the client lacked.
BucketSound(b) ==
  /\ granted[b.key] * TOKEN + b.tokens + Elapsed(b) * refillPerTick <= Full + credit[b.key]
  /\ promise[b.key] # -1 =>
       b.updatedAt <= clock /\ b.tokens + (promise[b.key] - b.updatedAt) * refillPerTick >= TOKEN

LimiterInv == LimiterTyped /\ \A b \in Buckets : BucketSound(b)

\* The table without the bucket of k, and with it at the end.
LEMMA WithoutBucket ==
  ASSUME LimiterTyped, NEW k \in Client
  PROVE  /\ Limiter!Without(k) \in Seq(Bucket)
         /\ \A i \in DOMAIN Limiter!Without(k) :
              Limiter!Without(k)[i] \in Buckets /\ Limiter!Without(k)[i].key # k
         /\ \A i, j \in DOMAIN Limiter!Without(k) :
              Limiter!Without(k)[i].key = Limiter!Without(k)[j].key => i = j
         /\ Len(Limiter!Without(k)) <= Len(buckets)
<1>1. CASE k \notin Limiter!Tracked
  BY <1>1 DEF LimiterTyped, Limiter!Without, Limiter!Tracked, Buckets
<1>2. CASE k \in Limiter!Tracked
  <2>. DEFINE n == CHOOSE i \in DOMAIN buckets : buckets[i].key = k
              w == SubSeq(buckets, 1, n - 1) \o SubSeq(buckets, n + 1, Len(buckets))
  <2>1. n \in 1 .. Len(buckets) /\ buckets[n].key = k /\ DOMAIN buckets = 1 .. Len(buckets) /\ Len(buckets) \in Nat
    BY <1>2 DEF Limiter!Tracked, LimiterTyped
  <2>2. Limiter!Without(k) = w
    BY <1>2 DEF Limiter!Without, Limiter!RemoveAt
  <2>. HIDE DEF n
  <2>. DEFINE before == SubSeq(buckets, 1, n - 1)
              after == SubSeq(buckets, n + 1, Len(buckets))
  <2>9. /\ before \in Seq(Bucket) /\ Len(before) = n - 1 /\ \A i \in 1 .. n - 1 : before[i] = buckets[i]
        /\ after \in Seq(Bucket) /\ Len(after) = Len(buckets) - n
        /\ \A i \in 1 .. Len(buckets) - n : after[i] = buckets[n + i]
    <3>1. \A i \in 1 .. Len(buckets) : buckets[i] \in Bucket
      BY DEF LimiterTyped
    <3>2. n - 1 \in Int /\ n + 1 \in Int /\ Len(buckets) \in Int /\ 1 \in Int
      BY <2>1
    <3>3. (\A i \in 1 .. n - 1 : buckets[i] \in Bucket) /\ (\A i \in n + 1 .. Len(buckets) : buckets[i] \in Bucket)
      BY <2>1, <3>1
    <3>4. /\ before \in Seq(Bucket) /\ Len(before) = IF 1 <= n - 1 THEN n - 1 - 1 + 1 ELSE 0
          /\ \A i \in 1 .. n - 1 - 1 + 1 : before[i] = buckets[1 + i - 1]
      BY <3>2, <3>3, SubSeqProperties
    <3>5. /\ after \in Seq(Bucket)
          /\ Len(after) = IF n + 1 <= Len(buckets) THEN Len(buckets) - (n + 1) + 1 ELSE 0
          /\ \A i \in 1 .. Len(buckets) - (n + 1) + 1 : after[i] = buckets[n + 1 + i - 1]
      BY <3>2, <3>3, SubSeqProperties
    <3>. HIDE DEF before, after
    <3>6. Len(before) = n - 1 /\ Len(after) = Len(buckets) - n
      <4>1. Len(before) = IF 1 <= n - 1 THEN n - 1 - 1 + 1 ELSE 0
        BY <3>4
      <4>2. Len(after) = IF n + 1 <= Len(buckets) THEN Len(buckets) - (n + 1) + 1 ELSE 0
        BY <3>5
      <4>3. n \in Int /\ 1 <= n /\ n <= Len(buckets) /\ Len(buckets) \in Int
        BY <2>1
      <4>4. Len(before) = n - 1
        BY <4>1, <4>3
      <4>. QED  BY <4>2, <4>3, <4>4
    <3>7. \A i \in 1 .. n - 1 : before[i] = buckets[i]
      <4>1. n - 1 - 1 + 1 = n - 1 /\ \A i \in 1 .. n - 1 : 1 + i - 1 = i
        BY <2>1
      <4>. QED  BY <3>4, <4>1
    <3>8. \A i \in 1 .. Len(buckets) - n : after[i] = buckets[n + i]
      <4>1. Len(buckets) - (n + 1) + 1 = Len(buckets) - n /\ \A i \in 1 .. Len(buckets) - n : n + 1 + i - 1 = n + i
        BY <2>1
      <4>. QED  BY <3>5, <4>1
    <3>. QED  BY <3>4, <3>5, <3>6, <3>7, <3>8
  <2>. HIDE DEF before, after
  <2>3. w \in Seq(Bucket) /\ Len(w) = Len(buckets) - 1
    <3>1. w = before \o after
      BY DEF before, after
    <3>2. before \o after \in Seq(Bucket) /\ Len(before \o after) = Len(before) + Len(after)
      BY <2>9, ConcatProperties
    <3>. HIDE DEF w
    <3>. QED  BY <2>1, <2>9, <3>1, <3>2
  <2>4. \A i \in 1 .. Len(w) : w[i] = IF i < n THEN buckets[i] ELSE buckets[i + 1]
    <3>1. w = before \o after
      BY DEF before, after
    <3>2. \A i \in 1 .. Len(before) + Len(after) :
            (before \o after)[i] = IF i <= Len(before) THEN before[i] ELSE after[i - Len(before)]
      BY <2>9, ConcatProperties
    <3>. HIDE DEF w
    <3>3. ASSUME NEW i \in 1 .. Len(w)
          PROVE  w[i] = IF i < n THEN buckets[i] ELSE buckets[i + 1]
      <4>1. w[i] = IF i <= n - 1 THEN before[i] ELSE after[i - (n - 1)]
        BY <2>1, <2>3, <2>9, <3>1, <3>2
      <4>2. CASE i < n
        BY <2>1, <2>9, <4>1, <4>2
      <4>3. CASE ~(i < n)
        <5>1. i - (n - 1) \in 1 .. Len(buckets) - n /\ n + (i - (n - 1)) = i + 1 /\ ~(i <= n - 1)
          BY <2>1, <2>3, <4>3
        <5>. QED  BY <2>9, <4>1, <4>3, <5>1
      <4>. QED  BY <4>2, <4>3
    <3>. QED  BY <3>3
  <2>. HIDE DEF w
  <2>5. DOMAIN w = 1 .. Len(w)
    BY <2>3
  <2>6. \A i \in 1 .. Len(w) : \E j \in 1 .. Len(buckets) : j # n /\ j = (IF i < n THEN i ELSE i + 1) /\ w[i] = buckets[j]
    BY <2>1, <2>3, <2>4
  <2>10. \A i, j \in 1 .. Len(buckets) : buckets[i].key = buckets[j].key => i = j
    BY <2>1 DEF LimiterTyped
  <2>7. \A i \in DOMAIN w : w[i] \in Buckets /\ w[i].key # k
    <3>1. \A j \in 1 .. Len(buckets) : j # n => buckets[j] \in Buckets /\ buckets[j].key # k
      BY <2>1, <2>10 DEF Buckets
    <3>. QED  BY <2>5, <2>6, <3>1
  <2>8. \A i, j \in DOMAIN w : w[i].key = w[j].key => i = j
    <3>. SUFFICES ASSUME NEW i \in 1 .. Len(w), NEW j \in 1 .. Len(w), w[i].key = w[j].key
                  PROVE  i = j
      BY <2>5
    <3>1. (IF i < n THEN i ELSE i + 1) = (IF j < n THEN j ELSE j + 1)
      BY <2>6, <2>10
    <3>. QED  BY <2>1, <3>1
  <2>. QED  BY <2>1, <2>2, <2>3, <2>7, <2>8
<1>. QED  BY <1>1, <1>2

LEMMA KeptBuckets ==
  ASSUME LimiterTyped, NEW k \in Client, NEW tokens \in 0 .. Full, Limiter!Keep(k, tokens)
  PROVE  /\ buckets' \in Seq(Bucket)
         /\ \A i, j \in DOMAIN buckets' : buckets'[i].key = buckets'[j].key => i = j
         /\ \A b \in Buckets' : b = Limiter!Seen(k, tokens) \/ (b \in Buckets /\ b.key # k)
         /\ Len(buckets) <= maxClients => Len(buckets') <= maxClients
<1>. DEFINE w == Limiter!Without(k)
            new == Limiter!Seen(k, tokens)
            all == Append(w, new)
<1>1. /\ w \in Seq(Bucket) /\ \A i \in DOMAIN w : w[i] \in Buckets /\ w[i].key # k
      /\ \A i, j \in DOMAIN w : w[i].key = w[j].key => i = j
      /\ Len(w) <= Len(buckets) /\ Len(buckets) \in Nat
  BY WithoutBucket DEF LimiterTyped
<1>2. new \in Bucket /\ new.key = k
  BY DEF Limiter!Seen, Bucket, LimiterTyped
<1>3. buckets' = IF Len(all) > maxClients THEN Tail(all) ELSE all
  BY DEF Limiter!Keep
<1>. HIDE DEF w, new
<1>4. /\ all \in Seq(Bucket) /\ Len(all) = Len(w) + 1 /\ DOMAIN all = 1 .. Len(w) + 1 /\ Len(w) \in Nat
      /\ \A i \in 1 .. Len(w) + 1 : all[i] = IF i <= Len(w) THEN w[i] ELSE new
  BY <1>1, <1>2
<1>. HIDE DEF all
<1>5. \A i \in DOMAIN all : all[i] = new \/ (all[i] \in Buckets /\ all[i].key # k)
  BY <1>1, <1>4
<1>6. \A i, j \in DOMAIN all : all[i].key = all[j].key => i = j
  BY <1>1, <1>2, <1>4
<1>7. CASE Len(all) <= maxClients /\ buckets' = all
  BY <1>4, <1>5, <1>6, <1>7 DEF Buckets, new
<1>8. CASE buckets' = Tail(all)
  <2>1. /\ buckets' \in Seq(Bucket) /\ DOMAIN buckets' = 1 .. Len(w)
        /\ \A i \in 1 .. Len(w) : buckets'[i] = all[i + 1] /\ i + 1 \in DOMAIN all
    BY <1>4, <1>8
  <2>2. \A i, j \in DOMAIN buckets' : buckets'[i].key = buckets'[j].key => i = j
    <3>. SUFFICES ASSUME NEW i \in 1 .. Len(w), NEW j \in 1 .. Len(w), buckets'[i].key = buckets'[j].key
                  PROVE  i = j
      BY <2>1
    <3>1. i + 1 = j + 1
      BY <1>6, <2>1
    <3>. QED  BY <3>1
  <2>3. Len(buckets) <= maxClients => Len(buckets') <= maxClients
    <3>1. Len(buckets') = Len(w)
      BY <1>4, <2>1
    <3>. QED  BY <1>1, <1>4, <3>1, LimiterAssumption
  <2>. QED  BY <1>5, <2>1, <2>2, <2>3 DEF Buckets, new
<1>9. Len(all) <= maxClients \/ Len(all) > maxClients
  BY <1>4, LimiterAssumption
<1>. QED  BY <1>3, <1>7, <1>8, <1>9

\* What a bucket has now, in terms of its own fields.
LEMMA BucketNow ==
  ASSUME LimiterTyped, NEW b \in Buckets
  PROVE  /\ b \in Bucket /\ Limiter!Bucket(b.key) = b /\ b.key \in Limiter!Tracked
         /\ LET gained == b.tokens + Elapsed(b) * refillPerTick
            IN  Limiter!Refilled(b.key) = IF gained <= Full THEN gained ELSE Full
<1>1. b \in Bucket /\ b.key \in Limiter!Tracked /\ Limiter!ToSet(buckets) = Buckets
  BY DEF LimiterTyped, Buckets, Limiter!Tracked, Limiter!ToSet
<1>2. \A a \in Buckets : a.key = b.key => a = b
  BY DEF LimiterTyped, Buckets
<1>3. Limiter!Bucket(b.key) = b
  BY <1>1, <1>2 DEF Limiter!Bucket
<1>4. Elapsed(b) \in Nat /\ Limiter!Max({0, clock - b.updatedAt}) = Elapsed(b)
  BY <1>1 DEF Elapsed, Limiter!Max, Bucket, LimiterTyped
<1>. DEFINE gained == b.tokens + Elapsed(b) * refillPerTick
<1>5. gained \in Int /\ Full \in Int
  BY <1>1, <1>4, LimiterAssumption DEF Bucket, Full
<1>6. Limiter!Refilled(b.key) = Limiter!Min({Full, gained})
  BY <1>1, <1>3, <1>4 DEF Limiter!Refilled, Full
<1>. HIDE DEF gained
<1>7. \A m, n \in Int : Limiter!Min({m, n}) = IF n <= m THEN n ELSE m
  BY DEF Limiter!Min
<1>. QED  BY <1>1, <1>3, <1>5, <1>6, <1>7 DEF gained

\* The answer names enough seconds.
LEMMA RetryIsEnough ==
  ASSUME NEW tokens \in 0 .. TOKEN
  PROVE  LET seconds == Limiter!RetryAfterSeconds(tokens)
         IN  seconds \in Nat /\ tokens + SECOND * seconds * refillPerTick >= TOKEN
<1>. DEFINE perSecond == SECOND * refillPerTick
            lack == TOKEN - tokens
            rounded == (lack + perSecond - 1) \div perSecond
            seconds == Limiter!RetryAfterSeconds(tokens)
<1>1. perSecond \in Nat \ {0} /\ lack \in Nat
  BY LimiterAssumption
<1>2. seconds = Limiter!Max({1, rounded})
  BY DEF Limiter!RetryAfterSeconds
<1>3. \A a \in Nat, d \in Nat \ {0} : a \div d \in Nat /\ a < d * (a \div d) + d
  OBVIOUS
<1>4. rounded \in Nat /\ lack <= perSecond * rounded
  <2>. HIDE DEF perSecond, lack
  <2>1. lack + perSecond - 1 \in Nat
    BY <1>1
  <2>2. rounded \in Nat /\ lack + perSecond - 1 < perSecond * rounded + perSecond
    BY <1>1, <1>3, <2>1
  <2>3. perSecond * rounded \in Nat
    BY <1>1, <2>2
  <2>. QED  BY <1>1, <2>2, <2>3
<1>. HIDE DEF rounded, seconds
<1>5. seconds \in Nat /\ seconds >= rounded
  BY <1>2, <1>4 DEF Limiter!Max
<1>6. perSecond * rounded <= perSecond * seconds
  <2>. HIDE DEF perSecond
  <2>. QED  BY <1>1, <1>4, <1>5
<1>7. perSecond * seconds = SECOND * seconds * refillPerTick
  BY <1>5, LimiterAssumption
<1>8. SECOND * seconds * refillPerTick \in Nat
  BY <1>5, LimiterAssumption
<1>. QED
  <2>. HIDE DEF perSecond
  <2>1. lack <= SECOND * seconds * refillPerTick
    <3>. DEFINE product == perSecond * rounded
    <3>1. product \in Nat
      BY <1>1, <1>4
    <3>. QED  BY <1>1, <1>4, <1>6, <1>7, <1>8, <3>1
  <2>. QED  BY <1>1, <1>5, <1>8, <2>1, LimiterAssumption DEF seconds

\* What a bucket has and has gained are numbers.
LEMMA BucketCounts ==
  ASSUME LimiterTyped, NEW b \in Buckets
  PROVE  /\ b.key \in Client /\ b.tokens \in Nat /\ b.updatedAt \in Nat
         /\ Elapsed(b) \in Nat /\ Elapsed(b) * refillPerTick \in Nat
<1>1. Full \in Nat /\ b \in Bucket /\ clock \in Nat
  BY BucketNow, LimiterAssumption DEF Full, LimiterTyped
<1>2. b.key \in Client /\ b.tokens \in Nat /\ b.updatedAt \in Nat
  BY <1>1 DEF Bucket
<1>3. Elapsed(b) \in Nat
  BY <1>1, <1>2 DEF Elapsed
<1>4. Elapsed(b) * refillPerTick \in Nat
  BY <1>3, LimiterAssumption
<1>. QED  BY <1>2, <1>3, <1>4

LEMMA RefilledBound ==
  ASSUME LimiterTyped, NEW k \in Client
  PROVE  Limiter!Refilled(k) \in 0 .. Full
<1>1. Full \in Nat
  BY LimiterAssumption DEF Full
<1>2. CASE k \notin Limiter!Tracked
  BY <1>1, <1>2 DEF Limiter!Refilled, Full
<1>3. CASE k \in Limiter!Tracked
  <2>1. PICK b \in Buckets : b.key = k
    BY <1>3 DEF Limiter!Tracked, Buckets
  <2>2. b.tokens \in Nat /\ Elapsed(b) * refillPerTick \in Nat
    BY BucketCounts
  <2>3. Limiter!Refilled(k) = IF b.tokens + Elapsed(b) * refillPerTick <= Full
                              THEN b.tokens + Elapsed(b) * refillPerTick ELSE Full
    BY <2>1, BucketNow
  <2>. QED  BY <1>1, <2>2, <2>3
<1>. QED  BY <1>2, <1>3

LEMMA LimiterInit ==
  ASSUME Limiter!Init
  PROVE  LimiterInv
BY DEF Limiter!Init, LimiterInv, LimiterTyped, Buckets

\* A request: what the bucket has is less by what it gives, and the next one is
\* told how long it takes to gain the rest.
LEMMA CheckRequestStep ==
  ASSUME LimiterInv, NEW k \in Client, Limiter!check(k)
  PROVE  LimiterInv'
<1>. DEFINE tokens == Limiter!Refilled(k)
            allowed == tokens >= TOKEN
            fresh == k \notin Limiter!Tracked
            kept == IF allowed THEN tokens - TOKEN ELSE tokens
            base == IF fresh THEN 0 ELSE granted[k]
            time == IF fresh THEN 0 ELSE credit[k]
            retry == Limiter!RetryAfterSeconds(tokens)
            new == Limiter!Seen(k, kept)
<1>1. /\ Limiter!Keep(k, kept)
      /\ granted' = [granted EXCEPT ![k] = base + IF allowed THEN 1 ELSE 0]
      /\ credit' = [credit EXCEPT ![k] = time]
      /\ promise' = [promise EXCEPT ![k] = IF allowed THEN -1 ELSE clock + SECOND * retry]
      /\ clock' = clock
  BY DEF Limiter!check
<1>2. LimiterTyped /\ clock \in Nat /\ Full \in Nat /\ TOKEN \in Nat
  BY LimiterAssumption DEF LimiterInv, LimiterTyped, Full
<1>3. tokens \in 0 .. Full
  BY <1>2, RefilledBound
<1>4. base \in Nat /\ time \in Nat
  BY <1>2 DEF LimiterTyped
<1>5. base * TOKEN + tokens <= Full + time
  <2>1. CASE fresh
    BY <1>2, <1>3, <2>1
  <2>2. CASE ~fresh
    <3>1. PICK b \in Buckets : b.key = k
      BY <2>2 DEF Limiter!Tracked, Buckets
    <3>2. granted[k] * TOKEN + b.tokens + Elapsed(b) * refillPerTick <= Full + credit[k]
      BY <3>1 DEF LimiterInv, BucketSound
    <3>3. b.tokens \in Nat /\ Elapsed(b) * refillPerTick \in Nat /\ granted[k] * TOKEN \in Nat /\ credit[k] \in Nat
      <4>1. k \in Client /\ granted[k] \in Nat /\ credit[k] \in Nat
        BY <1>2 DEF LimiterTyped
      <4>. QED  BY <1>2, <4>1, BucketCounts
    <3>4. tokens <= b.tokens + Elapsed(b) * refillPerTick
      BY <1>2, <3>1, <3>3, BucketNow
    <3>. HIDE DEF tokens
    <3>. QED  BY <1>2, <1>3, <2>2, <3>2, <3>3, <3>4
  <2>. QED  BY <2>1, <2>2
<1>. HIDE DEF tokens, fresh, base, time
<1>6. kept \in 0 .. Full
  BY <1>2, <1>3
<1>7. ~allowed => retry \in Nat /\ tokens + SECOND * retry * refillPerTick >= TOKEN
  BY <1>2, <1>3, RetryIsEnough
<1>. HIDE DEF retry
<1>8. /\ granted'[k] = base + (IF allowed THEN 1 ELSE 0) /\ credit'[k] = time
      /\ promise'[k] = IF allowed THEN -1 ELSE clock + SECOND * retry
      /\ \A j \in Client \ {k} : granted'[j] = granted[j] /\ credit'[j] = credit[j] /\ promise'[j] = promise[j]
  BY <1>1, <1>2 DEF LimiterTyped
<1>9. LimiterTyped'
  <2>1. granted' \in [Client -> Nat] /\ credit' \in [Client -> Nat]
    BY <1>1, <1>2, <1>4 DEF LimiterTyped
  <2>2. ~allowed => clock + SECOND * retry \in Int
    BY <1>2, <1>7, LimiterAssumption
  <2>3. promise' \in [Client -> Int]
    BY <1>1, <1>2, <2>2 DEF LimiterTyped
  <2>4. /\ buckets' \in Seq(Bucket)
        /\ \A i, j \in DOMAIN buckets' : buckets'[i].key = buckets'[j].key => i = j
    BY <1>1, <1>2, <1>6, KeptBuckets
  <2>. QED  BY <1>1, <1>2, <2>1, <2>3, <2>4 DEF LimiterTyped
<1>10. ASSUME NEW b \in Buckets'
       PROVE  BucketSound(b)'
  <2>1. b = new \/ (b \in Buckets /\ b.key # k)
    BY <1>1, <1>2, <1>6, <1>10, KeptBuckets
  <2>2. CASE b \in Buckets /\ b.key # k
    <3>1. b.key \in Client /\ BucketSound(b)
      BY <1>2, <2>2, BucketNow DEF LimiterInv, Bucket
    <3>. QED  BY <1>1, <1>8, <2>2, <3>1 DEF BucketSound, Elapsed
  <2>3. CASE b = new
    <3>1. b.key = k /\ b.tokens = kept /\ b.updatedAt = clock
      BY <2>3 DEF Limiter!Seen
    <3>2. Elapsed(b)' * refillPerTick = 0
      BY <1>1, <1>2, <3>1, LimiterAssumption DEF Elapsed
    <3>3. granted'[k] * TOKEN + kept <= Full + credit'[k]
      <4>1. CASE allowed
        <5>1. granted'[k] * TOKEN = base * TOKEN + TOKEN /\ base * TOKEN \in Nat
          BY <1>2, <1>4, <1>8, <4>1
        <5>. QED  BY <1>2, <1>3, <1>4, <1>5, <1>8, <4>1, <5>1
      <4>2. CASE ~allowed
        BY <1>2, <1>4, <1>5, <1>8, <4>2
      <4>. QED  BY <4>1, <4>2
    <3>4. granted'[k] * TOKEN \in Nat
      BY <1>2, <1>4, <1>8
    <3>5. granted'[k] * TOKEN + b.tokens + Elapsed(b)' * refillPerTick <= Full + credit'[k]
      BY <1>6, <3>1, <3>2, <3>3, <3>4
    <3>6. promise'[k] # -1 => (promise'[k] - clock) * refillPerTick = SECOND * retry * refillPerTick /\ ~allowed
      BY <1>2, <1>7, <1>8, LimiterAssumption
    <3>7. promise'[k] # -1 => b.updatedAt <= clock' /\ b.tokens + (promise'[k] - b.updatedAt) * refillPerTick >= TOKEN
      BY <1>1, <1>2, <1>7, <3>1, <3>6
    <3>. QED  BY <3>1, <3>5, <3>7 DEF BucketSound, Full
  <2>. QED  BY <2>1, <2>2, <2>3
<1>. QED  BY <1>9, <1>10 DEF LimiterInv

\* A tick: every bucket gains what its account does.
LEMMA TickStep ==
  ASSUME LimiterInv, Limiter!Tick
  PROVE  LimiterInv'
<1>1. /\ LimiterTyped /\ clock' = clock + 1 /\ UNCHANGED <<buckets, granted, promise>>
      /\ credit' = [k \in Client |-> IF k \in Limiter!Tracked THEN credit[k] + refillPerTick ELSE 0]
  BY DEF Limiter!Tick, LimiterInv
<1>2. LimiterTyped'
  BY <1>1, LimiterAssumption DEF LimiterTyped
<1>3. ASSUME NEW b \in Buckets
      PROVE  BucketSound(b)'
  <2>1. BucketSound(b) /\ b \in Bucket /\ b.key \in Limiter!Tracked
    BY <1>1, BucketNow DEF LimiterInv
  <2>2. /\ b.key \in Client /\ b.tokens \in Nat /\ b.updatedAt \in Nat /\ clock \in Nat
        /\ credit[b.key] \in Nat /\ granted[b.key] \in Nat /\ refillPerTick \in Nat /\ TOKEN \in Nat /\ Full \in Nat
    BY <1>1, <2>1, LimiterAssumption DEF Bucket, LimiterTyped, Full
  <2>3. credit'[b.key] = credit[b.key] + refillPerTick
    BY <1>1, <2>1, <2>2
  <2>4. Elapsed(b)' * refillPerTick <= Elapsed(b) * refillPerTick + refillPerTick
    <3>1. Elapsed(b)' = Elapsed(b) \/ Elapsed(b)' = Elapsed(b) + 1
      BY <1>1, <2>2 DEF Elapsed
    <3>2. Elapsed(b) \in Nat
      BY <2>2 DEF Elapsed
    <3>3. (Elapsed(b) + 1) * refillPerTick = Elapsed(b) * refillPerTick + refillPerTick
      BY <2>2, <3>2
    <3>4. Elapsed(b) * refillPerTick \in Nat
      BY <2>2, <3>2
    <3>. QED  BY <2>2, <3>1, <3>3, <3>4
  <2>5. Elapsed(b)' * refillPerTick \in Nat /\ Elapsed(b) * refillPerTick \in Nat /\ granted[b.key] * TOKEN \in Nat
    BY <1>1, <2>2 DEF Elapsed
  <2>6. granted[b.key] * TOKEN + b.tokens + Elapsed(b)' * refillPerTick <= Full + credit'[b.key]
    BY <2>1, <2>2, <2>3, <2>4, <2>5 DEF BucketSound
  <2>. QED  BY <1>1, <2>1, <2>2, <2>6 DEF BucketSound, Full
<1>. QED  BY <1>1, <1>2, <1>3 DEF LimiterInv, Buckets

\* The clock is set back: nothing is gained, and no promise holds.
LEMMA SetBackStep ==
  ASSUME LimiterInv, NEW to \in Nat, Limiter!SetBack(to)
  PROVE  LimiterInv'
<1>1. /\ LimiterTyped /\ clock' = to /\ to < clock /\ UNCHANGED <<buckets, granted, credit>>
      /\ promise' = [k \in Client |-> -1]
  BY DEF Limiter!SetBack, LimiterInv
<1>2. LimiterTyped'
  BY <1>1 DEF LimiterTyped
<1>3. ASSUME NEW b \in Buckets
      PROVE  BucketSound(b)'
  <2>1. BucketSound(b) /\ b \in Bucket
    BY <1>1, BucketNow DEF LimiterInv
  <2>2. /\ b.key \in Client /\ b.tokens \in Nat /\ b.updatedAt \in Nat /\ clock \in Nat
        /\ credit[b.key] \in Nat /\ granted[b.key] \in Nat /\ refillPerTick \in Nat /\ TOKEN \in Nat /\ Full \in Nat
    BY <1>1, <2>1, LimiterAssumption DEF Bucket, LimiterTyped, Full
  <2>3. Elapsed(b) \in Nat /\ Elapsed(b)' \in Nat /\ Elapsed(b)' <= Elapsed(b)
    BY <1>1, <2>2 DEF Elapsed
  <2>4. /\ Elapsed(b)' * refillPerTick <= Elapsed(b) * refillPerTick
        /\ Elapsed(b)' * refillPerTick \in Nat /\ Elapsed(b) * refillPerTick \in Nat /\ granted[b.key] * TOKEN \in Nat
    BY <2>2, <2>3
  <2>5. granted[b.key] * TOKEN + b.tokens + Elapsed(b)' * refillPerTick <= Full + credit[b.key]
    BY <2>1, <2>2, <2>4 DEF BucketSound
  <2>. QED  BY <1>1, <2>2, <2>5 DEF BucketSound, Full
<1>. QED  BY <1>1, <1>2, <1>3 DEF LimiterInv, Buckets

LEMMA LimiterNext ==
  ASSUME LimiterInv, Limiter!Next
  PROVE  LimiterInv'
<1>1. ASSUME NEW to \in 0 .. LastTick, Limiter!SetBack(to)
      PROVE  LimiterInv'
  BY <1>1, SetBackStep
<1>. QED  BY <1>1, CheckRequestStep, TickStep DEF Limiter!Next

LEMMA LimiterStutter ==
  ASSUME LimiterInv, UNCHANGED limiterVars
  PROVE  LimiterInv'
BY DEF limiterVars, LimiterInv, LimiterTyped, Buckets, BucketSound, Elapsed

LEMMA LimiterKeepsAllowance ==
  ASSUME LimiterInv
  PROVE  Limiter!AllowanceKept
<1>1. LimiterTyped /\ Full \in Nat /\ TOKEN \in Nat /\ TOKEN <= Full
  BY LimiterAssumption DEF LimiterInv, Full
<1>2. ASSUME NEW b \in Buckets
      PROVE  /\ BucketSound(b) /\ b \in Bucket /\ b.key \in Client /\ b.tokens \in Nat /\ b.updatedAt \in Nat
             /\ Elapsed(b) \in Nat /\ Elapsed(b) * refillPerTick \in Nat
             /\ granted[b.key] * TOKEN \in Nat /\ credit[b.key] \in Nat /\ promise[b.key] \in Int
  <2>1. BucketSound(b) /\ b \in Bucket
    BY <1>1, BucketNow DEF LimiterInv
  <2>2. b.key \in Client /\ b.tokens \in Nat /\ b.updatedAt \in Nat /\ clock \in Nat
    BY <1>1, <2>1 DEF Bucket, LimiterTyped
  <2>3. granted[b.key] \in Nat /\ credit[b.key] \in Nat /\ promise[b.key] \in Int
    BY <1>1, <2>2 DEF LimiterTyped
  <2>4. Elapsed(b) \in Nat
    BY <2>2 DEF Elapsed
  <2>5. Elapsed(b) * refillPerTick \in Nat /\ granted[b.key] * TOKEN \in Nat
    BY <1>1, <2>3, <2>4, LimiterAssumption
  <2>. QED  BY <2>1, <2>2, <2>3, <2>4, <2>5
<1>3. ASSUME NEW k \in Limiter!Tracked
      PROVE  granted[k] * TOKEN <= capacity * TOKEN + credit[k]
  <2>1. PICK b \in Buckets : b.key = k
    BY DEF Limiter!Tracked, Buckets
  <2>. QED  BY <1>1, <1>2, <2>1 DEF BucketSound, Full
<1>4. ASSUME NEW k \in Client, promise[k] # -1, clock >= promise[k]
      PROVE  Limiter!Refilled(k) >= TOKEN
  <2>1. CASE k \notin Limiter!Tracked
    BY <1>1, <2>1 DEF Limiter!Refilled, Full
  <2>2. CASE k \in Limiter!Tracked
    <3>1. PICK b \in Buckets : b.key = k
      BY <2>2 DEF Limiter!Tracked, Buckets
    <3>2. b.updatedAt <= clock /\ b.tokens + (promise[k] - b.updatedAt) * refillPerTick >= TOKEN
      BY <1>2, <1>4, <3>1 DEF BucketSound
    <3>3. promise[k] - b.updatedAt <= Elapsed(b)
      BY <1>1, <1>2, <1>4, <3>1, <3>2 DEF Elapsed, LimiterTyped
    <3>4. (promise[k] - b.updatedAt) * refillPerTick <= Elapsed(b) * refillPerTick
      BY <1>2, <3>1, <3>3, LimiterAssumption
    <3>5. (promise[k] - b.updatedAt) * refillPerTick \in Int
      BY <1>2, <3>1, LimiterAssumption
    <3>6. b.tokens + Elapsed(b) * refillPerTick >= TOKEN
      BY <1>1, <1>2, <3>2, <3>4, <3>5
    <3>. QED  BY <1>1, <1>2, <3>1, <3>6, BucketNow
  <2>. QED  BY <2>1, <2>2
<1>. QED  BY <1>3, <1>4 DEF Limiter!AllowanceKept, Limiter!WithinAllowance, Limiter!WaitIsEnough

\* RateLimiter: for any clients, capacity, refill and table size, a client that is
\* tracked gets no more than a full bucket and what the clock gained, also if the
\* clock is set back, and whoever waits as long as it was told is let in.
THEOREM AllowanceIsKept == EdgeSpec => []AllowanceKept
<1>1. EdgeInit => (part = "limiter" => LimiterInv)
  BY LimiterInit DEF EdgeInit
<1>2. /\ part = "limiter" => LimiterInv
      /\ [EdgeNext]_<<part, browserVars, limiterVars, pageVars, clientVars, loreVars, operatorVars, tabVars>>
      => (part = "limiter" => LimiterInv)'
  BY LimiterNext, LimiterStutter DEF EdgeNext
<1>3. (part = "limiter" => LimiterInv) => AllowanceKept
  BY LimiterKeepsAllowance DEF AllowanceKept
<1>. QED  BY <1>1, <1>2, <1>3, PTL DEF EdgeSpec

-----------------------------------------------------------------------------
(* Migrations and reindexing: their invariant.                               *)

Migration == UNION ProgramVersion

\* From the lock to its release.
Holding == {"history", "next", "insert", "privileges", "unlock"}

Migrating ==
  [at : {"lock", "done"} \cup Holding, files : ProgramVersion, todo : SUBSET Migration,
   reconcile : BOOLEAN, ok : BOOLEAN]

Reindexing ==
  [at : {"select", "row", "done"}, after : Nat, batch : SUBSET Release, processed : Nat, indexed : Nat,
   looked : SUBSET Release, complete : BOOLEAN]

\* What an operator does is the behaviour's task.
Runs ==
  {Operators!Idle} \cup (IF task = "migrate" THEN Migrating ELSE {})
                   \cup (IF task = "reindex" THEN Reindexing ELSE {})

OperatorTyped ==
  /\ history \in Seq(Migration) /\ schema = history
  /\ locker \in Operator \cup {"none"}
  /\ op \in [Operator -> Runs]
  /\ releases \in SUBSET Release /\ discovery \in SUBSET releases /\ inserted \in [Release -> Nat]

HistorySound ==
  \A i, j \in DOMAIN history : i < j => history[i].name < history[j].name

Recorded == Operators!ToSet(history)

LockSound(o) == locker = o <=> op[o].at \in Holding

\* What is applied has a file, the other files come after it, and what is done of
\* them is recorded.
Continues(files, todo) ==
  /\ Operators!Applied \subseteq Operators!Names(files)
  /\ \A f \in files : f.name \in Operators!Applied \/ \A n \in Operators!Applied : n < f.name
  /\ files \ todo \subseteq Recorded

IsNext(todo) == todo # {} /\ Operators!First(todo).name \notin Operators!Applied

\* Nobody else applies anything while o has the lock, and what o has done is recorded.
FilesSound(o) == task = "migrate" /\ op[o].at # "idle" =>
  /\ op[o].todo \subseteq op[o].files
  /\ op[o].at \in {"lock", "history"} => op[o].todo = op[o].files
  /\ op[o].at \in {"next", "insert", "privileges"} => Continues(op[o].files, op[o].todo)
  /\ op[o].at = "insert" => IsNext(op[o].todo)
  /\ op[o].at = "privileges" => op[o].todo = {}
  /\ op[o].at \in {"unlock", "done"} /\ op[o].ok => op[o].files \subseteq Recorded
  /\ op[o].at = "unlock" /\ op[o].ok /\ op[o].reconcile => privileges = Operators!Applied

PassSound(o) == task = "reindex" /\ op[o].at # "idle" =>
  /\ op[o].batch \subseteq releases
  /\ op[o].at = "row" => op[o].batch # {}
  /\ op[o].at = "done" /\ op[o].complete => op[o].looked \subseteq discovery

RowsSound == \A r \in Release : inserted[r] = IF r \in discovery THEN 1 ELSE 0

OperatorInv ==
  /\ OperatorTyped /\ HistorySound /\ RowsSound
  /\ \A o \in Operator : LockSound(o) /\ FilesSound(o) /\ PassSound(o)

-----------------------------------------------------------------------------
(* Migrations and reindexing: frames.                                        *)

\* A behaviour has one task, and what an operator does is of it.
LEMMA RunShape ==
  ASSUME NEW j \in Runs
  PROVE  /\ j.at \in {"lock"} \cup Holding => task = "migrate"
         /\ j.at \in {"select", "row"} => task = "reindex"
         /\ task = "migrate" /\ j.at # "idle" => j \in Migrating /\ j.at \notin {"select", "row"}
         /\ task = "reindex" /\ j.at # "idle" => j \in Reindexing /\ j.at \notin {"lock"} \cup Holding
         /\ j.at = "idle" => j = Operators!Idle
<1>1. \A k \in Migrating : k.at \in {"lock", "done"} \cup Holding
  BY DEF Migrating
<1>2. \A k \in Reindexing : k.at \in {"select", "row", "done"}
  BY DEF Reindexing
<1>3. Operators!Idle.at = "idle"
  BY DEF Operators!Idle
<1>. QED  BY <1>1, <1>2, <1>3 DEF Runs, Holding

\* A step of o leaves everything sound about the others, if it changes the history
\* or the privileges only while it has the lock.
LEMMA OtherOperators ==
  ASSUME OperatorInv, NEW o \in Operator, NEW j \in Runs, op' = [op EXCEPT ![o] = j], task' = task,
         OperatorTyped', HistorySound', RowsSound',
         \A d \in Operator \ {o} : locker' = d <=> locker = d,
         UNCHANGED <<history, privileges>> \/ (locker = o /\ Recorded \subseteq Recorded'),
         releases \subseteq releases', discovery \subseteq discovery',
         LockSound(o)', FilesSound(o)', PassSound(o)'
  PROVE  OperatorInv'
<1>1. ASSUME NEW d \in Operator \ {o}
      PROVE  LockSound(d)' /\ FilesSound(d)' /\ PassSound(d)'
  <2>1. LockSound(d) /\ FilesSound(d) /\ PassSound(d) /\ op'[d] = op[d]
    BY <1>1 DEF OperatorInv, OperatorTyped
  <2>2. LockSound(d)' /\ PassSound(d)'
    BY <1>1, <2>1 DEF LockSound, PassSound
  <2>3. CASE UNCHANGED <<history, privileges>>
    <3>1. Operators!Applied' = Operators!Applied /\ Recorded' = Recorded
      BY <2>3 DEF Recorded, Operators!Applied
    <3>2. Continues(op[d].files, op[d].todo) => Continues(op[d].files, op[d].todo)'
      BY <2>1, <3>1 DEF Continues, Operators!Names
    <3>3. IsNext(op[d].todo) => IsNext(op[d].todo)'
      BY <2>1, <3>1 DEF IsNext, Operators!First
    <3>. QED  BY <2>1, <2>2, <2>3, <3>1, <3>2, <3>3 DEF FilesSound
  <2>4. CASE locker = o /\ Recorded \subseteq Recorded'
    <3>1. op[d].at \notin Holding
      BY <1>1, <2>1, <2>4 DEF LockSound
    <3>. QED  BY <2>1, <2>2, <2>4, <3>1 DEF FilesSound, Holding
  <2>. QED  BY <2>2, <2>3, <2>4
<1>. QED  BY <1>1 DEF OperatorInv

\* A step that only moves o along.
LEMMA OperatorMoves ==
  ASSUME OperatorInv, NEW o \in Operator, NEW j \in Runs, op' = [op EXCEPT ![o] = j],
         UNCHANGED <<task, Operators!database, Operators!index>>,
         LockSound(o)', FilesSound(o)', PassSound(o)'
  PROVE  OperatorInv'
<1>1. UNCHANGED <<schema, history, privileges, locker, releases, discovery, inserted>>
  BY DEF Operators!database, Operators!index
<1>2. OperatorTyped'
  BY <1>1 DEF OperatorInv, OperatorTyped, Runs
<1>3. HistorySound' /\ RowsSound'
  BY <1>1 DEF OperatorInv, HistorySound, RowsSound
<1>. QED  BY <1>1, <1>2, <1>3, OtherOperators

\* Whoever does nothing is sound if it does not have the lock.
LEMMA IdleSound ==
  ASSUME NEW o \in Operator, op'[o] = Operators!Idle, locker' # o
  PROVE  LockSound(o)' /\ FilesSound(o)' /\ PassSound(o)'
BY DEF LockSound, FilesSound, PassSound, Operators!Idle, Holding

LEMMA OperatorInit ==
  ASSUME Operators!Init
  PROVE  OperatorInv
<1>1. /\ schema = <<>> /\ history = <<>> /\ locker = "none" /\ releases = {} /\ discovery = {}
      /\ op = [o \in Operator |-> Operators!Idle] /\ inserted = [r \in Release |-> 0]
  BY DEF Operators!Init
<1>2. OperatorTyped
  BY <1>1 DEF OperatorTyped, Runs
<1>3. HistorySound /\ RowsSound
  BY <1>1 DEF HistorySound, RowsSound
<1>4. ASSUME NEW o \in Operator
      PROVE  LockSound(o) /\ FilesSound(o) /\ PassSound(o)
  <2>1. op[o].at = "idle" /\ locker # o
    BY <1>1, OperatorAssumption DEF Operators!Idle
  <2>. QED  BY <2>1 DEF LockSound, FilesSound, PassSound, Holding
<1>. QED  BY <1>2, <1>3, <1>4 DEF OperatorInv

\* Numbers are well-founded.
LEMMA LeastExists ==
  ASSUME NEW P \in SUBSET Nat, P # {}
  PROVE  \E m \in P : \A w \in P : m <= w
<1>1. PICK m \in P : \A k \in P : ~ (<<k, m>> \in OpToRel(<, Nat))
  BY NatLessThanWellFounded, WFMin, Zenon
<1>2. \A k \in P : ~ (k < m)
  BY <1>1 DEF OpToRel
<1>. QED  BY <1>2

\* The least of what is left to do.
LEMMA FirstIsLeast ==
  ASSUME NEW files \in SUBSET Migration, files # {}
  PROVE  /\ Operators!First(files) \in files
         /\ \A g \in files : Operators!First(files).name <= g.name
<1>1. \A f \in files : f.name \in Nat
  BY OperatorAssumption DEF Migration
<1>2. {f.name : f \in files} \in SUBSET Nat /\ {f.name : f \in files} # {}
  BY <1>1
<1>3. PICK n \in {f.name : f \in files} : \A m \in {f.name : f \in files} : n <= m
  BY <1>2, LeastExists
<1>4. \E f \in files : \A g \in files : f.name <= g.name
  BY <1>3
<1>. QED  BY <1>4 DEF Operators!First

-----------------------------------------------------------------------------
(* Migrations and reindexing: their steps.                                   *)

\* What o is at decides what it is, and its next job is of the same kind.
LEMMA WhatRuns ==
  ASSUME OperatorInv, NEW o \in Operator
  PROVE  /\ op[o] \in Runs /\ LockSound(o) /\ FilesSound(o) /\ PassSound(o) /\ OperatorTyped
         /\ op[o].at \in {"lock"} \cup Holding => task = "migrate" /\ op[o] \in Migrating
         /\ op[o].at \in {"select", "row"} => task = "reindex" /\ op[o] \in Reindexing
         /\ (task = "migrate" => Migrating \subseteq Runs) /\ (task = "reindex" => Reindexing \subseteq Runs)
         /\ Operators!Idle \in Runs /\ (task' = task => Runs' = Runs)
<1>1. op[o] \in Runs /\ LockSound(o) /\ FilesSound(o) /\ PassSound(o) /\ OperatorTyped
  BY DEF OperatorInv, OperatorTyped
<1>2. /\ op[o].at \in {"lock"} \cup Holding => task = "migrate" /\ op[o].at # "idle"
      /\ op[o].at \in {"select", "row"} => task = "reindex" /\ op[o].at # "idle"
  BY <1>1, RunShape DEF Holding
<1>3. /\ op[o].at \in {"lock"} \cup Holding => op[o] \in Migrating
      /\ op[o].at \in {"select", "row"} => op[o] \in Reindexing
  BY <1>1, <1>2, RunShape
<1>4. /\ (task = "migrate" => Migrating \subseteq Runs) /\ (task = "reindex" => Reindexing \subseteq Runs)
      /\ Operators!Idle \in Runs /\ (task' = task => Runs' = Runs)
  BY DEF Runs
<1>. QED  BY <1>1, <1>2, <1>3, <1>4

\* A step of a migration that changes nothing but the place and the files to do.
LEMMA MigrationMoves ==
  ASSUME OperatorInv, NEW o \in Operator, NEW j \in Migrating, task = "migrate",
         op' = [op EXCEPT ![o] = j], UNCHANGED <<task, Operators!database, Operators!index>>,
         j.at \in Holding <=> op[o].at \in Holding,
         j.todo \subseteq j.files,
         j.at \in {"lock", "history"} => j.todo = j.files,
         j.at \in {"next", "insert", "privileges"} => Continues(j.files, j.todo),
         j.at = "insert" => IsNext(j.todo),
         j.at = "privileges" => j.todo = {},
         j.at \in {"unlock", "done"} /\ j.ok => j.files \subseteq Recorded,
         ~(j.at = "unlock" /\ j.ok /\ j.reconcile)
  PROVE  OperatorInv'
<1>1. j \in Runs /\ op'[o] = j /\ LockSound(o)
  BY WhatRuns DEF OperatorInv, OperatorTyped
<1>2. UNCHANGED <<history, privileges, locker>>
  BY DEF Operators!database
<1>3. Operators!Applied' = Operators!Applied /\ Recorded' = Recorded
  BY <1>2 DEF Recorded, Operators!Applied
<1>4. LockSound(o)'
  BY <1>1, <1>2 DEF LockSound
<1>5. Continues(j.files, j.todo) => Continues(j.files, j.todo)'
  BY <1>3 DEF Continues, Operators!Names
<1>6. IsNext(j.todo) => IsNext(j.todo)'
  BY <1>3 DEF IsNext, Operators!First
<1>7. FilesSound(o)'
  BY <1>1, <1>3, <1>5, <1>6 DEF FilesSound
<1>8. PassSound(o)'
  BY DEF PassSound
<1>. QED  BY <1>1, <1>4, <1>7, <1>8, OperatorMoves

\* An operator that is through, or gives up what it has not begun to change, is
\* replaced by one that does nothing or begins.
LEMMA BeginStep ==
  ASSUME OperatorInv, NEW o \in Operator,
         \/ \E files \in ProgramVersion, reconcile \in BOOLEAN : Operators!Migrate(o, files, reconcile)
         \/ Operators!Again(o) \/ Operators!Reindex(o) \/ Operators!ReindexFails(o)
  PROVE  OperatorInv'
<1>1. UNCHANGED <<task, Operators!database, Operators!index>> /\ UNCHANGED <<locker, releases, discovery>>
  BY DEF Operators!Migrate, Operators!Again, Operators!Reindex, Operators!ReindexFails, Operators!database,
         Operators!index
<1>2. op[o].at \in {"idle", "done", "row"} /\ locker # o
  BY WhatRuns DEF Operators!Migrate, Operators!Again, Operators!Reindex, Operators!ReindexFails, LockSound, Holding
<1>3. op \in [Operator -> Runs]
  BY DEF OperatorInv, OperatorTyped
<1>4. CASE Operators!Again(o) \/ Operators!ReindexFails(o)
  <2>1. op' = [op EXCEPT ![o] = Operators!Idle] /\ op'[o] = Operators!Idle
    BY <1>3, <1>4 DEF Operators!Again, Operators!ReindexFails, Operators!Set
  <2>. QED  BY <1>1, <1>2, <2>1, IdleSound, OperatorMoves, WhatRuns
<1>5. ASSUME NEW files \in ProgramVersion, NEW reconcile \in BOOLEAN, Operators!Migrate(o, files, reconcile)
      PROVE  OperatorInv'
  <2>. DEFINE j == [at |-> "lock", files |-> files, todo |-> files, reconcile |-> reconcile, ok |-> TRUE]
  <2>1. op' = [op EXCEPT ![o] = j] /\ task = "migrate"
    BY <1>5 DEF Operators!Migrate, Operators!Set
  <2>2. /\ j \in Migrating /\ j.at = "lock" /\ j.todo = files /\ j.files = files
    BY DEF Migrating, Migration
  <2>. HIDE DEF j
  <2>. QED  BY <1>1, <1>2, <2>1, <2>2, MigrationMoves DEF Holding
<1>6. CASE Operators!Reindex(o)
  <2>. DEFINE j == [at |-> "select", after |-> 0, batch |-> {}, processed |-> 0, indexed |-> 0,
                    looked |-> {}, complete |-> FALSE]
  <2>1. op' = [op EXCEPT ![o] = j] /\ task = "reindex"
    BY <1>6 DEF Operators!Reindex, Operators!Set
  <2>2. j \in Reindexing /\ j.at = "select" /\ j.batch = {}
    BY DEF Reindexing
  <2>. HIDE DEF j
  <2>3. j \in Runs /\ op'[o] = j /\ task' = task
    BY <1>1, <1>3, <2>1, <2>2, WhatRuns
  <2>4. LockSound(o)' /\ FilesSound(o)' /\ PassSound(o)'
    BY <1>1, <1>2, <2>1, <2>2, <2>3 DEF LockSound, FilesSound, PassSound, Holding
  <2>. QED  BY <1>1, <2>1, <2>3, <2>4, OperatorMoves
<1>. QED  BY <1>4, <1>5, <1>6

\* Whoever takes the lock, reads the history or goes through its files.
LEMMA MigrateStep ==
  ASSUME OperatorInv, NEW o \in Operator,
         \/ Operators!ReadHistory(o) \/ Operators!NextFile(o) \/ Operators!ApplyFails(o)
  PROVE  OperatorInv'
<1>1. /\ UNCHANGED <<task, Operators!database, Operators!index>>
      /\ op[o].at \in {"history", "next", "insert"} /\ task = "migrate" /\ op[o] \in Migrating
      /\ FilesSound(o) /\ op \in [Operator -> Runs]
  BY WhatRuns DEF Operators!ReadHistory, Operators!NextFile, Operators!ApplyFails, Holding, OperatorTyped
<1>2. /\ op[o].todo \subseteq op[o].files
      /\ op[o].at = "history" => op[o].todo = op[o].files
      /\ op[o].at \in {"next", "insert"} => Continues(op[o].files, op[o].todo)
  BY <1>1 DEF FilesSound
<1>3. ASSUME Operators!Fail(o)
      PROVE  OperatorInv'
  <2>. DEFINE j == [op[o] EXCEPT !.at = "unlock", !.ok = FALSE]
  <2>1. op' = [op EXCEPT ![o] = j]
    BY <1>3 DEF Operators!Fail, Operators!Set
  <2>2. j \in Migrating /\ j.at = "unlock" /\ ~j.ok /\ j.todo = op[o].todo /\ j.files = op[o].files
    BY <1>1 DEF Migrating, Holding
  <2>. HIDE DEF j
  <2>. QED  BY <1>1, <1>2, <2>1, <2>2, MigrationMoves DEF Holding
<1>4. ASSUME NEW step \in Holding, Operators!Goto(o, step), step # "history",
             step \in {"next", "insert", "privileges"} => Continues(op[o].files, op[o].todo),
             step = "insert" => IsNext(op[o].todo),
             step = "privileges" => op[o].todo = {},
             step = "unlock" => op[o].files \subseteq Recorded /\ ~op[o].reconcile
      PROVE  OperatorInv'
  <2>. DEFINE j == [op[o] EXCEPT !.at = step]
  <2>1. op' = [op EXCEPT ![o] = j]
    BY <1>4 DEF Operators!Goto, Operators!Set
  <2>2. /\ j \in Migrating /\ j.at = step /\ j.ok = op[o].ok /\ j.reconcile = op[o].reconcile
        /\ j.todo = op[o].todo /\ j.files = op[o].files
    BY <1>1, <1>4 DEF Migrating, Holding
  <2>. HIDE DEF j
  <2>. QED  BY <1>1, <1>2, <1>4, <2>1, <2>2, MigrationMoves DEF Holding
<1>5. CASE Operators!ReadHistory(o)
  <2>1. op[o].at = "history"
    BY <1>5 DEF Operators!ReadHistory
  <2>2. CASE Operators!Appended(o)
    <3>1. Continues(op[o].files, op[o].todo)
      BY <1>2, <2>1, <2>2 DEF Operators!Appended, Continues
    <3>2. Operators!Goto(o, "next")
      BY <1>5, <2>2 DEF Operators!ReadHistory
    <3>. QED  BY <1>4, <3>1, <3>2 DEF Holding
  <2>3. CASE ~Operators!Appended(o)
    BY <1>3, <1>5, <2>3 DEF Operators!ReadHistory
  <2>. QED  BY <2>2, <2>3
<1>6. CASE Operators!NextFile(o)
  <2>. DEFINE first == Operators!First(op[o].todo)
  <2>1. op[o].at = "next" /\ Continues(op[o].files, op[o].todo)
    BY <1>2, <1>6 DEF Operators!NextFile
  <2>2. CASE op[o].todo = {}
    <3>1. op[o].files \subseteq Recorded
      BY <2>1, <2>2 DEF Continues
    <3>2. Operators!Goto(o, IF op[o].reconcile THEN "privileges" ELSE "unlock")
      BY <1>6, <2>2 DEF Operators!NextFile
    <3>. QED  BY <1>4, <2>1, <2>2, <3>1, <3>2 DEF Holding
  <2>3. CASE op[o].todo # {} /\ first.name \notin Operators!Applied
    <3>1. Operators!Goto(o, "insert") /\ IsNext(op[o].todo)
      BY <1>6, <2>3 DEF Operators!NextFile, IsNext
    <3>. QED  BY <1>4, <2>1, <3>1 DEF Holding
  <2>4. CASE op[o].todo # {} /\ first.name \in Operators!Applied /\ first \in Recorded
    <3>. DEFINE j == [op[o] EXCEPT !.todo = op[o].todo \ {first}]
    <3>1. op' = [op EXCEPT ![o] = j]
      BY <1>6, <2>4 DEF Operators!NextFile, Operators!Set, Recorded
    <3>2. /\ j \in Migrating /\ j.at = "next" /\ j.todo = op[o].todo \ {first} /\ j.files = op[o].files
      BY <1>1, <2>1 DEF Migrating
    <3>. HIDE DEF j
    <3>3. Continues(j.files, j.todo)
      BY <2>1, <2>4, <3>2 DEF Continues
    <3>. QED  BY <1>1, <1>2, <2>1, <3>1, <3>2, <3>3, MigrationMoves DEF Holding
  <2>5. CASE op[o].todo # {} /\ first.name \in Operators!Applied /\ first \notin Recorded
    BY <1>3, <1>6, <2>5 DEF Operators!NextFile, Recorded
  <2>. QED  BY <2>2, <2>3, <2>4, <2>5
<1>7. CASE Operators!ApplyFails(o)
  BY <1>3, <1>7 DEF Operators!ApplyFails
<1>. QED  BY <1>5, <1>6, <1>7

LEMMA LockStep ==
  ASSUME OperatorInv, NEW o \in Operator, Operators!pg_advisory_lock(o)
  PROVE  OperatorInv'
<1>. DEFINE j == [op[o] EXCEPT !.at = "history"]
<1>1. /\ op[o].at = "lock" /\ locker = "none" /\ locker' = o /\ op' = [op EXCEPT ![o] = j]
      /\ UNCHANGED <<task, schema, history, privileges, releases, discovery, inserted>>
  BY DEF Operators!pg_advisory_lock, Operators!Goto, Operators!Set, Operators!index
<1>2. task = "migrate" /\ op[o] \in Migrating /\ FilesSound(o) /\ OperatorTyped
  BY <1>1, WhatRuns
<1>3. j \in Migrating /\ j.at = "history" /\ j.todo = op[o].todo /\ j.files = op[o].files
  BY <1>2 DEF Migrating, Holding
<1>. HIDE DEF j
<1>4. j \in Runs /\ op'[o] = j /\ Runs' = Runs
  BY <1>1, <1>2, <1>3, WhatRuns DEF OperatorTyped
<1>5. OperatorTyped' /\ HistorySound' /\ RowsSound'
  <2>1. OperatorTyped'
    BY <1>1, <1>2, <1>4 DEF OperatorTyped
  <2>. QED  BY <1>1, <2>1 DEF OperatorInv, HistorySound, RowsSound
<1>6. LockSound(o)' /\ PassSound(o)'
  BY <1>1, <1>2, <1>3, <1>4 DEF LockSound, PassSound, Holding
<1>7. FilesSound(o)'
  BY <1>1, <1>2, <1>3, <1>4 DEF FilesSound
<1>8. \A d \in Operator \ {o} : locker' = d <=> locker = d
  BY <1>1, OperatorAssumption
<1>. QED  BY <1>1, <1>4, <1>5, <1>6, <1>7, <1>8, OtherOperators

\* A migration is done and recorded: it comes after what was applied.
LEMMA ApplyStep ==
  ASSUME OperatorInv, NEW o \in Operator, Operators!Apply(o)
  PROVE  OperatorInv'
<1>. DEFINE j == [op[o] EXCEPT !.at = "next"]
            new == Operators!First(op[o].todo)
            files == op[o].files
<1>1. /\ op[o].at = "insert" /\ op' = [op EXCEPT ![o] = j]
      /\ schema' = Append(schema, new) /\ history' = Append(history, new)
      /\ UNCHANGED <<task, privileges, locker, releases, discovery, inserted>>
  BY DEF Operators!Apply, Operators!Goto, Operators!Set, Operators!index
<1>2. task = "migrate" /\ op[o] \in Migrating /\ FilesSound(o) /\ OperatorTyped /\ locker = o
  BY <1>1, WhatRuns DEF LockSound, Holding
<1>3. j \in Migrating /\ j.at = "next" /\ j.todo = op[o].todo /\ j.files = files
  BY <1>2 DEF Migrating, Holding
<1>. HIDE DEF j
<1>4. j \in Runs /\ op'[o] = j /\ Runs' = Runs
  BY <1>1, <1>2, <1>3, WhatRuns DEF OperatorTyped
<1>5. /\ op[o].todo \subseteq files /\ Continues(files, op[o].todo) /\ IsNext(op[o].todo)
      /\ files \subseteq Migration
  BY <1>1, <1>2 DEF FilesSound, Migrating, Migration
<1>6. new \in op[o].todo /\ \A g \in op[o].todo : new.name <= g.name
  BY <1>5, FirstIsLeast DEF IsNext
<1>. HIDE DEF new
<1>7. new \in Migration /\ new \in files /\ new.name \in Nat /\ \A f \in files : f.name \in Nat
  BY <1>5, <1>6, OperatorAssumption DEF Migration
<1>8. new.name \notin Operators!Applied /\ \A n \in Operators!Applied : n < new.name
  <2>1. new.name \notin Operators!Applied
    BY <1>5 DEF IsNext, new
  <2>. QED  BY <1>5, <1>7, <2>1 DEF Continues
<1>9. history \in Seq(Migration) /\ history' \in Seq(Migration) /\ schema' = history'
  BY <1>1, <1>2, <1>7 DEF OperatorTyped
<1>10. /\ Len(history) \in Nat /\ DOMAIN history = 1 .. Len(history) /\ DOMAIN history' = 1 .. Len(history) + 1
       /\ \A i \in 1 .. Len(history) : history'[i] = history[i]
       /\ history'[Len(history) + 1] = new
  BY <1>1, <1>7, <1>9
<1>11. Recorded' = Recorded \cup {new}
  BY <1>10 DEF Recorded, Operators!ToSet
<1>12. Operators!Applied' = Operators!Applied \cup {new.name}
  BY <1>11 DEF Operators!Applied, Operators!Names, Recorded
<1>13. HistorySound'
  <2>1. \A i \in 1 .. Len(history) : history[i].name \in Operators!Applied
    BY <1>10 DEF Operators!Applied, Operators!Names, Operators!ToSet
  <2>2. ASSUME NEW i \in 1 .. Len(history) + 1, NEW k \in 1 .. Len(history) + 1, i < k
        PROVE  history'[i].name < history'[k].name
    <3>1. i \in 1 .. Len(history) /\ history'[i] = history[i]
      BY <1>10, <2>2
    <3>2. CASE k = Len(history) + 1
      BY <1>8, <1>10, <2>1, <3>1, <3>2
    <3>3. CASE k # Len(history) + 1
      <4>1. k \in 1 .. Len(history) /\ history'[k] = history[k]
        BY <1>10, <2>2, <3>3
      <4>. QED  BY <1>10, <2>2, <3>1, <4>1 DEF OperatorInv, HistorySound
    <3>. QED  BY <3>2, <3>3
  <2>. QED  BY <1>10, <2>2 DEF HistorySound
<1>14. Continues(files, op[o].todo)'
  <2>1. Operators!Applied' \subseteq Operators!Names(files)
    BY <1>5, <1>7, <1>12 DEF Continues, Operators!Names
  <2>2. ASSUME NEW f \in files, f.name \notin Operators!Applied'
        PROVE  \A n \in Operators!Applied' : n < f.name
    <3>1. f.name \notin Operators!Applied /\ f.name # new.name
      BY <1>12, <2>2
    <3>2. \A n \in Operators!Applied : n < f.name
      BY <1>5, <3>1 DEF Continues
    <3>3. f \notin Recorded
      BY <3>1 DEF Recorded, Operators!Applied, Operators!Names
    <3>4. new.name <= f.name
      BY <1>5, <1>6, <3>3 DEF Continues
    <3>. QED  BY <1>7, <1>12, <3>1, <3>2, <3>4
  <2>3. files \ op[o].todo \subseteq Recorded'
    BY <1>5, <1>11 DEF Continues
  <2>. QED  BY <1>3, <1>4, <2>1, <2>2, <2>3 DEF Continues, Operators!Names
<1>15. FilesSound(o)'
  <2>1. Continues(op[o].files, op[o].todo)'
    BY <1>14
  <2>. QED  BY <1>3, <1>4, <1>5, <2>1 DEF FilesSound
<1>16. LockSound(o)' /\ PassSound(o)'
  BY <1>1, <1>2, <1>3, <1>4 DEF LockSound, PassSound, Holding
<1>17. OperatorTyped' /\ RowsSound'
  <2>1. OperatorTyped'
    BY <1>1, <1>2, <1>4, <1>9 DEF OperatorTyped
  <2>. QED  BY <1>1, <2>1 DEF OperatorInv, RowsSound
<1>. QED  BY <1>1, <1>2, <1>4, <1>11, <1>13, <1>15, <1>16, <1>17, OtherOperators

\* What is applied is what o has the files of.
LEMMA ReconcileStep ==
  ASSUME OperatorInv, NEW o \in Operator, Operators!Reconcile(o)
  PROVE  OperatorInv'
<1>. DEFINE j == [op[o] EXCEPT !.at = "unlock"]
<1>1. /\ op[o].at = "privileges" /\ op' = [op EXCEPT ![o] = j] /\ privileges' = Operators!Names(op[o].files)
      /\ UNCHANGED <<task, schema, history, locker, releases, discovery, inserted>>
  BY DEF Operators!Reconcile, Operators!Granted, Operators!Goto, Operators!Set, Operators!index
<1>2. task = "migrate" /\ op[o] \in Migrating /\ FilesSound(o) /\ OperatorTyped /\ locker = o
  BY <1>1, WhatRuns DEF LockSound, Holding
<1>3. j \in Migrating /\ j.at = "unlock" /\ j.todo = op[o].todo /\ j.files = op[o].files
  BY <1>2 DEF Migrating, Holding
<1>. HIDE DEF j
<1>4. j \in Runs /\ op'[o] = j /\ Runs' = Runs
  BY <1>1, <1>2, <1>3, WhatRuns DEF OperatorTyped
<1>5. Operators!Applied \subseteq Operators!Names(op[o].files) /\ op[o].todo = {} /\ op[o].files \subseteq Recorded
  BY <1>1, <1>2 DEF FilesSound, Continues
<1>6. privileges' = Operators!Applied
  BY <1>1, <1>5 DEF Operators!Applied, Operators!Names, Recorded
<1>7. Operators!Applied' = Operators!Applied /\ Recorded' = Recorded
  BY <1>1 DEF Recorded, Operators!Applied
<1>8. LockSound(o)' /\ PassSound(o)'
  BY <1>1, <1>2, <1>3, <1>4 DEF LockSound, PassSound, Holding
<1>9. FilesSound(o)'
  BY <1>3, <1>4, <1>5, <1>6, <1>7 DEF FilesSound
<1>10. OperatorTyped' /\ HistorySound' /\ RowsSound'
  <2>1. OperatorTyped'
    BY <1>1, <1>2, <1>4 DEF OperatorTyped
  <2>. QED  BY <1>1, <2>1 DEF OperatorInv, HistorySound, RowsSound
<1>. QED  BY <1>1, <1>2, <1>4, <1>7, <1>8, <1>9, <1>10, OtherOperators

\* The lock is given back, or freed when its owner dies.
LEMMA ReleaseStep ==
  ASSUME OperatorInv, NEW o \in Operator, Operators!Unlock(o) \/ Operators!Die(o)
  PROVE  OperatorInv'
<1>1. UNCHANGED <<task, schema, history, privileges, releases, discovery, inserted>>
  BY DEF Operators!Unlock, Operators!Die, Operators!index
<1>2. LockSound(o) /\ FilesSound(o) /\ OperatorTyped /\ op \in [Operator -> Runs]
  BY WhatRuns DEF OperatorTyped
<1>3. Operators!Applied' = Operators!Applied /\ Recorded' = Recorded
  BY <1>1 DEF Recorded, Operators!Applied
<1>4. PICK j \in Runs : /\ op' = [op EXCEPT ![o] = j] /\ locker' = IF locker = o THEN "none" ELSE locker
                        /\ LockSound(o)' /\ FilesSound(o)' /\ PassSound(o)'
  <2>1. CASE Operators!Unlock(o)
    <3>. DEFINE j == [op[o] EXCEPT !.at = "done"]
    <3>1. op[o].at = "unlock" /\ op' = [op EXCEPT ![o] = j] /\ locker' = "none"
      BY <2>1 DEF Operators!Unlock, Operators!Goto, Operators!Set
    <3>2. task = "migrate" /\ op[o] \in Migrating /\ locker = o
      BY <1>2, <3>1, WhatRuns DEF LockSound, Holding
    <3>3. /\ j \in Migrating /\ j.at = "done" /\ j.todo = op[o].todo /\ j.files = op[o].files /\ j.ok = op[o].ok
      BY <3>2 DEF Migrating
    <3>. HIDE DEF j
    <3>4. j \in Runs /\ op'[o] = j
      BY <1>2, <3>1, <3>2, <3>3, WhatRuns
    <3>5. FilesSound(o)'
      BY <1>1, <1>2, <1>3, <3>1, <3>2, <3>3, <3>4 DEF FilesSound
    <3>6. LockSound(o)' /\ PassSound(o)'
      BY <1>1, <3>1, <3>2, <3>3, <3>4, OperatorAssumption DEF LockSound, PassSound, Holding
    <3>. QED  BY <3>1, <3>2, <3>4, <3>5, <3>6
  <2>2. CASE Operators!Die(o)
    <3>1. op' = [op EXCEPT ![o] = Operators!Idle] /\ locker' = IF locker = o THEN "none" ELSE locker
      BY <2>2 DEF Operators!Die, Operators!Set
    <3>2. op'[o] = Operators!Idle /\ locker' # o /\ Operators!Idle \in Runs
      BY <1>2, <3>1, WhatRuns, OperatorAssumption
    <3>. QED  BY <3>1, <3>2, IdleSound
  <2>. QED  BY <2>1, <2>2
<1>5. Runs' = Runs
  BY <1>1, WhatRuns
<1>6. OperatorTyped' /\ HistorySound' /\ RowsSound'
  <2>1. OperatorTyped'
    BY <1>1, <1>2, <1>4, <1>5 DEF OperatorTyped
  <2>. QED  BY <1>1, <2>1 DEF OperatorInv, HistorySound, RowsSound
<1>7. \A d \in Operator \ {o} : locker' = d <=> locker = d
  BY <1>4, OperatorAssumption
<1>. QED  BY <1>1, <1>4, <1>6, <1>7, OtherOperators

\* A batch that is not empty when something is missing beyond the cursor.
LEMMA BatchFindsMissing ==
  ASSUME OperatorTyped, NEW after \in Nat, NEW limit \in Nat \ {0}
  PROVE  /\ Operators!Batch(after, limit) \subseteq releases
         /\ Operators!Batch(after, limit) = {} => \A r \in Operators!Missing : r <= after
<1>. DEFINE found == {r \in Operators!Missing : r > after}
<1>1. found \in SUBSET Nat /\ found \subseteq releases /\ \A r \in Operators!Missing : r \in Nat
  BY OperatorAssumption DEF OperatorTyped, Operators!Missing
<1>2. Operators!Batch(after, limit) = {r \in found : Cardinality({q \in found : q < r}) < limit}
  <2>1. \A S : Operators!Cardinality(S) = Cardinality(S)
    BY DEF Operators!Cardinality, Cardinality
  <2>. QED  BY <2>1 DEF Operators!Batch
<1>4. \A r \in Operators!Missing : r \in found \/ r <= after
  BY <1>1
<1>. HIDE DEF found
<1>3. ASSUME found # {}
      PROVE  Operators!Batch(after, limit) # {}
  <2>1. PICK r \in found : \A q \in found : r <= q
    BY <1>1, <1>3, LeastExists
  <2>2. {q \in found : q < r} = {}
    <3>1. \A q \in found : ~(q < r)
      BY <1>1, <2>1
    <3>. QED  BY <3>1
  <2>3. Cardinality({q \in found : q < r}) = 0
    BY <2>2, FS_EmptySet
  <2>. QED  BY <1>2, <2>1, <2>3
<1>5. Operators!Batch(after, limit) \subseteq found
  BY <1>2
<1>. QED  BY <1>1, <1>3, <1>4, <1>5

\* A pass goes on, ends, or begins again.
LEMMA SelectStep ==
  ASSUME OperatorInv, NEW o \in Operator, Operators!Select(o)
  PROVE  OperatorInv'
<1>. DEFINE r == op[o]
            limit == Operators!Min({BatchSize, maxReleases - r.processed})
            batch == Operators!Batch(r.after, limit)
<1>1. /\ UNCHANGED <<task, Operators!database, Operators!index>> /\ UNCHANGED <<locker, releases, discovery>>
      /\ r.at = "select"
  BY DEF Operators!Select, Operators!database, Operators!index
<1>2. task = "reindex" /\ r \in Reindexing /\ LockSound(o) /\ PassSound(o) /\ OperatorTyped /\ locker # o
  BY <1>1, WhatRuns DEF LockSound, Holding
<1>3. /\ r.after \in Nat /\ r.processed \in Nat /\ r.batch \subseteq releases /\ releases \in SUBSET Release
      /\ op \in [Operator -> Runs]
  BY <1>1, <1>2 DEF Reindexing, PassSound, OperatorTyped
<1>4. ASSUME NEW j \in Reindexing, op' = [op EXCEPT ![o] = j], j.batch \subseteq releases,
             j.at = "row" => j.batch # {},
             j.at = "done" /\ j.complete => j.looked \subseteq discovery
      PROVE  OperatorInv'
  <2>1. j \in Runs /\ op'[o] = j
    BY <1>2, <1>3, <1>4, WhatRuns
  <2>2. j.at \notin Holding
    BY <1>4 DEF Reindexing, Holding
  <2>3. LockSound(o)' /\ FilesSound(o)' /\ PassSound(o)'
    BY <1>1, <1>2, <1>4, <2>1, <2>2 DEF LockSound, FilesSound, PassSound
  <2>. QED  BY <1>1, <1>4, <2>1, <2>3, OperatorMoves
<1>5. ASSUME NEW complete \in BOOLEAN, Operators!Finish(o, complete), complete => Operators!Missing = {}
      PROVE  OperatorInv'
  <2>. DEFINE k == [r EXCEPT !.at = "done", !.complete = complete]
              j == [k EXCEPT !.looked = releases]
  <2>1. op' = [op EXCEPT ![o] = j]
    BY <1>5 DEF Operators!Finish, Operators!Look, Operators!Set
  <2>2. k \in Reindexing /\ k.at = "done" /\ k.complete = complete /\ k.batch = r.batch
    BY <1>2 DEF Reindexing
  <2>. HIDE DEF k
  <2>3. j \in Reindexing /\ j.at = "done" /\ j.complete = complete /\ j.batch = r.batch /\ j.looked = releases
    BY <1>3, <2>2 DEF Reindexing
  <2>. HIDE DEF j
  <2>4. complete => releases \subseteq discovery
    BY <1>5 DEF Operators!Missing
  <2>. QED  BY <1>3, <1>4, <2>1, <2>3, <2>4
<1>6. CASE r.processed >= maxReleases
  <2>1. Operators!Finish(o, Operators!Missing = {})
    BY <1>6 DEF Operators!Select
  <2>. QED  BY <1>5, <2>1
<1>7. CASE ~(r.processed >= maxReleases)
  <2>1. limit \in Nat \ {0}
    <3>1. BatchSize \in Nat \ {0} /\ maxReleases - r.processed \in Nat \ {0}
      BY <1>3, <1>7, OperatorAssumption
    <3>2. \A m, n \in Nat \ {0} : Operators!Min({m, n}) \in Nat \ {0}
      <4>1. \A m, n \in Nat \ {0} : m <= n \/ n <= m
        OBVIOUS
      <4>. QED  BY <4>1 DEF Operators!Min
    <3>. QED  BY <3>1, <3>2
  <2>. HIDE DEF limit
  <2>2. batch \subseteq releases /\ (batch = {} => \A q \in Operators!Missing : q <= r.after)
    BY <1>2, <1>3, <2>1, BatchFindsMissing
  <2>3. \/ batch # {} /\ Operators!Look(o, [op[o] EXCEPT !.at = "row", !.batch = batch])
        \/ batch = {} /\ Operators!FirstPass(o) /\ Operators!Finish(o, TRUE)
        \/ batch = {} /\ Operators!Look(o, [op[o] EXCEPT !.after = 0])
    BY <1>7 DEF Operators!Select, limit
  <2>. HIDE DEF batch
  <2>4. CASE batch # {} /\ Operators!Look(o, [op[o] EXCEPT !.at = "row", !.batch = batch])
    <3>. DEFINE k == [r EXCEPT !.at = "row", !.batch = batch]
                j == [k EXCEPT !.looked = releases]
    <3>1. op' = [op EXCEPT ![o] = j]
      BY <2>4 DEF Operators!Look, Operators!Set
    <3>2. k \in Reindexing /\ k.at = "row" /\ k.batch = batch
      BY <1>2, <1>3, <2>2 DEF Reindexing
    <3>. HIDE DEF k
    <3>3. j \in Reindexing /\ j.at = "row" /\ j.batch = batch
      BY <1>3, <3>2 DEF Reindexing
    <3>. HIDE DEF j
    <3>. QED  BY <1>4, <2>2, <2>4, <3>1, <3>3
  <2>5. CASE batch = {} /\ Operators!FirstPass(o) /\ Operators!Finish(o, TRUE)
    <3>1. \A q \in Operators!Missing : q \in Nat \ {0} /\ q <= 0
      BY <1>3, <2>2, <2>5, OperatorAssumption DEF Operators!FirstPass, Operators!Missing
    <3>2. Operators!Missing = {}
      BY <3>1
    <3>. QED  BY <1>5, <2>5, <3>2
  <2>6. CASE Operators!Look(o, [op[o] EXCEPT !.after = 0])
    <3>. DEFINE k == [r EXCEPT !.after = 0]
                j == [k EXCEPT !.looked = releases]
    <3>1. op' = [op EXCEPT ![o] = j]
      BY <2>6 DEF Operators!Look, Operators!Set
    <3>2. k \in Reindexing /\ k.at = "select" /\ k.batch = r.batch
      BY <1>1, <1>2 DEF Reindexing
    <3>. HIDE DEF k
    <3>3. j \in Reindexing /\ j.at = "select" /\ j.batch = r.batch
      BY <1>3, <3>2 DEF Reindexing
    <3>. HIDE DEF j
    <3>. QED  BY <1>3, <1>4, <3>1, <3>3
  <2>. QED  BY <2>3, <2>4, <2>5, <2>6
<1>. QED  BY <1>6, <1>7

\* A row is inserted, unless there is one by now.
LEMMA ReindexRowStep ==
  ASSUME OperatorInv, NEW o \in Operator, Operators!ReindexRow(o)
  PROVE  OperatorInv'
<1>. DEFINE r == Operators!Min(op[o].batch)
            rest == op[o].batch \ {r}
            indexed == IF r \notin discovery THEN op[o].indexed + 1 ELSE op[o].indexed
            next == IF rest = {} THEN "select" ELSE "row"
            j == [op[o] EXCEPT !.batch = rest, !.after = r, !.processed = @ + 1, !.indexed = indexed, !.at = next]
<1>1. /\ op[o].at = "row" /\ UNCHANGED <<task, schema, history, privileges, locker, releases>>
      /\ discovery' = discovery \cup {r}
      /\ inserted' = [inserted EXCEPT ![r] = IF r \notin discovery THEN inserted[r] + 1 ELSE inserted[r]]
      /\ op' = [op EXCEPT ![o] = [op[o] EXCEPT !.batch = rest, !.after = r, !.processed = @ + 1,
                                    !.indexed = IF r \notin discovery THEN @ + 1 ELSE @, !.at = next]]
  BY DEF Operators!ReindexRow, Operators!Set, Operators!database
<1>2. task = "reindex" /\ op[o] \in Reindexing /\ LockSound(o) /\ PassSound(o) /\ OperatorTyped /\ locker # o
  BY <1>1, WhatRuns DEF LockSound, Holding
<1>3. op[o].batch \subseteq releases /\ op[o].batch # {} /\ releases \in SUBSET Release
  BY <1>1, <1>2 DEF PassSound, OperatorTyped
<1>4. r \in op[o].batch /\ r \in Nat
  <2>1. op[o].batch \in SUBSET Nat
    BY <1>3, OperatorAssumption
  <2>2. \E m \in op[o].batch : \A n \in op[o].batch : m <= n
    BY <1>3, <2>1, LeastExists
  <2>. QED  BY <2>1, <2>2 DEF Operators!Min
<1>. HIDE DEF r
<1>5. op' = [op EXCEPT ![o] = j] /\ rest \subseteq releases /\ rest \in SUBSET Release
  BY <1>1, <1>3 DEF j
<1>6. j \in Reindexing /\ j.at = next /\ j.batch = rest
  <2>1. op[o].processed + 1 \in Nat /\ indexed \in Nat /\ next \in {"select", "row"}
    BY <1>2 DEF Reindexing
  <2>. HIDE DEF indexed, next, rest
  <2>. QED  BY <1>2, <1>4, <1>5, <2>1 DEF Reindexing
<1>. HIDE DEF j
<1>7. j \in Runs /\ op'[o] = j /\ Runs' = Runs
  BY <1>1, <1>2, <1>5, <1>6, WhatRuns DEF OperatorTyped
<1>8. LockSound(o)' /\ FilesSound(o)' /\ PassSound(o)'
  BY <1>1, <1>2, <1>5, <1>6, <1>7 DEF LockSound, FilesSound, PassSound, Holding
<1>9. inserted' \in [Release -> Nat] /\ discovery' \in SUBSET releases'
  BY <1>1, <1>2, <1>3, <1>4 DEF OperatorTyped
<1>10. OperatorTyped'
  BY <1>1, <1>2, <1>5, <1>7, <1>9 DEF OperatorTyped
<1>11. RowsSound'
  BY <1>1, <1>2, <1>3, <1>4 DEF OperatorInv, OperatorTyped, RowsSound
<1>12. HistorySound' /\ Recorded' = Recorded
  BY <1>1 DEF OperatorInv, HistorySound, Recorded
<1>. QED  BY <1>1, <1>5, <1>7, <1>8, <1>10, <1>11, <1>12, OtherOperators

LEMMA SubmitStep ==
  ASSUME OperatorInv, NEW r \in Release, NEW old \in BOOLEAN, Operators!Submit(r, old)
  PROVE  OperatorInv'
<1>1. /\ UNCHANGED <<task, schema, history, privileges, locker, op>> /\ r \notin releases
      /\ releases' = releases \cup {r} /\ discovery' = IF old THEN discovery ELSE discovery \cup {r}
      /\ inserted' = [inserted EXCEPT ![r] = IF old THEN inserted[r] ELSE inserted[r] + 1]
  BY DEF Operators!Submit, Operators!database
<1>2. OperatorTyped' /\ RowsSound'
  <2>1. OperatorTyped /\ RowsSound /\ r \notin discovery
    BY <1>1 DEF OperatorInv, OperatorTyped
  <2>2. Runs' = Runs
    BY <1>1 DEF Runs
  <2>3. inserted' \in [Release -> Nat] /\ discovery' \in SUBSET releases' /\ releases' \in SUBSET Release
    BY <1>1, <2>1 DEF OperatorTyped
  <2>4. OperatorTyped'
    BY <1>1, <2>1, <2>2, <2>3 DEF OperatorTyped
  <2>5. RowsSound'
    BY <1>1, <2>1 DEF RowsSound, OperatorTyped
  <2>. QED  BY <2>4, <2>5
<1>3. HistorySound'
  BY <1>1 DEF OperatorInv, HistorySound
<1>4. ASSUME NEW o \in Operator
      PROVE  LockSound(o)' /\ FilesSound(o)' /\ PassSound(o)'
  <2>1. LockSound(o) /\ FilesSound(o) /\ PassSound(o)
    BY DEF OperatorInv
  <2>2. LockSound(o)' /\ PassSound(o)'
    BY <1>1, <2>1 DEF LockSound, PassSound
  <2>3. FilesSound(o)'
    BY <1>1, <2>1 DEF FilesSound, Continues, IsNext, Recorded, Operators!Applied
  <2>. QED  BY <2>2, <2>3
<1>. QED  BY <1>2, <1>3, <1>4 DEF OperatorInv

LEMMA OperatorNext ==
  ASSUME OperatorInv, Operators!Next
  PROVE  OperatorInv'
<1>1. ASSUME NEW o \in Operator, Operators!Step(o)
      PROVE  OperatorInv'
  BY <1>1, BeginStep, LockStep, MigrateStep, ApplyStep, ReconcileStep, ReleaseStep, SelectStep, ReindexRowStep
  DEF Operators!Step
<1>. QED  BY <1>1, SubmitStep DEF Operators!Next

LEMMA OperatorStutter ==
  ASSUME OperatorInv, UNCHANGED operatorVars
  PROVE  OperatorInv'
BY DEF operatorVars, OperatorInv, OperatorTyped, Runs, HistorySound, RowsSound, LockSound, FilesSound, PassSound,
       Continues, IsNext, Recorded, Operators!Applied

\* Maintenance: for any operators, versions of the program and releases, migrations
\* are done once and in order, whoever succeeds finds its own, privileges are those
\* of what is applied, and a reindexing that is complete left nothing behind.
THEOREM MaintenanceIsSound == EdgeSpec => []MaintenanceSound
<1>1. EdgeInit => (part = "operators" => OperatorInv)
  BY OperatorInit DEF EdgeInit
<1>2. /\ part = "operators" => OperatorInv
      /\ [EdgeNext]_<<part, browserVars, limiterVars, pageVars, clientVars, loreVars, operatorVars, tabVars>>
      => (part = "operators" => OperatorInv)'
  BY OperatorNext, OperatorStutter DEF EdgeNext
<1>3. (part = "operators" => OperatorInv) => MaintenanceSound
  <2>. SUFFICES ASSUME OperatorInv
                PROVE  Operators!MigratedOnce /\ Operators!ReindexedAll
    BY DEF MaintenanceSound, Operators!MaintenanceSound
  <2>1. Operators!MigratedOnce
    <3>1. schema = history /\ HistorySound
      BY DEF OperatorInv, OperatorTyped
    <3>2. ASSUME NEW o \in Operator, task = "migrate", op[o].at = "done", op[o].ok
          PROVE  op[o].files \subseteq Operators!ToSet(history)
      BY <3>2 DEF OperatorInv, FilesSound, Recorded
    <3>3. ASSUME NEW o \in Operator, locker = o, op[o].at = "unlock", op[o].ok, op[o].reconcile
          PROVE  privileges = Operators!Applied
      BY <3>3, WhatRuns DEF FilesSound, Holding
    <3>. QED  BY <3>1, <3>2, <3>3 DEF Operators!MigratedOnce, HistorySound
  <2>2. Operators!ReindexedAll
    BY DEF OperatorInv, RowsSound, PassSound, Operators!ReindexedAll
  <2>. QED  BY <2>1, <2>2
<1>. QED  BY <1>1, <1>2, <1>3, PTL DEF EdgeSpec

-----------------------------------------------------------------------------
(* Orders: of sequences, by the first place where they differ.                *)

\* R is a strict and total order of A.
StrictlyOrders(R, A) ==
  /\ \A a \in A : <<a, a>> \notin R
  /\ \A a, b, c \in A : <<a, b>> \in R /\ <<b, c>> \in R => <<a, c>> \in R
  /\ \A a, b \in A : a = b \/ <<a, b>> \in R \/ <<b, a>> \in R

\* s and t have the same elements before place i ...
AgreeBefore(s, t, i) == \A j \in Nat \ {0} : j < i => j <= Len(s) /\ j <= Len(t) /\ s[j] = t[j]

\* ... where s ends, or has an element that comes before that of t.
PrecedesAt(s, t, i, R) ==
  /\ i <= Len(t) /\ AgreeBefore(s, t, i)
  /\ i > Len(s) \/ <<s[i], t[i]>> \in R

Precedes(s, t, R) == \E i \in Nat \ {0} : PrecedesAt(s, t, i, R)

LexOrder(A, R) == {p \in Seq(A) \X Seq(A) : Precedes(p[1], p[2], R)}

LEMMA PrecedesStrictly ==
  ASSUME NEW A, NEW R, StrictlyOrders(R, A), NEW s \in Seq(A)
  PROVE  ~Precedes(s, s, R)
<1>. SUFFICES ASSUME NEW i \in Nat \ {0}, PrecedesAt(s, s, i, R) PROVE FALSE
  BY DEF Precedes
<1>1. i <= Len(s) /\ <<s[i], s[i]>> \in R
  BY DEF PrecedesAt
<1>2. s[i] \in A
  BY <1>1
<1>. QED  BY <1>1, <1>2 DEF StrictlyOrders

LEMMA PrecedesTransitively ==
  ASSUME NEW A, NEW R, StrictlyOrders(R, A), NEW s \in Seq(A), NEW t \in Seq(A), NEW u \in Seq(A),
         Precedes(s, t, R), Precedes(t, u, R)
  PROVE  Precedes(s, u, R)
<1>1. PICK i \in Nat \ {0} : PrecedesAt(s, t, i, R)
  BY DEF Precedes
<1>2. PICK k \in Nat \ {0} : PrecedesAt(t, u, k, R)
  BY DEF Precedes
<1>3. /\ \A j \in 1 .. Len(s) : s[j] \in A
      /\ \A j \in 1 .. Len(t) : t[j] \in A
      /\ \A j \in 1 .. Len(u) : u[j] \in A
      /\ Len(s) \in Nat /\ Len(t) \in Nat /\ Len(u) \in Nat
  OBVIOUS
<1>4. CASE i < k
  <2>1. i <= Len(u) /\ t[i] = u[i]
    BY <1>2, <1>4 DEF PrecedesAt, AgreeBefore
  <2>2. AgreeBefore(s, u, i)
    BY <1>1, <1>2, <1>4 DEF PrecedesAt, AgreeBefore
  <2>3. PrecedesAt(s, u, i, R)
    BY <1>1, <2>1, <2>2 DEF PrecedesAt
  <2>. QED  BY <2>3 DEF Precedes
<1>5. CASE k < i
  <2>1. k <= Len(s) /\ k <= Len(t) /\ s[k] = t[k]
    BY <1>1, <1>5 DEF PrecedesAt, AgreeBefore
  <2>2. AgreeBefore(s, u, k) /\ k <= Len(u)
    BY <1>1, <1>2, <1>5 DEF PrecedesAt, AgreeBefore
  <2>3. k <= Len(t) => <<t[k], u[k]>> \in R
    BY <1>2, <1>3 DEF PrecedesAt
  <2>4. PrecedesAt(s, u, k, R)
    BY <2>1, <2>2, <2>3 DEF PrecedesAt
  <2>. QED  BY <2>4 DEF Precedes
<1>6. CASE i = k
  <2>1. i <= Len(s) => <<s[i], u[i]>> \in R
    <3>. SUFFICES ASSUME i <= Len(s) PROVE <<s[i], u[i]>> \in R
      OBVIOUS
    <3>1. s[i] \in A /\ t[i] \in A /\ u[i] \in A
      BY <1>1, <1>2, <1>3, <1>6 DEF PrecedesAt
    <3>2. <<s[i], t[i]>> \in R /\ <<t[i], u[i]>> \in R
      BY <1>1, <1>2, <1>3, <1>6 DEF PrecedesAt
    <3>. QED  BY <3>1, <3>2 DEF StrictlyOrders
  <2>2. AgreeBefore(s, u, i) /\ i <= Len(u)
    BY <1>1, <1>2, <1>6 DEF PrecedesAt, AgreeBefore
  <2>3. PrecedesAt(s, u, i, R)
    BY <1>3, <2>1, <2>2 DEF PrecedesAt
  <2>. QED  BY <2>3 DEF Precedes
<1>. QED  BY <1>4, <1>5, <1>6

\* Of two sequences one ends first, or they differ at a place.
LEMMA FirstDifference ==
  ASSUME NEW A, NEW s \in Seq(A), NEW t \in Seq(A), s # t
  PROVE  \E m \in Nat \ {0} :
           /\ AgreeBefore(s, t, m) /\ AgreeBefore(t, s, m)
           /\ \/ m > Len(s) /\ m <= Len(t)
              \/ m > Len(t) /\ m <= Len(s)
              \/ m <= Len(s) /\ m <= Len(t) /\ s[m] # t[m]
<1>1. Len(s) \in Nat /\ Len(t) \in Nat
  OBVIOUS
<1> DEFINE D == {i \in Nat \ {0} : i > Len(s) \/ i > Len(t) \/ s[i] # t[i]}
<1>2. Len(s) + 1 \in D /\ D \subseteq Nat
  BY <1>1
<1>3. PICK m \in D : \A i \in D : m <= i
  BY <1>2, LeastExists
<1>4. \A j \in Nat \ {0} : j < m => j <= Len(s) /\ j <= Len(t) /\ s[j] = t[j]
  BY <1>1, <1>3
<1>5. ~ (m > Len(s) /\ m > Len(t))
  <2>. SUFFICES ASSUME m > Len(s), m > Len(t) PROVE s = t
    OBVIOUS
  <2>1. Len(s) = Len(t)
    <3>1. ~ (Len(s) < Len(t))
      BY <1>1, <1>4
    <3>2. ~ (Len(t) < Len(s))
      BY <1>1, <1>4
    <3>. QED  BY <1>1, <3>1, <3>2
  <2>2. \A j \in 1 .. Len(s) : s[j] = t[j]
    BY <1>1, <1>4
  <2>. QED  BY <2>1, <2>2
<1>6. m \in Nat \ {0} /\ (m > Len(s) \/ m > Len(t) \/ s[m] # t[m])
  OBVIOUS
<1>. HIDE DEF D
<1>. QED  BY <1>1, <1>4, <1>5, <1>6 DEF AgreeBefore

LEMMA PrecedesTotally ==
  ASSUME NEW A, NEW R, StrictlyOrders(R, A), NEW s \in Seq(A), NEW t \in Seq(A), s # t
  PROVE  Precedes(s, t, R) \/ Precedes(t, s, R)
<1>1. PICK m \in Nat \ {0} :
        /\ AgreeBefore(s, t, m) /\ AgreeBefore(t, s, m)
        /\ \/ m > Len(s) /\ m <= Len(t)
           \/ m > Len(t) /\ m <= Len(s)
           \/ m <= Len(s) /\ m <= Len(t) /\ s[m] # t[m]
  BY FirstDifference
<1>2. CASE m > Len(s) /\ m <= Len(t)
  BY <1>1, <1>2 DEF Precedes, PrecedesAt
<1>3. CASE m > Len(t) /\ m <= Len(s)
  BY <1>1, <1>3 DEF Precedes, PrecedesAt
<1>4. CASE m <= Len(s) /\ m <= Len(t) /\ s[m] # t[m]
  <2>1. s[m] \in A /\ t[m] \in A
    BY <1>4
  <2>2. <<s[m], t[m]>> \in R \/ <<t[m], s[m]>> \in R
    BY <1>4, <2>1 DEF StrictlyOrders
  <2>3. PrecedesAt(s, t, m, R) \/ PrecedesAt(t, s, m, R)
    BY <1>1, <1>4, <2>2 DEF PrecedesAt
  <2>. QED  BY <2>3 DEF Precedes
<1>. QED  BY <1>1, <1>2, <1>3, <1>4

\* The order of sequences is one if that of their elements is.
LEMMA LexOrders ==
  ASSUME NEW A, NEW R, StrictlyOrders(R, A)
  PROVE  StrictlyOrders(LexOrder(A, R), Seq(A))
<1>1. \A s, t \in Seq(A) : <<s, t>> \in LexOrder(A, R) <=> Precedes(s, t, R)
  BY DEF LexOrder
<1>2. \A s \in Seq(A) : ~Precedes(s, s, R)
  BY PrecedesStrictly
<1>3. \A s, t, u \in Seq(A) : Precedes(s, t, R) /\ Precedes(t, u, R) => Precedes(s, u, R)
  BY PrecedesTransitively
<1>4. \A s, t \in Seq(A) : s = t \/ Precedes(s, t, R) \/ Precedes(t, s, R)
  BY PrecedesTotally
<1>. HIDE DEF LexOrder
<1>. QED  BY <1>1, <1>2, <1>3, <1>4 DEF StrictlyOrders

\* What is put before two sequences moves their first difference.
LEMMA Shifted ==
  ASSUME NEW A, NEW R, NEW p \in Seq(A), NEW s \in Seq(A), NEW t \in Seq(A), Precedes(s, t, R)
  PROVE  Precedes(p \o s, p \o t, R)
<1>1. PICK i \in Nat \ {0} : PrecedesAt(s, t, i, R)
  BY DEF Precedes
<1>2. /\ Len(p) \in Nat /\ Len(s) \in Nat /\ Len(t) \in Nat
      /\ Len(p \o s) = Len(p) + Len(s) /\ Len(p \o t) = Len(p) + Len(t)
      /\ \A j \in 1 .. Len(p) : (p \o s)[j] = p[j] /\ (p \o t)[j] = p[j]
      /\ \A j \in 1 .. Len(s) : (p \o s)[Len(p) + j] = s[j]
      /\ \A j \in 1 .. Len(t) : (p \o t)[Len(p) + j] = t[j]
  OBVIOUS
<1> DEFINE k == Len(p) + i
           x == p \o s
           y == p \o t
<1>3. k \in Nat \ {0} /\ k <= Len(y) /\ (i > Len(s) => k > Len(x))
  BY <1>1, <1>2 DEF PrecedesAt
<1>4. i <= Len(s) => x[k] = s[i] /\ y[k] = t[i]
  BY <1>1, <1>2 DEF PrecedesAt
<1>5. ASSUME NEW j \in Nat \ {0}, j < k
      PROVE  j <= Len(x) /\ j <= Len(y) /\ x[j] = y[j]
  <2>1. CASE j <= Len(p)
    BY <1>2, <2>1
  <2>2. CASE j > Len(p)
    <3>1. PICK l \in Nat \ {0} : j = Len(p) + l
      <4>1. j - Len(p) \in Nat \ {0} /\ j = Len(p) + (j - Len(p))
        BY <1>2, <2>2
      <4>. QED  BY <4>1
    <3>2. l < i
      BY <1>2, <1>5, <3>1
    <3>3. l <= Len(s) /\ l <= Len(t) /\ s[l] = t[l]
      BY <1>1, <3>2 DEF PrecedesAt, AgreeBefore
    <3>. HIDE DEF x, y
    <3>4. x[j] = s[l] /\ y[j] = t[l]
      BY <1>2, <3>1, <3>3 DEF x, y
    <3>. QED  BY <1>2, <3>1, <3>3, <3>4 DEF x, y
  <2>. QED  BY <1>2, <2>1, <2>2
<1>. HIDE DEF k, x, y
<1>6. AgreeBefore(x, y, k)
  BY <1>5 DEF AgreeBefore
<1>7. i > Len(s) \/ (i <= Len(s) /\ <<s[i], t[i]>> \in R)
  BY <1>1, <1>2 DEF PrecedesAt
<1>8. PrecedesAt(x, y, k, R)
  BY <1>3, <1>4, <1>6, <1>7 DEF PrecedesAt
<1>. QED  BY <1>3, <1>8 DEF Precedes, x, y

-----------------------------------------------------------------------------
(* Orders: the places of the members of a finite set.                         *)

\* What comes before k.
Below(K, R, k) == {l \in K : <<l, k>> \in R}

LEMMA Ranks ==
  ASSUME NEW K, IsFiniteSet(K), NEW R, StrictlyOrders(R, K)
  PROVE  /\ \A k \in K : Cardinality(Below(K, R, k)) \in 0 .. Cardinality(K) - 1
         /\ \A k, l \in K : <<l, k>> \in R => Cardinality(Below(K, R, l)) < Cardinality(Below(K, R, k))
         /\ \A i \in 0 .. Cardinality(K) - 1 : \E k \in K : Cardinality(Below(K, R, k)) = i
<1>1. \A S \in SUBSET K : IsFiniteSet(S) /\ Cardinality(S) \in Nat
  BY FS_Subset, FS_CardinalityType
<1>2. ASSUME NEW S \in SUBSET K, NEW T \in SUBSET K, S \subseteq T, S # T
      PROVE  Cardinality(S) < Cardinality(T)
  BY <1>1, <1>2, FS_Subset
<1>3. ASSUME NEW k \in K
      PROVE  Cardinality(Below(K, R, k)) \in 0 .. Cardinality(K) - 1
  <2>1. Below(K, R, k) \in SUBSET K /\ k \notin Below(K, R, k)
    BY DEF Below, StrictlyOrders
  <2>2. Cardinality(Below(K, R, k)) < Cardinality(K)
    BY <1>2, <2>1
  <2>. QED  BY <1>1, <2>1, <2>2
<1>4. ASSUME NEW k \in K, NEW l \in K, <<l, k>> \in R
      PROVE  Cardinality(Below(K, R, l)) < Cardinality(Below(K, R, k))
  <2>1. Below(K, R, l) \in SUBSET K /\ Below(K, R, k) \in SUBSET K
    BY DEF Below
  <2>2. Below(K, R, l) \subseteq Below(K, R, k)
    BY <1>4 DEF Below, StrictlyOrders
  <2>3. l \in Below(K, R, k) /\ l \notin Below(K, R, l)
    BY <1>4 DEF Below, StrictlyOrders
  <2>. QED  BY <1>2, <2>1, <2>2, <2>3
<1> DEFINE N == 0 .. Cardinality(K) - 1
           place == [k \in K |-> Cardinality(Below(K, R, k))]
<1>5. Cardinality(K) \in Nat
  BY <1>1
<1>6. IsFiniteSet(N) /\ Cardinality(N) = Cardinality(K)
  <2>1. Cardinality(K) - 1 \in Int /\ (0 > Cardinality(K) - 1 <=> Cardinality(K) = 0)
    BY <1>5
  <2>2. IsFiniteSet(N) /\ Cardinality(N) = IF 0 > Cardinality(K) - 1 THEN 0 ELSE Cardinality(K) - 1 - 0 + 1
    BY <2>1, FS_Interval
  <2>. QED  BY <1>5, <2>1, <2>2
<1>7. place \in Injection(K, N)
  <2>1. place \in [K -> N]
    BY <1>3
  <2>2. ASSUME NEW k \in K, NEW l \in K, place[k] = place[l]
        PROVE  k = l
    <3>1. place[k] \in Nat /\ place[l] \in Nat
      BY <1>3, <1>5
    <3>2. <<k, l>> \notin R /\ <<l, k>> \notin R
      BY <1>4, <2>2, <3>1
    <3>. QED  BY <3>2 DEF StrictlyOrders
  <2>. HIDE DEF place, N
  <2>. QED  BY <2>1, <2>2 DEF Injection, IsInjective
<1>8. place \in Surjection(K, N)
  <2>. HIDE DEF place, N
  <2>. QED  BY <1>6, <1>7, FS_Injection
<1>9. \A i \in N : \E k \in K : place[k] = i
  <2>. HIDE DEF place, N
  <2>. QED  BY <1>8 DEF Surjection
<1>. QED  BY <1>3, <1>4, <1>9

-----------------------------------------------------------------------------
(* Lists: the order of versions.                                              *)

CodeOrder == {p \in Nat \X Nat : p[1] < p[2]}
TextOrder == LexOrder(Nat, CodeOrder)

Text == Seq(Nat)

LEMMA CodesOrdered == StrictlyOrders(CodeOrder, Nat)
<1>1. \A a, b \in Nat : <<a, b>> \in CodeOrder <=> a < b
  BY DEF CodeOrder
<1>. HIDE DEF CodeOrder
<1>. QED  BY <1>1 DEF StrictlyOrders

LEMMA TextsOrdered == StrictlyOrders(TextOrder, Text)
  BY CodesOrdered, LexOrders DEF TextOrder, Text

LEMMA Prefix ==
  ASSUME NEW A, NEW s \in Seq(A), NEW t \in Seq(A)
  PROVE  IsStrictPrefix(s, t) <=> Len(s) < Len(t) /\ AgreeBefore(s, t, Len(s) + 1)
<1>1. Len(s) \in Nat /\ Len(t) \in Nat
  OBVIOUS
<1>2. ASSUME Len(s) <= Len(t)
      PROVE  SubSeq(s, 1, Len(s)) = SubSeq(t, 1, Len(s)) <=> \A i \in 1 .. Len(s) : s[i] = t[i]
  <2>1. /\ SubSeq(s, 1, Len(s)) \in Seq(A) /\ Len(SubSeq(s, 1, Len(s))) = Len(s)
        /\ \A i \in 1 .. Len(s) : SubSeq(s, 1, Len(s))[i] = s[i]
    BY <1>1
  <2>2. /\ SubSeq(t, 1, Len(s)) \in Seq(A) /\ Len(SubSeq(t, 1, Len(s))) = Len(s)
        /\ \A i \in 1 .. Len(s) : SubSeq(t, 1, Len(s))[i] = t[i]
    BY <1>1, <1>2
  <2>3. ASSUME NEW a \in Seq(A), NEW b \in Seq(A), Len(a) = Len(s), Len(b) = Len(s),
               \A i \in 1 .. Len(s) : a[i] = s[i], \A i \in 1 .. Len(s) : b[i] = t[i]
        PROVE  a = b <=> \A i \in 1 .. Len(s) : s[i] = t[i]
    <3>1. ASSUME \A i \in 1 .. Len(s) : s[i] = t[i]
          PROVE  a = b
      <4>1. Len(a) = Len(b) /\ \A i \in 1 .. Len(a) : a[i] = b[i]
        BY <2>3, <3>1
      <4>. QED  BY <4>1, SeqEqual
    <3>. QED  BY <2>3, <3>1
  <2>. QED  BY <2>1, <2>2, <2>3, Zenon
<1>3. (\A i \in 1 .. Len(s) : s[i] = t[i]) /\ Len(s) = Len(t) => s = t
  OBVIOUS
<1>4. Len(s) <= Len(t) => (AgreeBefore(s, t, Len(s) + 1) <=> \A i \in 1 .. Len(s) : s[i] = t[i])
  BY <1>1 DEF AgreeBefore
<1>. QED  BY <1>1, <1>2, <1>3, <1>4 DEF IsStrictPrefix, IsPrefix

LEMMA Lesser ==
  ASSUME NEW a \in Nat, NEW b \in Nat
  PROVE  Min({a, b}) = IF a <= b THEN a ELSE b
BY DEF Min

LEMMA Differing ==
  ASSUME NEW A, NEW s \in Seq(A), NEW t \in Seq(A)
  PROVE  \A i : i \in Differ(s, t) <=> /\ i \in 1 .. Len(s) /\ i <= Len(t) /\ s[i] # t[i]
                                       /\ AgreeBefore(s, t, i)
<1>1. Len(s) \in Nat /\ Len(t) \in Nat
  OBVIOUS
<1>2. 1 .. Min({Len(s), Len(t)}) = {i \in 1 .. Len(s) : i <= Len(t)}
  BY <1>1, Lesser
<1>3. \A i \in 1 .. Len(s) : i <= Len(t) => (AgreeBefore(s, t, i) <=> \A j \in 1 .. i - 1 : s[j] = t[j])
  BY <1>1 DEF AgreeBefore
<1>. QED  BY <1>1, <1>2, <1>3 DEF Differ

\* The two ways of saying that one comes before the other.
LEMMA Comparing ==
  ASSUME NEW A, NEW R, StrictlyOrders(R, A), NEW s \in Seq(A), NEW t \in Seq(A)
  PROVE  Precedes(s, t, R) <=> IsStrictPrefix(s, t) \/ \E i \in Differ(s, t) : <<s[i], t[i]>> \in R
<1>1. /\ Len(s) \in Nat /\ Len(t) \in Nat
      /\ \A j \in 1 .. Len(s) : s[j] \in A
      /\ \A j \in 1 .. Len(t) : t[j] \in A
  OBVIOUS
<1>2. ASSUME NEW i \in Nat \ {0}, PrecedesAt(s, t, i, R)
      PROVE  IsStrictPrefix(s, t) \/ \E k \in Differ(s, t) : <<s[k], t[k]>> \in R
  <2>1. CASE i > Len(s)
    <3>1. i - 1 \in Nat /\ i - 1 <= Len(s)
      <4>1. i # 1 => i - 1 \in Nat \ {0} /\ i - 1 < i
        OBVIOUS
      <4>. QED  BY <1>1, <1>2, <4>1 DEF PrecedesAt, AgreeBefore
    <3>2. i = Len(s) + 1
      BY <1>1, <2>1, <3>1
    <3>. QED  BY <1>1, <1>2, <3>2, Prefix DEF PrecedesAt
  <2>2. CASE i <= Len(s)
    <3>1. s[i] \in A /\ i <= Len(t) /\ <<s[i], t[i]>> \in R
      BY <1>1, <1>2, <2>2 DEF PrecedesAt
    <3>2. s[i] # t[i]
      BY <3>1 DEF StrictlyOrders
    <3>3. i \in Differ(s, t)
      BY <1>1, <1>2, <2>2, <3>1, <3>2, Differing DEF PrecedesAt
    <3>. QED  BY <3>1, <3>3
  <2>3. i > Len(s) \/ i <= Len(s)
    BY <1>1
  <2>. QED  BY <2>1, <2>2, <2>3
<1>3. ASSUME IsStrictPrefix(s, t)
      PROVE  Precedes(s, t, R)
  <2>1. PrecedesAt(s, t, Len(s) + 1, R)
    BY <1>1, <1>3, Prefix DEF PrecedesAt
  <2>. QED  BY <1>1, <2>1 DEF Precedes
<1>4. ASSUME NEW i \in Differ(s, t), <<s[i], t[i]>> \in R
      PROVE  Precedes(s, t, R)
  <2>1. i \in Nat \ {0} /\ PrecedesAt(s, t, i, R)
    BY <1>1, <1>4, Differing DEF PrecedesAt
  <2>. QED  BY <2>1 DEF Precedes
<1>. QED  BY <1>2, <1>3, <1>4 DEF Precedes

LEMMA TextComparing ==
  \A s, t \in Text : TextLess(s, t) <=> <<s, t>> \in TextOrder
<1> SUFFICES ASSUME NEW s \in Text, NEW t \in Text
             PROVE  TextLess(s, t) <=> <<s, t>> \in TextOrder
  OBVIOUS
<1>1. <<s, t>> \in TextOrder <=> Precedes(s, t, CodeOrder)
  BY DEF TextOrder, LexOrder, Text
<1>2. \A i \in Differ(s, t) : <<s[i], t[i]>> \in CodeOrder <=> s[i] < t[i]
  <2>1. \A i \in Differ(s, t) : s[i] \in Nat /\ t[i] \in Nat
    BY Differing DEF Text
  <2>. QED  BY <2>1 DEF CodeOrder
<1>. QED  BY <1>1, <1>2, Comparing, CodesOrdered DEF TextLess, Text

LEMMA KeyComparing ==
  \A s, t \in Seq(Text) : KeyLess(s, t) <=> <<s, t>> \in LexOrder(Text, TextOrder)
<1> SUFFICES ASSUME NEW s \in Seq(Text), NEW t \in Seq(Text)
             PROVE  KeyLess(s, t) <=> <<s, t>> \in LexOrder(Text, TextOrder)
  OBVIOUS
<1>1. <<s, t>> \in LexOrder(Text, TextOrder) <=> Precedes(s, t, TextOrder)
  BY DEF LexOrder
<1>2. \A i \in Differ(s, t) : <<s[i], t[i]>> \in TextOrder <=> TextLess(s[i], t[i])
  <2>1. \A i \in Differ(s, t) : s[i] \in Text /\ t[i] \in Text
    BY Differing
  <2>. QED  BY <2>1, TextComparing
<1>. QED  BY <1>1, <1>2, Comparing, TextsOrdered DEF KeyLess

LEMMA TextsAreTotal ==
  \A s, t \in Text :
    /\ s = t \/ TextLess(s, t) \/ TextLess(t, s)
    /\ ~ (TextLess(s, t) /\ TextLess(t, s)) /\ ~TextLess(s, s)
BY TextComparing, TextsOrdered DEF StrictlyOrders

-----------------------------------------------------------------------------
(* Numbers, and identifiers of a prerelease.                                  *)

Number == {n \in Text : IsNumber(n)}
Identifier == {id \in Text : id # <<>> /\ (IsNumeric(id) => IsNumber(id))}

LEMMA Zero == Min(Digit) \in Nat /\ \A d \in Digit : Min(Digit) <= d /\ d \in Nat
<1>1. PICK z \in Digit : \A d \in Digit : z <= d
  BY VersionAssumption, LeastExists
<1>. QED  BY <1>1, VersionAssumption DEF Min

LEMMA NumbersAreTotal ==
  \A m, n \in Text : m = n \/ NumberLess(m, n) \/ NumberLess(n, m)
<1>. SUFFICES ASSUME NEW m \in Text, NEW n \in Text
              PROVE  m = n \/ NumberLess(m, n) \/ NumberLess(n, m)
  OBVIOUS
<1>1. Len(m) \in Nat /\ Len(n) \in Nat
  BY DEF Text
<1>. QED  BY <1>1, TextsAreTotal DEF NumberLess


LEMMA ByFirstCode ==
  ASSUME NEW s \in Text, NEW t \in Text, s # <<>>, t # <<>>, s[1] < t[1]
  PROVE  Precedes(s, t, CodeOrder)
<1>1. 1 <= Len(s) /\ 1 <= Len(t) /\ s[1] \in Nat /\ t[1] \in Nat
  BY DEF Text
<1>2. AgreeBefore(s, t, 1)
  BY DEF AgreeBefore
<1>3. <<s[1], t[1]>> \in CodeOrder
  BY <1>1 DEF CodeOrder
<1>4. PrecedesAt(s, t, 1, CodeOrder)
  BY <1>1, <1>2, <1>3 DEF PrecedesAt
<1>. QED  BY <1>4 DEF Precedes

LEMMA Padded ==
  ASSUME NEW m \in Number, Len(m) <= CoreWidth
  PROVE  LET w == CoreWidth - Len(m) IN
         /\ w \in Nat /\ Len(m) \in Nat \ {0}
         /\ lpad(m) = [i \in 1 .. w |-> Min(Digit)] \o m /\ [i \in 1 .. w |-> Min(Digit)] \in Text
         /\ lpad(m) \in Text /\ Len(lpad(m)) = CoreWidth
         /\ \A i \in 1 .. w : lpad(m)[i] = Min(Digit)
         /\ \A i \in 1 .. Len(m) : lpad(m)[w + i] = m[i] /\ m[i] \in Digit
<1> DEFINE w == CoreWidth - Len(m)
           p == [i \in 1 .. w |-> Min(Digit)]
<1>1. m \in Text /\ m \in Seq(Digit) /\ Len(m) \in Nat \ {0} /\ CoreWidth \in Nat
  BY VersionAssumption DEF Number, IsNumber, Text
<1>2. w \in Nat
  BY <1>1
<1>3. p \in Text /\ Len(p) = w /\ \A i \in 1 .. w : p[i] = Min(Digit)
  <2>. HIDE DEF w
  <2>. QED  BY <1>2, Zero DEF Text
<1>4. lpad(m) = p \o m
  BY DEF lpad
<1>. HIDE DEF p
<1>5. /\ p \o m \in Text /\ Len(p \o m) = w + Len(m)
      /\ \A i \in 1 .. w : (p \o m)[i] = Min(Digit)
      /\ \A i \in 1 .. Len(m) : (p \o m)[w + i] = m[i] /\ m[i] \in Digit
  <2>. HIDE DEF w
  <2>1. \A i \in 1 .. Len(m) : m[i] \in Digit
    BY <1>1
  <2>2. /\ p \o m \in Seq(Nat) /\ Len(p \o m) = Len(p) + Len(m)
        /\ \A i \in 1 .. Len(p) : (p \o m)[i] = p[i]
        /\ \A i \in 1 .. Len(m) : (p \o m)[Len(p) + i] = m[i]
    <3>1. p \in Seq(Nat) /\ m \in Seq(Nat)
      BY <1>1, <1>3 DEF Text
    <3>2. \A x, y \in Seq(Nat) :
            /\ x \o y \in Seq(Nat) /\ Len(x \o y) = Len(x) + Len(y)
            /\ \A i \in 1 .. Len(x) : (x \o y)[i] = x[i]
            /\ \A i \in 1 .. Len(y) : (x \o y)[Len(x) + i] = y[i]
      OBVIOUS
    <3>. QED  BY <3>1, <3>2, Zenon
  <2>. QED  BY <1>3, <2>1, <2>2 DEF Text
<1>6. w + Len(m) = CoreWidth
  BY <1>1
<1>. QED  BY <1>1, <1>2, <1>3, <1>4, <1>5, <1>6 DEF p

LEMMA PaddedOrder ==
  ASSUME NEW m \in Number, NEW n \in Number, Len(m) <= CoreWidth, Len(n) <= CoreWidth, NumberLess(m, n)
  PROVE  Precedes(lpad(m), lpad(n), CodeOrder)
<1>1. m \in Text /\ n \in Text /\ CoreWidth \in Nat
  BY VersionAssumption DEF Number
<1>2. CASE Len(m) = Len(n)
  <2>1. Precedes(m, n, CodeOrder)
    <3>1. TextLess(m, n)
      BY <1>1, <1>2 DEF NumberLess, Text
    <3>. QED  BY <1>1, <3>1, TextComparing DEF TextOrder, LexOrder
  <2>2. PICK p \in Text : lpad(m) = p \o m /\ lpad(n) = p \o n
    BY <1>2, Padded
  <2>. QED  BY <1>1, <2>1, <2>2, Shifted DEF Text
<1>3. CASE Len(m) < Len(n)
  <2> DEFINE k == CoreWidth - Len(n) + 1
             z == Min(Digit)
             x == lpad(m)
             y == lpad(n)
  <2>1. /\ Len(m) \in Nat \ {0} /\ Len(n) \in Nat \ {0} /\ Len(x) = CoreWidth /\ Len(y) = CoreWidth
        /\ \A i \in 1 .. CoreWidth - Len(m) : x[i] = z
        /\ \A i \in 1 .. CoreWidth - Len(n) : y[i] = z
        /\ \A i \in 1 .. Len(n) : y[CoreWidth - Len(n) + i] = n[i] /\ n[i] \in Digit
    BY Padded
  <2>2. k \in 1 .. CoreWidth - Len(m) /\ k <= CoreWidth /\ k \in Nat \ {0}
    BY <1>1, <1>3, <2>1
  <2>3. x[k] = z /\ y[k] = n[1] /\ n[1] \in Digit
    BY <1>1, <2>1, <2>2
  <2>4. n[1] # z
    BY <1>1, <1>3, <2>1 DEF Number, IsNumber
  <2>5. AgreeBefore(x, y, k)
    <3>1. ASSUME NEW j \in Nat \ {0}, j < k
          PROVE  j <= CoreWidth /\ x[j] = z /\ y[j] = z
      <4>1. j \in 1 .. CoreWidth - Len(m) /\ j \in 1 .. CoreWidth - Len(n) /\ j <= CoreWidth
        BY <1>1, <1>3, <2>1, <3>1
      <4>. QED  BY <2>1, <4>1
    <3>. HIDE DEF k, x, y, z
    <3>. QED  BY <2>1, <3>1 DEF AgreeBefore
  <2>. HIDE DEF k, x, y, z
  <2>6. <<x[k], y[k]>> \in CodeOrder
    BY <2>3, <2>4, Zero DEF CodeOrder, z
  <2>7. PrecedesAt(x, y, k, CodeOrder)
    BY <2>1, <2>2, <2>5, <2>6 DEF PrecedesAt
  <2>. QED  BY <2>2, <2>7 DEF Precedes, x, y
<1>. QED  BY <1>2, <1>3 DEF NumberLess

LEMMA IdentifiersAreTotal ==
  \A a, b \in Identifier : a = b \/ IdentifierLess(a, b) \/ IdentifierLess(b, a)
BY NumbersAreTotal, TextsAreTotal DEF Identifier, IdentifierLess, IsNumeric

LEMMA IdentifierKeys ==
  ASSUME NEW a \in Identifier
  PROVE  /\ Len(a) \in Nat \ {0} /\ <<0, Len(a)>> \in Text /\ <<1>> \in Text
         /\ IdentifierKey(a) = (IF IsNumeric(a) THEN <<0, Len(a)>> ELSE <<1>>) \o a
         /\ IdentifierKey(a) \in Text /\ IdentifierKey(a) # <<>>
         /\ IdentifierKey(a)[1] = IF IsNumeric(a) THEN 0 ELSE 1
         /\ IsNumeric(a) => Len(IdentifierKey(a)) >= 2 /\ IdentifierKey(a)[2] = Len(a)
<1>1. a \in Text /\ Len(a) \in Nat \ {0}
  BY DEF Identifier, Text
<1> DEFINE p == IF IsNumeric(a) THEN <<0, Len(a)>> ELSE <<1>>
<1>2. p \in Text /\ Len(p) \in 1 .. 2 /\ p[1] = (IF IsNumeric(a) THEN 0 ELSE 1)
      /\ (IsNumeric(a) => Len(p) = 2 /\ p[2] = Len(a))
  BY <1>1 DEF Text
<1>3. IdentifierKey(a) = p \o a
  BY DEF IdentifierKey
<1>. HIDE DEF p
<1>4. /\ p \o a \in Seq(Nat) /\ Len(p \o a) = Len(p) + Len(a)
      /\ \A i \in 1 .. Len(p) : (p \o a)[i] = p[i]
  BY <1>1, <1>2 DEF Text
<1>5. p \o a \in Text /\ p \o a # <<>> /\ (p \o a)[1] = p[1]
      /\ (IsNumeric(a) => Len(p \o a) >= 2 /\ (p \o a)[2] = p[2])
  BY <1>1, <1>2, <1>4 DEF Text
<1>. QED  BY <1>1, <1>2, <1>3, <1>5 DEF p, Text

LEMMA IdentifierKeyOrder ==
  ASSUME NEW a \in Identifier, NEW b \in Identifier, IdentifierLess(a, b)
  PROVE  Precedes(IdentifierKey(a), IdentifierKey(b), CodeOrder)
<1> DEFINE x == IdentifierKey(a)
           y == IdentifierKey(b)
<1>1. /\ a \in Text /\ b \in Text /\ x \in Text /\ y \in Text /\ x # <<>> /\ y # <<>>
      /\ x[1] = (IF IsNumeric(a) THEN 0 ELSE 1) /\ y[1] = (IF IsNumeric(b) THEN 0 ELSE 1)
  BY IdentifierKeys DEF Identifier
<1>2. CASE IsNumeric(a) # IsNumeric(b)
  <2>1. x[1] < y[1]
    BY <1>1, <1>2 DEF IdentifierLess, IsNumeric
  <2>. QED  BY <1>1, <2>1, ByFirstCode
<1>3. ASSUME NEW p \in Text, x = p \o a, y = p \o b, TextLess(a, b)
      PROVE  Precedes(x, y, CodeOrder)
  <2>1. Precedes(a, b, CodeOrder)
    BY <1>1, <1>3, TextComparing DEF TextOrder, LexOrder
  <2>. HIDE DEF x, y
  <2>. QED  BY <1>1, <1>3, <2>1, Shifted DEF Text
<1>4. CASE ~IsNumeric(a) /\ ~IsNumeric(b)
  <2>1. x = <<1>> \o a /\ y = <<1>> \o b /\ <<1>> \in Text
    BY <1>4, IdentifierKeys
  <2>. QED  BY <1>3, <1>4, <2>1 DEF IdentifierLess
<1>5. CASE IsNumeric(a) /\ IsNumeric(b)
  <2>1. NumberLess(a, b)
    BY <1>5 DEF IdentifierLess
  <2>2. CASE Len(a) = Len(b)
    <3>1. x = <<0, Len(a)>> \o a /\ y = <<0, Len(a)>> \o b /\ <<0, Len(a)>> \in Text
      BY <1>5, <2>2, IdentifierKeys
    <3>2. TextLess(a, b)
      BY <1>1, <2>1, <2>2 DEF NumberLess, Text
    <3>. QED  BY <1>3, <3>1, <3>2
  <2>3. CASE Len(a) < Len(b)
    <3>1. /\ Len(x) >= 2 /\ Len(y) >= 2 /\ x[1] = 0 /\ y[1] = 0 /\ x[2] = Len(a) /\ y[2] = Len(b)
          /\ Len(x) \in Nat /\ Len(y) \in Nat /\ Len(a) \in Nat /\ Len(b) \in Nat
      <4>1. x[1] = 0 /\ y[1] = 0
        BY <1>1, <1>5
      <4>2. Len(x) >= 2 /\ Len(y) >= 2 /\ x[2] = Len(a) /\ y[2] = Len(b)
        BY <1>5, IdentifierKeys
      <4>3. Len(x) \in Nat /\ Len(y) \in Nat /\ Len(a) \in Nat /\ Len(b) \in Nat
        BY <1>1 DEF Text
      <4>. QED  BY <4>1, <4>2, <4>3
    <3>. HIDE DEF x, y
    <3>2. AgreeBefore(x, y, 2)
      BY <3>1 DEF AgreeBefore
    <3>3. <<x[2], y[2]>> \in CodeOrder
      BY <2>3, <3>1 DEF CodeOrder
    <3>4. PrecedesAt(x, y, 2, CodeOrder)
      BY <3>1, <3>2, <3>3 DEF PrecedesAt
    <3>. QED  BY <3>4 DEF Precedes, x, y
  <2>. QED  BY <2>1, <2>2, <2>3 DEF NumberLess
<1>. QED  BY <1>2, <1>4, <1>5

-----------------------------------------------------------------------------
(* Versions.                                                                 *)

LEMMA SortKeyPlaces ==
  ASSUME NEW v \in Semver
  PROVE  LET k == SortKey(v) IN
         /\ v.core \in Seq(Text) /\ v.pre \in Seq(Text) /\ v.build \in Text
         /\ Len(v.core) = 3 /\ \A i \in 1 .. 3 : v.core[i] \in Number /\ Len(v.core[i]) <= CoreWidth
         /\ \A i \in 1 .. Len(v.pre) : v.pre[i] \in Identifier
         /\ k \in Seq(Text) /\ Len(k) = 4 + Len(v.pre)
         /\ \A i \in 1 .. 3 : k[i] = lpad(v.core[i])
         /\ k[4] = <<IF v.pre = <<>> THEN 1 ELSE 0>>
         /\ \A i \in 1 .. Len(v.pre) : k[4 + i] = IdentifierKey(v.pre[i])
<1>1. /\ v.core \in Seq(Text) /\ v.pre \in Seq(Text) /\ v.build \in Text
      /\ Len(v.core) = 3 /\ Len(v.pre) \in Nat /\ DOMAIN v.pre = 1 .. Len(v.pre)
  BY DEF Semver, Text
<1>2. \A i \in 1 .. 3 : v.core[i] \in Number /\ Len(v.core[i]) <= CoreWidth
  BY <1>1 DEF Semver, Text, Number
<1>3. \A i \in 1 .. Len(v.pre) : v.pre[i] \in Identifier
  BY <1>1 DEF Semver, Text, Identifier
<1> DEFINE c == [i \in 1 .. 3 |-> lpad(v.core[i])]
           q == [i \in 1 .. Len(v.pre) |-> IdentifierKey(v.pre[i])]
           m == << <<IF v.pre = <<>> THEN 1 ELSE 0>> >>
<1>4. c \in Seq(Text) /\ Len(c) = 3 /\ \A i \in 1 .. 3 : c[i] = lpad(v.core[i])
  <2>1. \A i \in 1 .. 3 : lpad(v.core[i]) \in Text
    BY <1>2, Padded
  <2>. QED  BY <2>1
<1>5. q \in Seq(Text) /\ Len(q) = Len(v.pre) /\ \A i \in 1 .. Len(v.pre) : q[i] = IdentifierKey(v.pre[i])
  <2>1. \A i \in 1 .. Len(v.pre) : IdentifierKey(v.pre[i]) \in Text
    BY <1>3, IdentifierKeys
  <2>. QED  BY <1>1, <2>1
<1>6. m \in Seq(Text) /\ Len(m) = 1 /\ m[1] = <<IF v.pre = <<>> THEN 1 ELSE 0>>
  BY DEF Text
<1>6a. \A x, y \in Seq(Text) :
         /\ x \o y \in Seq(Text) /\ Len(x \o y) = Len(x) + Len(y)
         /\ \A i \in 1 .. Len(x) : (x \o y)[i] = x[i]
         /\ \A i \in 1 .. Len(y) : (x \o y)[Len(x) + i] = y[i]
  OBVIOUS
<1>7. v.pre = <<>> => q = <<>> /\ m \o q = m
  BY <1>1, <1>5, <1>6
<1>8. SortKey(v) = c \o (m \o q)
  <2>1. CASE v.pre = <<>>
    BY <1>7, <2>1 DEF SortKey
  <2>2. CASE v.pre # <<>>
    BY <1>1, <2>2 DEF SortKey
  <2>. QED  BY <2>1, <2>2
<1>. HIDE DEF c, q, m
<1>9. /\ m \o q \in Seq(Text) /\ Len(m \o q) = 1 + Len(v.pre) /\ (m \o q)[1] = m[1]
      /\ \A i \in 1 .. Len(v.pre) : (m \o q)[1 + i] = q[i]
  <2>1. /\ m \o q \in Seq(Text) /\ Len(m \o q) = Len(m) + Len(q)
        /\ \A i \in 1 .. Len(m) : (m \o q)[i] = m[i]
        /\ \A i \in 1 .. Len(q) : (m \o q)[Len(m) + i] = q[i]
    BY <1>5, <1>6, <1>6a, Zenon
  <2>. QED  BY <1>5, <1>6, <2>1
<1>10. /\ c \o (m \o q) \in Seq(Text) /\ Len(c \o (m \o q)) = 4 + Len(v.pre)
       /\ \A i \in 1 .. 3 : (c \o (m \o q))[i] = c[i]
       /\ \A i \in 1 .. 1 + Len(v.pre) : (c \o (m \o q))[3 + i] = (m \o q)[i]
  <2>1. 3 + (1 + Len(v.pre)) = 4 + Len(v.pre)
    BY <1>1
  <2>2. /\ c \o (m \o q) \in Seq(Text) /\ Len(c \o (m \o q)) = Len(c) + Len(m \o q)
        /\ \A i \in 1 .. Len(c) : (c \o (m \o q))[i] = c[i]
        /\ \A i \in 1 .. Len(m \o q) : (c \o (m \o q))[Len(c) + i] = (m \o q)[i]
    BY <1>4, <1>9, <1>6a, Zenon
  <2>. QED  BY <1>4, <1>9, <2>1, <2>2
<1>11. (c \o (m \o q))[4] = m[1]
  <2>1. 1 \in 1 .. 1 + Len(v.pre) /\ 3 + 1 = 4
    BY <1>1
  <2>. QED  BY <1>9, <1>10, <2>1
<1>12. \A i \in 1 .. Len(v.pre) : (c \o (m \o q))[4 + i] = q[i]
  <2> TAKE i \in 1 .. Len(v.pre)
  <2>1. 1 + i \in 1 .. 1 + Len(v.pre) /\ 3 + (1 + i) = 4 + i
    BY <1>1
  <2>. QED  BY <1>9, <1>10, <2>1
<1>. QED  BY <1>1, <1>2, <1>3, <1>4, <1>5, <1>6, <1>8, <1>10, <1>11, <1>12

\* The key is ordered as the program orders versions.
LEMMA PrecedenceKeys ==
  ASSUME NEW v \in Semver, NEW w \in Semver, PrecedenceLess(v, w)
  PROVE  KeyLess(SortKey(v), SortKey(w))
<1> DEFINE x == SortKey(v)
           y == SortKey(w)
           c == v.core
           d == w.core
           p == v.pre
           q == w.pre
<1>1. /\ c \in Seq(Text) /\ p \in Seq(Text) /\ Len(c) = 3
      /\ \A i \in 1 .. 3 : c[i] \in Number /\ Len(c[i]) <= CoreWidth
      /\ \A i \in 1 .. Len(p) : p[i] \in Identifier
      /\ x \in Seq(Text) /\ Len(x) = 4 + Len(p)
      /\ \A i \in 1 .. 3 : x[i] = lpad(c[i])
      /\ x[4] = <<IF p = <<>> THEN 1 ELSE 0>>
      /\ \A i \in 1 .. Len(p) : x[4 + i] = IdentifierKey(p[i])
  BY SortKeyPlaces
<1>2. /\ d \in Seq(Text) /\ q \in Seq(Text) /\ Len(d) = 3
      /\ \A i \in 1 .. 3 : d[i] \in Number /\ Len(d[i]) <= CoreWidth
      /\ \A i \in 1 .. Len(q) : q[i] \in Identifier
      /\ y \in Seq(Text) /\ Len(y) = 4 + Len(q)
      /\ \A i \in 1 .. 3 : y[i] = lpad(d[i])
      /\ y[4] = <<IF q = <<>> THEN 1 ELSE 0>>
      /\ \A i \in 1 .. Len(q) : y[4 + i] = IdentifierKey(q[i])
  BY SortKeyPlaces
<1>3. \/ \E i \in Differ(c, d) : NumberLess(c[i], d[i])
      \/ /\ c = d /\ p # <<>>
         /\ q = <<>> \/ IsStrictPrefix(p, q) \/ \E i \in Differ(p, q) : IdentifierLess(p[i], q[i])
  BY DEF PrecedenceLess
<1>. HIDE DEF x, y, c, d, p, q
<1>4. SUFFICES \E i \in Nat \ {0} : PrecedesAt(x, y, i, TextOrder)
  <2>1. Precedes(x, y, TextOrder) => <<x, y>> \in LexOrder(Text, TextOrder)
    BY <1>1, <1>2 DEF LexOrder
  <2>. QED  BY <1>1, <1>2, <2>1, KeyComparing DEF x, y, Precedes
<1>5. /\ Len(p) \in Nat /\ Len(q) \in Nat /\ Len(x) = 4 + Len(p) /\ Len(y) = 4 + Len(q)
      /\ (p = <<>> <=> Len(p) = 0) /\ (q = <<>> <=> Len(q) = 0)
      /\ \A i \in 1 .. Len(x) : x[i] \in Text
      /\ \A i \in 1 .. Len(y) : y[i] \in Text
  <2>1. p \in Seq(Text) /\ q \in Seq(Text) /\ x \in Seq(Text) /\ y \in Seq(Text)
        /\ Len(x) = 4 + Len(p) /\ Len(y) = 4 + Len(q)
    BY <1>1, <1>2
  <2>. QED  BY <2>1
<1>6. ASSUME NEW i \in Nat \ {0}, i <= Len(x), i <= Len(y), AgreeBefore(x, y, i),
             Precedes(x[i], y[i], CodeOrder)
      PROVE  PrecedesAt(x, y, i, TextOrder)
  <2>1. i \in 1 .. Len(x) /\ i \in 1 .. Len(y)
    BY <1>5, <1>6
  <2>2. x[i] \in Text /\ y[i] \in Text
    BY <1>5, <2>1
  <2>3. <<x[i], y[i]>> \in TextOrder
    BY <1>6, <2>2 DEF TextOrder, LexOrder, Text
  <2>. QED  BY <1>6, <2>3 DEF PrecedesAt
<1>7. CASE \E i \in Differ(c, d) : NumberLess(c[i], d[i])
  <2>1. PICK i \in Differ(c, d) : NumberLess(c[i], d[i])
    BY <1>7
  <2>2. i \in 1 .. 3 /\ AgreeBefore(c, d, i)
    BY <1>1, <1>2, Differing
  <2>3. AgreeBefore(x, y, i)
    <3>1. ASSUME NEW j \in Nat \ {0}, j < i
          PROVE  x[j] = y[j] /\ j <= 3
      <4>1. c[j] = d[j] /\ j \in 1 .. 3 /\ j <= 3
        BY <2>2, <3>1 DEF AgreeBefore
      <4>2. x[j] = lpad(c[j]) /\ y[j] = lpad(d[j])
        BY <1>1, <1>2, <4>1
      <4>. QED  BY <4>1, <4>2
    <3>. QED  BY <1>5, <3>1 DEF AgreeBefore
  <2>4. Precedes(x[i], y[i], CodeOrder)
    <3>1. /\ c[i] \in Number /\ Len(c[i]) <= CoreWidth /\ x[i] = lpad(c[i])
          /\ d[i] \in Number /\ Len(d[i]) <= CoreWidth /\ y[i] = lpad(d[i])
      BY <1>1, <1>2, <2>2
    <3>. QED  BY <2>1, <3>1, PaddedOrder
  <2>5. i \in Nat \ {0} /\ i <= Len(x) /\ i <= Len(y)
    BY <1>5, <2>2
  <2>. QED  BY <1>6, <2>3, <2>4, <2>5
<1>8. ASSUME c = d, p # <<>>,
             q = <<>> \/ IsStrictPrefix(p, q) \/ \E i \in Differ(p, q) : IdentifierLess(p[i], q[i])
      PROVE  \E i \in Nat \ {0} : PrecedesAt(x, y, i, TextOrder)
  <2>1. \A j \in Nat \ {0} : j < 4 => x[j] = y[j]
    <3>. TAKE j \in Nat \ {0}
    <3>. HAVE j < 4
    <3>1. j \in 1 .. 3
      OBVIOUS
    <3>. QED  BY <1>1, <1>2, <1>8, <3>1
  <2>2. CASE q = <<>>
    <3>1. x[4] = <<0>> /\ y[4] = <<1>>
      BY <1>1, <1>2, <1>8, <2>2
    <3>2. Precedes(x[4], y[4], CodeOrder)
      <4>1. <<0>> \in Text /\ <<1>> \in Text /\ <<0>>[1] < <<1>>[1] /\ <<0>> # <<>> /\ <<1>> # <<>>
        BY DEF Text
      <4>. QED  BY <3>1, <4>1, ByFirstCode
    <3>3. AgreeBefore(x, y, 4) /\ 4 <= Len(x) /\ 4 <= Len(y)
      BY <1>5, <2>1 DEF AgreeBefore
    <3>. QED  BY <1>6, <3>2, <3>3
  <2>3. ASSUME q # <<>>, NEW i \in Nat \ {0}, AgreeBefore(p, q, i)
        PROVE  AgreeBefore(x, y, 4 + i)
    <3>1. ASSUME NEW j \in Nat \ {0}, j < 4 + i, j > 4
          PROVE  j <= Len(x) /\ j <= Len(y) /\ x[j] = y[j]
      <4>1. PICK k \in Nat \ {0} : j = 4 + k
        <5>1. j - 4 \in Nat \ {0} /\ j = 4 + (j - 4)
          BY <3>1
        <5>. QED  BY <5>1
      <4>2. k < i
        BY <3>1, <4>1
      <4>3. k <= Len(p) /\ k <= Len(q) /\ p[k] = q[k]
        BY <2>3, <4>2 DEF AgreeBefore
      <4>4. k \in 1 .. Len(p) /\ k \in 1 .. Len(q)
        BY <1>5, <4>3
      <4>5. x[4 + k] = IdentifierKey(p[k]) /\ y[4 + k] = IdentifierKey(q[k])
        BY <1>1, <1>2, <4>4
      <4>. QED  BY <1>5, <4>1, <4>3, <4>5
    <3>2. x[4] = y[4] /\ 4 <= Len(x) /\ 4 <= Len(y)
      BY <1>1, <1>2, <1>5, <1>8, <2>3
    <3>3. \A j \in Nat \ {0} : j < 4 => j <= Len(x) /\ j <= Len(y) /\ x[j] = y[j]
      BY <1>5, <2>1
    <3>. QED  BY <3>1, <3>2, <3>3 DEF AgreeBefore
  <2>4. CASE IsStrictPrefix(p, q)
    <3> DEFINE i == Len(p) + 1
    <3>1. Len(p) < Len(q) /\ AgreeBefore(p, q, i)
      BY <1>1, <1>2, <2>4, Prefix
    <3>2. q # <<>> /\ i \in Nat \ {0} /\ 4 + i > Len(x) /\ 4 + i <= Len(y) /\ 4 + i \in Nat \ {0}
      BY <1>5, <3>1
    <3>. HIDE DEF i
    <3>3. AgreeBefore(x, y, 4 + i)
      BY <2>3, <3>1, <3>2
    <3>4. PrecedesAt(x, y, 4 + i, TextOrder)
      BY <3>2, <3>3 DEF PrecedesAt
    <3>. QED  BY <3>2, <3>4
  <2>5. CASE \E i \in Differ(p, q) : IdentifierLess(p[i], q[i])
    <3>1. PICK i \in Differ(p, q) : IdentifierLess(p[i], q[i])
      BY <2>5
    <3>2. i \in 1 .. Len(p) /\ i <= Len(q) /\ AgreeBefore(p, q, i)
      BY <1>1, <1>2, Differing
    <3>3. i \in 1 .. Len(q) /\ q # <<>> /\ 4 + i <= Len(x) /\ 4 + i <= Len(y) /\ 4 + i \in Nat \ {0} /\ i \in Nat \ {0}
      BY <1>5, <3>2
    <3>4. AgreeBefore(x, y, 4 + i)
      BY <2>3, <3>2, <3>3
    <3>5. /\ p[i] \in Identifier /\ x[4 + i] = IdentifierKey(p[i])
          /\ q[i] \in Identifier /\ y[4 + i] = IdentifierKey(q[i])
      BY <1>1, <1>2, <3>2, <3>3
    <3>6. Precedes(x[4 + i], y[4 + i], CodeOrder)
      BY <3>1, <3>5, IdentifierKeyOrder
    <3>. QED  BY <1>6, <3>3, <3>4, <3>6
  <2>. QED  BY <1>8, <2>2, <2>4, <2>5
<1>. QED  BY <1>3, <1>7, <1>8

LEMMA SomewhereDifferent ==
  ASSUME NEW A, NEW s \in Seq(A), NEW t \in Seq(A), s # t
  PROVE  \/ IsStrictPrefix(s, t) \/ IsStrictPrefix(t, s)
         \/ \E i \in Differ(s, t) : i \in Differ(t, s) /\ i \in 1 .. Len(s) /\ i \in 1 .. Len(t) /\ s[i] # t[i]
<1>1. PICK m \in Nat \ {0} :
        /\ AgreeBefore(s, t, m) /\ AgreeBefore(t, s, m)
        /\ \/ m > Len(s) /\ m <= Len(t)
           \/ m > Len(t) /\ m <= Len(s)
           \/ m <= Len(s) /\ m <= Len(t) /\ s[m] # t[m]
  BY FirstDifference
<1>2. Len(s) \in Nat /\ Len(t) \in Nat
  OBVIOUS
<1>3. CASE m > Len(s) /\ m <= Len(t)
  BY <1>1, <1>2, <1>3, Prefix DEF AgreeBefore
<1>4. CASE m > Len(t) /\ m <= Len(s)
  BY <1>1, <1>2, <1>4, Prefix DEF AgreeBefore
<1>5. CASE m <= Len(s) /\ m <= Len(t) /\ s[m] # t[m]
  <2>1. m \in Differ(s, t) /\ m \in Differ(t, s)
    BY <1>1, <1>2, <1>5, Differing
  <2>. QED  BY <1>2, <1>5, <2>1
<1>. QED  BY <1>1, <1>3, <1>4, <1>5

LEMMA PrecedenceIsTotal ==
  ASSUME NEW v \in Semver, NEW w \in Semver
  PROVE  (v.core = w.core /\ v.pre = w.pre) \/ PrecedenceLess(v, w) \/ PrecedenceLess(w, v)
<1>1. /\ v.core \in Seq(Text) /\ v.pre \in Seq(Text) /\ Len(v.core) = 3
      /\ w.core \in Seq(Text) /\ w.pre \in Seq(Text) /\ Len(w.core) = 3
      /\ \A i \in 1 .. 3 : v.core[i] \in Number /\ w.core[i] \in Number
      /\ \A i \in 1 .. Len(v.pre) : v.pre[i] \in Identifier
      /\ \A i \in 1 .. Len(w.pre) : w.pre[i] \in Identifier
  BY SortKeyPlaces
<1>2. CASE v.core # w.core
  <2>1. ~IsStrictPrefix(v.core, w.core) /\ ~IsStrictPrefix(w.core, v.core)
    BY <1>1, Prefix
  <2>2. PICK i \in Differ(v.core, w.core) : i \in Differ(w.core, v.core) /\ i \in 1 .. 3 /\ v.core[i] # w.core[i]
    BY <1>1, <1>2, <2>1, SomewhereDifferent
  <2>3. v.core[i] \in Text /\ w.core[i] \in Text
    BY <1>1, <2>2 DEF Number
  <2>4. NumberLess(v.core[i], w.core[i]) \/ NumberLess(w.core[i], v.core[i])
    BY <2>2, <2>3, NumbersAreTotal
  <2>. QED  BY <2>2, <2>4 DEF PrecedenceLess
<1>3. CASE v.core = w.core /\ v.pre # w.pre
  <2>1. CASE v.pre = <<>> \/ w.pre = <<>>
    BY <1>3, <2>1 DEF PrecedenceLess
  <2>2. CASE IsStrictPrefix(v.pre, w.pre) \/ IsStrictPrefix(w.pre, v.pre)
    BY <1>3, <2>1, <2>2 DEF PrecedenceLess
  <2>3. ASSUME NEW i \in Differ(v.pre, w.pre), i \in Differ(w.pre, v.pre),
               i \in 1 .. Len(v.pre), i \in 1 .. Len(w.pre), v.pre[i] # w.pre[i]
        PROVE  PrecedenceLess(v, w) \/ PrecedenceLess(w, v)
    <3>1. IdentifierLess(v.pre[i], w.pre[i]) \/ IdentifierLess(w.pre[i], v.pre[i])
      BY <1>1, <2>3, IdentifiersAreTotal
    <3>. QED  BY <1>3, <2>1, <2>3, <3>1 DEF PrecedenceLess
  <2>. QED  BY <1>1, <1>3, <2>2, <2>3, SomewhereDifferent
<1>. QED  BY <1>2, <1>3

LEMMA KeysAreTotal ==
  \A s, t \in Seq(Text) : ~ (KeyLess(s, t) /\ KeyLess(t, s)) /\ ~KeyLess(s, s)
<1>1. StrictlyOrders(LexOrder(Text, TextOrder), Seq(Text))
  BY TextsOrdered, LexOrders
<1>. QED  BY <1>1, KeyComparing DEF StrictlyOrders

\* The keys say the same as the program of any two versions.
LEMMA KeysTellPrecedence ==
  ASSUME NEW v \in Semver, NEW w \in Semver
  PROVE  /\ KeyLess(SortKey(v), SortKey(w)) <=> PrecedenceLess(v, w)
         /\ SortKey(v) = SortKey(w) <=> v.core = w.core /\ v.pre = w.pre
<1>1. SortKey(v) \in Seq(Text) /\ SortKey(w) \in Seq(Text)
  BY SortKeyPlaces
<1>2. /\ PrecedenceLess(v, w) => KeyLess(SortKey(v), SortKey(w))
      /\ PrecedenceLess(w, v) => KeyLess(SortKey(w), SortKey(v))
  BY PrecedenceKeys
<1>3. v.core = w.core /\ v.pre = w.pre => SortKey(v) = SortKey(w)
  BY DEF SortKey
<1>. QED  BY <1>1, <1>2, <1>3, PrecedenceIsTotal, KeysAreTotal

LEMMA RepositoriesAgree ==
  ASSUME NEW v \in Semver, NEW w \in Semver
  PROVE  SortsFirst(v, w) <=> NewerFirst(v, w)
<1>1. v.build \in Text /\ w.build \in Text /\ SortKey(v) \in Seq(Text) /\ SortKey(w) \in Seq(Text)
  BY SortKeyPlaces
<1>2. /\ KeyLess(SortKey(v), SortKey(w)) <=> PrecedenceLess(v, w)
      /\ KeyLess(SortKey(w), SortKey(v)) <=> PrecedenceLess(w, v)
      /\ SortKey(v) = SortKey(w) <=> v.core = w.core /\ v.pre = w.pre
  BY KeysTellPrecedence
<1>. QED  BY <1>1, <1>2, PrecedenceIsTotal, KeysAreTotal DEF SortsFirst, NewerFirst

LEMMA VersionsOrdered ==
  ASSUME NEW u \in Semver, NEW v \in Semver, NEW w \in Semver
  PROVE  /\ ~SortsFirst(u, u)
         /\ SortsFirst(u, v) /\ SortsFirst(v, w) => SortsFirst(u, w)
         /\ u = v \/ SortsFirst(u, v) \/ SortsFirst(v, u)
<1>1. /\ u.build \in Text /\ v.build \in Text /\ w.build \in Text
      /\ SortKey(u) \in Seq(Text) /\ SortKey(v) \in Seq(Text) /\ SortKey(w) \in Seq(Text)
  BY SortKeyPlaces
<1>2. u.core = v.core /\ u.pre = v.pre /\ u.build = v.build => u = v
  <2>1. /\ u = [core |-> u.core, pre |-> u.pre, build |-> u.build]
        /\ v = [core |-> v.core, pre |-> v.pre, build |-> v.build]
    BY DEF Semver
  <2>. QED  BY <2>1
<1>3. SortKey(u) = SortKey(v) => u.core = v.core /\ u.pre = v.pre
  BY KeysTellPrecedence
<1>4. /\ \A k, l \in Seq(Text) : k = l \/ KeyLess(k, l) \/ KeyLess(l, k)
      /\ \A k, l, m \in Seq(Text) : KeyLess(k, l) /\ KeyLess(l, m) => KeyLess(k, m)
      /\ \A k \in Seq(Text) : ~KeyLess(k, k)
  <2>1. StrictlyOrders(LexOrder(Text, TextOrder), Seq(Text))
    BY TextsOrdered, LexOrders
  <2>. QED  BY <2>1, KeyComparing DEF StrictlyOrders
<1>5. \A k, l, m \in Text : TextLess(k, l) /\ TextLess(l, m) => TextLess(k, m)
  BY TextsOrdered, TextComparing DEF StrictlyOrders
<1>6. ~SortsFirst(u, u)
  BY <1>1, <1>4, TextsAreTotal DEF SortsFirst
<1>7. SortsFirst(u, v) /\ SortsFirst(v, w) => SortsFirst(u, w)
  BY <1>1, <1>4, <1>5 DEF SortsFirst
<1>8. u = v \/ SortsFirst(u, v) \/ SortsFirst(v, u)
  BY <1>1, <1>2, <1>3, <1>4, TextsAreTotal DEF SortsFirst
<1>. QED  BY <1>6, <1>7, <1>8

-----------------------------------------------------------------------------
(* The lists' orders.                                                        *)

LEMMA Lists ==
  list \in DOMAIN Key =>
    \/ list \in {"members", "packages", "publicPackages"} /\ Key[list] = Word
    \/ list = "audit" /\ Key[list] = Nat
    \/ list = "tokens" /\ Key[list] = Nat \X Word
    \/ list = "publicReleases" /\ Key[list] = Semver
    \/ list = "releases" /\ Key[list] = Word \X Semver
BY DEF Key

\* The database has names and ids in one order, whatever its collation is.
LEMMA WordsOrdered ==
  ASSUME NEW u \in Word, NEW v \in Word, NEW w \in Word
  PROVE  /\ ~WordFollows(u, u, "sql")
         /\ WordFollows(v, u, "sql") /\ WordFollows(w, v, "sql") => WordFollows(w, u, "sql")
         /\ u = v \/ WordFollows(u, v, "sql") \/ WordFollows(v, u, "sql")
BY CollationAssumption DEF WordFollows

LEMMA ListOrdered ==
  ASSUME list \in DOMAIN Key, NEW a \in Key[list], NEW b \in Key[list], NEW c \in Key[list]
  PROVE  /\ ~Follows(a, a, "sql")
         /\ Follows(b, a, "sql") /\ Follows(c, b, "sql") => Follows(c, a, "sql")
         /\ a = b \/ Follows(a, b, "sql") \/ Follows(b, a, "sql")
<1>1. CASE list \in {"members", "packages", "publicPackages"} /\ Key[list] = Word
  <2>1. \A k, l : Follows(k, l, "sql") <=> WordFollows(k, l, "sql")
    BY <1>1 DEF Follows, MemberFollows, PackageFollows, PublicPackageFollows
  <2>. QED  BY <1>1, <2>1, WordsOrdered
<1>2. CASE list = "audit" /\ Key[list] = Nat
  <2>1. \A k, l : Follows(k, l, "sql") <=> k < l
    BY <1>2 DEF Follows, AuditEventFollows
  <2>. QED  BY <1>2, <2>1
<1>3. CASE list = "tokens" /\ Key[list] = Nat \X Word
  <2>1. /\ a[1] \in Nat /\ a[2] \in Word /\ b[1] \in Nat /\ b[2] \in Word /\ c[1] \in Nat /\ c[2] \in Word
        /\ a[1] = b[1] /\ a[2] = b[2] => a = b
    BY <1>3
  <2>2. /\ ~WordFollows(a[2], a[2], "sql")
        /\ WordFollows(b[2], a[2], "sql") /\ WordFollows(c[2], b[2], "sql") => WordFollows(c[2], a[2], "sql")
        /\ a[2] = b[2] \/ WordFollows(a[2], b[2], "sql") \/ WordFollows(b[2], a[2], "sql")
    BY <2>1, WordsOrdered
  <2>3. \A k, l : Follows(k, l, "sql") <=> k[1] > l[1] \/ (k[1] = l[1] /\ WordFollows(k[2], l[2], "sql"))
    BY <1>3 DEF Follows, TokenFollows
  <2>. QED  BY <2>1, <2>2, <2>3
<1>4. CASE list = "publicReleases" /\ Key[list] = Semver
  BY <1>4, VersionsOrdered DEF Follows, PublicReleaseFollows, Newer
<1>5. CASE list = "releases" /\ Key[list] = Word \X Semver
  <2>1. /\ a[1] \in Word /\ a[2] \in Semver /\ b[1] \in Word /\ b[2] \in Semver /\ c[1] \in Word /\ c[2] \in Semver
        /\ a[1] = b[1] /\ a[2] = b[2] => a = b
    BY <1>5
  <2>2. /\ ~SortsFirst(a[2], a[2])
        /\ SortsFirst(a[2], b[2]) /\ SortsFirst(b[2], c[2]) => SortsFirst(a[2], c[2])
        /\ a[2] = b[2] \/ SortsFirst(a[2], b[2]) \/ SortsFirst(b[2], a[2])
    BY <2>1, VersionsOrdered
  <2>3. /\ ~WordFollows(a[1], a[1], "sql")
        /\ WordFollows(b[1], a[1], "sql") /\ WordFollows(c[1], b[1], "sql") => WordFollows(c[1], a[1], "sql")
        /\ a[1] = b[1] \/ WordFollows(a[1], b[1], "sql") \/ WordFollows(b[1], a[1], "sql")
    BY <2>1, WordsOrdered
  <2>4. \A k, l : Follows(k, l, "sql") <=> WordFollows(k[1], l[1], "sql") \/ (k[1] = l[1] /\ SortsFirst(l[2], k[2]))
    BY <1>5 DEF Follows, ReleaseFollows, PublicReleaseFollows, Newer
  <2>. QED  BY <2>1, <2>2, <2>3, <2>4
<1>. QED  BY <1>1, <1>2, <1>3, <1>4, <1>5, Lists

\* Where no names are compared the repositories have one order, and where they are
\* as far as the collation has them in the order of their code units.
LEMMA ListOrderedAlike ==
  ASSUME list \in DOMAIN Key, NEW K \in SUBSET Key[list], CollatedAsCoded(Words(K)),
         NEW a \in K, NEW b \in K
  PROVE  Follows(a, b, "memory") <=> Follows(a, b, "sql")
<1>1. CASE list \in {"members", "packages", "publicPackages"}
  <2>1. Words(K) = K
    BY <1>1 DEF Words
  <2>2. WordFollows(a, b, "sql") <=> WordFollows(a, b, "memory")
    BY <2>1 DEF CollatedAsCoded
  <2>. QED  BY <1>1, <2>2 DEF Follows, MemberFollows, PackageFollows, PublicPackageFollows
<1>2. CASE list = "audit"
  BY <1>2 DEF Follows
<1>3. CASE list = "tokens"
  <2>1. Words(K) = {k[2] : k \in K}
    BY <1>3 DEF Words
  <2>2. WordFollows(a[2], b[2], "sql") <=> WordFollows(a[2], b[2], "memory")
    BY <2>1 DEF CollatedAsCoded
  <2>. QED  BY <1>3, <2>2 DEF Follows, TokenFollows
<1>4. CASE list = "publicReleases" /\ Key[list] = Semver
  BY <1>4, RepositoriesAgree DEF Follows, PublicReleaseFollows, Newer
<1>5. CASE list = "releases" /\ Key[list] = Word \X Semver
  <2>1. a[2] \in Semver /\ b[2] \in Semver
    BY <1>5
  <2>2. Words(K) = {k[1] : k \in K}
    BY <1>5 DEF Words
  <2>3. WordFollows(a[1], b[1], "sql") <=> WordFollows(a[1], b[1], "memory")
    BY <2>2 DEF CollatedAsCoded
  <2>. QED  BY <1>5, <2>1, <2>3, RepositoriesAgree DEF Follows, ReleaseFollows, PublicReleaseFollows, Newer
<1>. QED  BY <1>1, <1>2, <1>3, <1>4, <1>5, Lists

\* Fewer keys have fewer names.
LEMMA FewerWords ==
  ASSUME list \in DOMAIN Key, NEW K, NEW A \in SUBSET K, CollatedAsCoded(Words(K))
  PROVE  CollatedAsCoded(Words(A))
<1>1. Words(A) \subseteq Words(K)
  BY Lists DEF Words
<1>. QED  BY <1>1 DEF CollatedAsCoded

-----------------------------------------------------------------------------
(* Pages.                                                                    *)

\* How many of the keys k follows.
Rank(keys, k) == Cardinality({l \in keys : Follows(k, l, "sql")})

LEMMA PlacesOfKeys ==
  ASSUME list \in DOMAIN Key, NEW K \in SUBSET Key[list], IsFiniteSet(K)
  PROVE  /\ Cardinality(K) \in Nat
         /\ \A k \in K : Rank(K, k) \in 0 .. Cardinality(K) - 1
         /\ \A k, l \in K : Follows(k, l, "sql") <=> Rank(K, l) < Rank(K, k)
         /\ \A k, l \in K : Rank(K, k) = Rank(K, l) => k = l
         /\ \A i \in 0 .. Cardinality(K) - 1 : \E k \in K : Rank(K, k) = i
<1> DEFINE R == {p \in K \X K : Follows(p[2], p[1], "sql")}
<1>1. \A k, l \in K : <<l, k>> \in R <=> Follows(k, l, "sql")
  OBVIOUS
<1>. HIDE DEF R
<1>2. StrictlyOrders(R, K)
  BY <1>1, ListOrdered DEF StrictlyOrders
<1>3. \A k \in K : Rank(K, k) = Cardinality(Below(K, R, k))
  <2> TAKE k \in K
  <2>1. {l \in K : Follows(k, l, "sql")} = Below(K, R, k)
    BY <1>1 DEF Below
  <2>. QED  BY <2>1 DEF Rank
<1>4. Cardinality(K) \in Nat
  BY FS_CardinalityType
<1>5. /\ \A k \in K : Rank(K, k) \in 0 .. Cardinality(K) - 1
      /\ \A k, l \in K : <<l, k>> \in R => Rank(K, l) < Rank(K, k)
      /\ \A i \in 0 .. Cardinality(K) - 1 : \E k \in K : Rank(K, k) = i
  BY <1>2, <1>3, Ranks
<1>6. \A k \in K : Rank(K, k) \in Nat
  BY <1>4, <1>5
<1>7. \A k, l \in K : k = l \/ Follows(k, l, "sql") \/ Follows(l, k, "sql")
  BY ListOrdered
<1>. HIDE DEF Rank
<1>8. ASSUME NEW k \in K, NEW l \in K
      PROVE  /\ Follows(k, l, "sql") <=> Rank(K, l) < Rank(K, k)
             /\ Rank(K, k) = Rank(K, l) => k = l
  <2>1. Rank(K, k) \in Nat /\ Rank(K, l) \in Nat
    BY <1>6
  <2>2. Follows(k, l, "sql") => Rank(K, l) < Rank(K, k)
    BY <1>1, <1>5
  <2>3. Follows(l, k, "sql") => Rank(K, k) < Rank(K, l)
    BY <1>1, <1>5
  <2>. QED  BY <1>7, <2>1, <2>2, <2>3
<1>. QED  BY <1>4, <1>5, <1>8

\* A page has the first keys, in their order, and what is not on it comes later.
IsPage(f, n, K) ==
  /\ f \in Seq(K) /\ Len(f) \in Nat
  /\ Len(f) = IF n <= Cardinality(K) THEN n ELSE Cardinality(K)
  /\ \A i \in 1 .. Len(f) : f[i] \in K /\ Rank(K, f[i]) = i - 1
  /\ \A i, j \in 1 .. Len(f) : i < j => Follows(f[j], f[i], "sql")
  /\ \A k \in K : (\E i \in 1 .. Len(f) : f[i] = k)
                    \/ (Len(f) = n /\ \A i \in 1 .. Len(f) : Follows(k, f[i], "sql"))

LEMMA FirstKeys ==
  ASSUME list \in DOMAIN Key, NEW K \in SUBSET Key[list], IsFiniteSet(K), NEW n \in Nat
  PROVE  IsPage(First(n, K, "sql"), n, K)
<1> SUFFICES ASSUME NEW f, f = First(n, K, "sql")
             PROVE  IsPage(f, n, K)
  OBVIOUS
<1> DEFINE c == Cardinality(K)
           m == IF n <= c THEN n ELSE c
<1>1. /\ c \in Nat
      /\ \A k \in K : Rank(K, k) \in 0 .. c - 1
      /\ \A k, l \in K : Follows(k, l, "sql") <=> Rank(K, l) < Rank(K, k)
      /\ \A k, l \in K : Rank(K, k) = Rank(K, l) => k = l
      /\ \A i \in 0 .. c - 1 : \E k \in K : Rank(K, k) = i
  BY PlacesOfKeys
<1>2. m \in Nat /\ Min({n, c}) = m
  BY <1>1, Lesser
<1>3. f = [i \in 1 .. m |-> CHOOSE k \in K : Rank(K, k) = i - 1]
  BY <1>2 DEF First, Rank
<1>4. ASSUME NEW i \in 1 .. m
      PROVE  f[i] \in K /\ Rank(K, f[i]) = i - 1
  <2>1. i - 1 \in 0 .. c - 1
    BY <1>1, <1>2
  <2>2. \E k \in K : Rank(K, k) = i - 1
    BY <1>1, <2>1
  <2>3. f[i] = CHOOSE k \in K : Rank(K, k) = i - 1
    BY <1>3
  <2>. QED  BY <2>2, <2>3
<1>5. f \in Seq(K) /\ Len(f) = m
  <2>1. DOMAIN f = 1 .. m /\ f = [i \in 1 .. m |-> f[i]]
    BY <1>3
  <2>2. f \in [1 .. m -> K]
    BY <1>4, <2>1
  <2>. QED  BY <1>2, <2>2
<1>6. ASSUME NEW i \in 1 .. m, NEW j \in 1 .. m, i < j
      PROVE  Follows(f[j], f[i], "sql")
  <2>1. Rank(K, f[i]) < Rank(K, f[j])
    BY <1>2, <1>4, <1>6
  <2>. QED  BY <1>1, <1>4, <2>1
<1>7. ASSUME NEW k \in K
      PROVE  (\E i \in 1 .. m : f[i] = k) \/ (m = n /\ \A i \in 1 .. m : Follows(k, f[i], "sql"))
  <2>1. Rank(K, k) \in 0 .. c - 1 /\ Rank(K, k) + 1 \in Nat
    BY <1>1
  <2>2. CASE Rank(K, k) + 1 <= m
    <3>1. Rank(K, k) + 1 \in 1 .. m
      BY <1>2, <2>1, <2>2
    <3>2. f[Rank(K, k) + 1] \in K /\ Rank(K, f[Rank(K, k) + 1]) = Rank(K, k)
      BY <1>4, <2>1, <3>1
    <3>3. f[Rank(K, k) + 1] = k
      BY <1>1, <3>2
    <3>. QED  BY <3>1, <3>3
  <2>3. CASE Rank(K, k) + 1 > m
    <3>1. m = n
      BY <1>1, <2>1, <2>3
    <3>2. ASSUME NEW i \in 1 .. m PROVE Follows(k, f[i], "sql")
      <4>1. Rank(K, f[i]) < Rank(K, k) /\ f[i] \in K
        BY <1>2, <1>4, <2>1, <2>3
      <4>. QED  BY <1>1, <4>1
    <3>. QED  BY <3>1, <3>2
  <2>4. Rank(K, k) + 1 <= m \/ Rank(K, k) + 1 > m
    BY <1>2, <2>1
  <2>. QED  BY <2>2, <2>3, <2>4
<1>. QED  BY <1>2, <1>4, <1>5, <1>6, <1>7 DEF IsPage

\* A page only depends on keys that are few places from the start.
LEMMA EnoughKeys ==
  ASSUME list \in DOMAIN Key, NEW K \in SUBSET Key[list], IsFiniteSet(K), NEW A \in SUBSET K, NEW n \in Nat,
         \A k \in K : Rank(K, k) < n => k \in A
  PROVE  First(n, A, "sql") = First(n, K, "sql")
<1> DEFINE f == First(n, A, "sql")
           g == First(n, K, "sql")
<1>1. IsFiniteSet(A) /\ A \in SUBSET Key[list] /\ Cardinality(A) <= Cardinality(K)
  BY FS_Subset
<1>0. f = First(n, A, "sql") /\ g = First(n, K, "sql")
  OBVIOUS
<1>. HIDE DEF f, g
<1>2. /\ f \in Seq(A) /\ Len(f) \in Nat
      /\ Len(f) = IF n <= Cardinality(A) THEN n ELSE Cardinality(A)
      /\ \A i \in 1 .. Len(f) : f[i] \in A /\ Rank(A, f[i]) = i - 1
  <2>1. IsPage(f, n, A)
    BY <1>0, <1>1, FirstKeys
  <2>. QED  BY <2>1 DEF IsPage
<1>3. /\ g \in Seq(K) /\ Len(g) \in Nat
      /\ Len(g) = IF n <= Cardinality(K) THEN n ELSE Cardinality(K)
      /\ \A i \in 1 .. Len(g) : g[i] \in K /\ Rank(K, g[i]) = i - 1
  <2>1. IsPage(g, n, K)
    BY <1>0, FirstKeys
  <2>. QED  BY <2>1 DEF IsPage
<1>4. /\ Cardinality(K) \in Nat /\ Cardinality(A) \in Nat
      /\ \A k \in K : Rank(K, k) \in 0 .. Cardinality(K) - 1
      /\ \A k, l \in K : Follows(k, l, "sql") <=> Rank(K, l) < Rank(K, k)
      /\ \A k \in A : Rank(A, k) \in 0 .. Cardinality(A) - 1
      /\ \A k, l \in A : Rank(A, k) = Rank(A, l) => k = l
  BY <1>1, PlacesOfKeys
<1>5. ASSUME NEW k \in K, Rank(K, k) < n
      PROVE  k \in A /\ Rank(A, k) = Rank(K, k)
  <2>1. ASSUME NEW l \in K, Follows(k, l, "sql")
        PROVE  l \in A
    <3>1. Rank(K, l) < n
      BY <1>4, <1>5, <2>1
    <3>. QED  BY <3>1
  <2>2. {l \in A : Follows(k, l, "sql")} = {l \in K : Follows(k, l, "sql")}
    BY <2>1
  <2>. QED  BY <1>5, <2>2 DEF Rank
<1>6. ASSUME NEW i \in 1 .. Len(g)
      PROVE  g[i] \in A /\ Rank(A, g[i]) = i - 1 /\ i <= Cardinality(A) /\ i <= n
  <2>1. g[i] \in K /\ Rank(K, g[i]) = i - 1 /\ i <= n
    BY <1>3, <1>4
  <2>2. g[i] \in A /\ Rank(A, g[i]) = i - 1
    BY <1>5, <2>1
  <2>3. i - 1 \in 0 .. Cardinality(A) - 1
    BY <1>4, <2>2
  <2>. QED  BY <1>4, <2>1, <2>2, <2>3
<1>7. Len(g) = Len(f)
  <2>1. Len(g) # 0 => Len(g) <= Cardinality(A)
    BY <1>3, <1>6
  <2>. QED  BY <1>1, <1>2, <1>3, <1>4, <2>1
<1>8. \A i \in 1 .. Len(f) : f[i] = g[i]
  BY <1>2, <1>4, <1>6, <1>7
<1>9. f \in Seq(K) /\ g \in Seq(K)
  BY <1>2, <1>3
<1>10. f = g
  BY <1>7, <1>8, <1>9
<1>. QED  BY <1>0, <1>10

\* Cutting each package off first loses nothing of a page.
LEMMA LateralEnough ==
  ASSUME list = "releases", NEW visible \in SUBSET Key[list], IsFiniteSet(visible), NEW n \in Nat,
         NEW cursor, cursor = NoCursor \/ cursor.after \in Key[list]
  PROVE  First(n, LateralPage(visible, cursor, n), "sql") = First(n, After(visible, cursor, "sql"), "sql")
<1> DEFINE K == After(visible, cursor, "sql")
           A == LateralPage(visible, cursor, n)
           Reaches(p) == cursor = NoCursor \/ p = cursor.after[1] \/ WordFollows(p, cursor.after[1], "sql")
           packages == {k[1] : k \in {l \in visible : Reaches(l[1])}}
           Of(p) == After({k \in visible : k[1] = p}, cursor, "sql")
           Newest(p) == ToSet(First(n, Of(p), "sql"))
<1>1. list \in DOMAIN Key /\ K \in SUBSET visible /\ IsFiniteSet(K) /\ K \in SUBSET Key[list]
  BY FS_Subset DEF After, Key
<1>2. ASSUME NEW p
      PROVE  Of(p) \in SUBSET K /\ IsFiniteSet(Of(p))
  <2>1. Of(p) \in SUBSET K
    BY DEF After
  <2>. HIDE DEF K, Of
  <2>. QED  BY <1>1, <2>1, FS_Subset
<1>3. A = UNION {Newest(p) : p \in packages}
  BY DEF LateralPage
<1>. HIDE DEF A
<1>4. \A k \in K : k[1] \in packages /\ k \in Of(k[1])
  <2>. SUFFICES ASSUME NEW k \in K
                PROVE  k[1] \in packages /\ k \in Of(k[1])
    OBVIOUS
  <2>1. k \in visible /\ (cursor = NoCursor \/ Follows(k, cursor.after, "sql"))
    BY DEF After
  <2>2. Follows(k, cursor.after, "sql") => WordFollows(k[1], cursor.after[1], "sql") \/ k[1] = cursor.after[1]
    BY DEF Follows, ReleaseFollows
  <2>. QED  BY <2>1, <2>2 DEF After
<1>5. \A k \in K : Of(k[1]) = {l \in K : l[1] = k[1]}
  BY DEF After
<1>. HIDE DEF K, Of, packages
<1>6. A \in SUBSET K
  <2>1. ASSUME NEW p PROVE Newest(p) \subseteq K
    <3>1. Of(p) \in SUBSET Key[list]
      BY <1>1, <1>2
    <3>2. IsPage(First(n, Of(p), "sql"), n, Of(p))
      BY <1>1, <1>2, <3>1, FirstKeys
    <3>. QED  BY <1>2, <3>2 DEF ToSet, IsPage
  <2>. QED  BY <1>3, <2>1
<1>7. ASSUME NEW k \in K, Rank(K, k) < n
      PROVE  k \in A
  <2> DEFINE O == Of(k[1])
             f == First(n, O, "sql")
  <2>1. k \in O /\ O \in SUBSET K /\ IsFiniteSet(O) /\ O \in SUBSET Key[list]
    BY <1>1, <1>2, <1>4
  <2>2. Rank(O, k) <= Rank(K, k)
    <3> DEFINE S == {l \in O : Follows(k, l, "sql")}
               T == {l \in K : Follows(k, l, "sql")}
    <3>1. S \subseteq T /\ T \subseteq K
      BY <2>1
    <3>2. IsFiniteSet(T)
      BY <1>1, <3>1, FS_Subset
    <3>3. Cardinality(S) <= Cardinality(T)
      BY <3>1, <3>2, FS_Subset
    <3>. QED  BY <3>3 DEF Rank
  <2>3. /\ Cardinality(O) \in Nat /\ Rank(O, k) \in 0 .. Cardinality(O) - 1 /\ Rank(K, k) \in Nat
        /\ \A l \in O : Rank(O, l) = Rank(O, k) => l = k
    <3>1. Cardinality(K) \in Nat /\ Rank(K, k) \in 0 .. Cardinality(K) - 1
      BY <1>1, PlacesOfKeys
    <3>. QED  BY <1>1, <2>1, <3>1, PlacesOfKeys
  <2>0. f = First(n, O, "sql") /\ O = Of(k[1])
    OBVIOUS
  <2>. HIDE DEF O, f
  <2>4. /\ f \in Seq(O) /\ Len(f) = IF n <= Cardinality(O) THEN n ELSE Cardinality(O)
        /\ \A i \in 1 .. Len(f) : f[i] \in O /\ Rank(O, f[i]) = i - 1
    <3>1. IsPage(f, n, O)
      BY <1>1, <2>0, <2>1, FirstKeys
    <3>. QED  BY <3>1 DEF IsPage
  <2>5. Rank(O, k) + 1 \in 1 .. Len(f)
    BY <1>7, <2>2, <2>3, <2>4
  <2>6. f[Rank(O, k) + 1] = k
    BY <2>3, <2>4, <2>5
  <2>7. k \in ToSet(f)
    BY <2>4, <2>5, <2>6 DEF ToSet
  <2>. QED  BY <1>3, <1>4, <2>0, <2>7
<1>8. First(n, A, "sql") = First(n, K, "sql")
  BY <1>1, <1>6, <1>7, EnoughKeys
<1>. QED  BY <1>8 DEF K, A

LEMMA FirstAlike ==
  ASSUME list \in DOMAIN Key, NEW K \in SUBSET Key[list], IsFiniteSet(K), NEW n \in Nat,
         CollatedAsCoded(Words(K))
  PROVE  First(n, K, "memory") = First(n, K, "sql")
<1> DEFINE f == First(n, K, "sql")
           g == First(n, K, "memory")
           At(k) == Cardinality({l \in K : Follows(k, l, "memory")})
           m == Min({n, Cardinality(K)})
<1>1. \A k \in K : At(k) = Rank(K, k)
  <2> TAKE k \in K
  <2>1. {l \in K : Follows(k, l, "sql")} = {l \in K : Follows(k, l, "memory")}
    BY ListOrderedAlike
  <2>. QED  BY <2>1 DEF Rank
<1>2. g = [i \in 1 .. m |-> CHOOSE k \in K : At(k) = i - 1]
  BY DEF First
<1>3. f = [i \in 1 .. m |-> CHOOSE k \in K : Rank(K, k) = i - 1]
  BY DEF First, Rank
<1>. HIDE DEF f, g, At
<1>4. /\ Cardinality(K) \in Nat
      /\ \A k, l \in K : Rank(K, k) = Rank(K, l) => k = l
      /\ \A i \in 0 .. Cardinality(K) - 1 : \E k \in K : Rank(K, k) = i
  BY PlacesOfKeys
<1>5. m \in Nat /\ m <= Cardinality(K)
  BY <1>4, Lesser
<1>. HIDE DEF m
<1>6. ASSUME NEW i \in 1 .. m PROVE f[i] = g[i]
  <2>1. i - 1 \in 0 .. Cardinality(K) - 1
    BY <1>4, <1>5
  <2>2. \E k \in K : Rank(K, k) = i - 1
    BY <1>4, <2>1
  <2>3. \E k \in K : At(k) = i - 1
    BY <1>1, <2>2
  <2>4. f[i] = CHOOSE k \in K : Rank(K, k) = i - 1
    BY <1>3
  <2>5. g[i] = CHOOSE k \in K : At(k) = i - 1
    BY <1>2
  <2>6. f[i] \in K /\ Rank(K, f[i]) = i - 1
    BY <2>2, <2>4
  <2>7. g[i] \in K /\ At(g[i]) = i - 1
    BY <2>3, <2>5
  <2>. QED  BY <1>1, <1>4, <2>6, <2>7
<1>7. f = [i \in 1 .. m |-> f[i]] /\ g = [i \in 1 .. m |-> g[i]]
  BY <1>2, <1>3
<1>8. f = g
  BY <1>6, <1>7
<1>. QED  BY <1>8 DEF f, g

LEMMA AfterAlike ==
  ASSUME list \in DOMAIN Key, NEW K \in SUBSET Key[list], NEW k \in Key[list],
         CollatedAsCoded(Words(K \cup {k})), NEW cursor, cursor = NoCursor \/ cursor.after = k
  PROVE  After(K, cursor, "memory") = After(K, cursor, "sql")
<1>1. \A l \in K : Follows(l, k, "memory") <=> Follows(l, k, "sql")
  <2>1. K \cup {k} \in SUBSET Key[list]
    OBVIOUS
  <2>. QED  BY <2>1, ListOrderedAlike
<1>. HIDE DEF Follows
<1>. QED  BY <1>1 DEF After

\* What the rows show.
LEMMA ShowingKeys ==
  ASSUME list \in DOMAIN Universe, rows \subseteq Universe[list], IsFiniteSet(rows), NEW scope
  PROVE  /\ list \in DOMAIN Key
         /\ Showing(scope) \in SUBSET Key[list] /\ IsFiniteSet(Showing(scope))
<1>1. list \in DOMAIN Key /\ \A r \in rows : r.key \in Key[list]
  BY ListAssumption
<1> DEFINE S == {row \in rows : Matches(row, scope)}
<1>2. IsFiniteSet(S)
  BY FS_Subset
<1>. HIDE DEF S
<1>3. IsFiniteSet({r.key : r \in S})
  <2>1. [r \in S |-> r.key] \in Surjection(S, {r.key : r \in S})
    BY DEF Surjection
  <2>. QED  BY <1>2, <2>1, FS_Surjection
<1>4. Showing(scope) = {r.key : r \in S}
  BY DEF Showing, S
<1>5. Showing(scope) \in SUBSET Key[list]
  BY <1>1 DEF Showing
<1>. QED  BY <1>1, <1>3, <1>4, <1>5

LEMMA SqlPageReads ==
  ASSUME list \in DOMAIN Universe, rows \subseteq Universe[list], IsFiniteSet(rows),
         NEW scope, NEW n \in Nat, NEW cursor, cursor = NoCursor \/ cursor.after \in Key[list]
  PROVE  SqlPage(scope, cursor, n) = First(n, After(Showing(scope), cursor, "sql"), "sql")
<1>1. Showing(scope) \in SUBSET Key[list] /\ IsFiniteSet(Showing(scope))
  BY ShowingKeys
<1>. HIDE DEF Showing
<1>. QED  BY <1>1, LateralEnough DEF SqlPage

\* The database answers with the pages of the repository in memory, as far as the
\* collation has the names that are compared in the order of their code units.
LEMMA PagesSame ==
  ASSUME list \in DOMAIN Universe, rows \subseteq Universe[list], IsFiniteSet(rows)
  PROVE  PagesAgree
<1>1. OrdersAgree
  BY VersionAssumption, RepositoriesAgree DEF OrdersAgree
<1>2. ASSUME NEW scope, NEW limit \in PageSizes, NEW k \in Key[list],
             CollatedAsCoded(Words(Showing(scope) \cup {k})),
             NEW cursor, cursor = NoCursor \/ cursor.after = k
      PROVE  SqlPage(scope, cursor, limit) = MemoryPage(scope, cursor, limit)
  <2> DEFINE K == After(Showing(scope), cursor, "sql")
  <2>1. limit \in Nat
    BY ListAssumption
  <2>2. list \in DOMAIN Key /\ Showing(scope) \in SUBSET Key[list] /\ IsFiniteSet(Showing(scope))
    BY ShowingKeys
  <2>3. K \in SUBSET Key[list] /\ IsFiniteSet(K) /\ K \in SUBSET (Showing(scope) \cup {k})
    BY <2>2, FS_Subset DEF After
  <2>4. After(Showing(scope), cursor, "memory") = K
    BY <1>2, <2>2, AfterAlike
  <2>5. SqlPage(scope, cursor, limit) = First(limit, K, "sql")
    BY <1>2, <2>1, SqlPageReads
  <2>. HIDE DEF K
  <2>6. CollatedAsCoded(Words(K))
    BY <1>2, <2>2, <2>3, FewerWords
  <2>7. First(limit, K, "memory") = First(limit, K, "sql")
    BY <2>1, <2>2, <2>3, <2>6, FirstAlike
  <2>. QED  BY <2>4, <2>5, <2>7 DEF MemoryPage
<1>3. \A r \in Universe[list] : r.key \in Key[list]
  BY ListAssumption
<1>4. ASSUME NEW k \in {r.key : r \in Universe[list]}, NEW scope,
             NEW cursor \in {NoCursor, [scope |-> scope, after |-> k]}
      PROVE  k \in Key[list] /\ (cursor = NoCursor \/ cursor.after = k)
  BY <1>3
<1>. QED  BY <1>1, <1>2, <1>4 DEF PagesAgree

-----------------------------------------------------------------------------
(* Walks.                                                                    *)

PageCursor == {NoCursor} \cup [scope : Scope[list], after : Key[list]]

WalkTyped ==
  /\ list \in DOMAIN Universe /\ rows \subseteq Universe[list] /\ IsFiniteSet(rows)
  /\ walk \in [state : {"idle", "walking", "done", "refused"}, scope : {"none"} \cup Scope[list],
               cursor : PageCursor, got : Seq(Key[list]), used : SUBSET PageCursor]
  /\ walk.state # "idle" => walk.scope \in Scope[list]
  /\ DOMAIN steady = Scope[list] /\ \A s \in Scope[list] : steady[s] \subseteq Showing(s)

InOrder(keys) == \A i, j \in 1 .. Len(keys) : i < j => Follows(keys[j], keys[i], "sql")

\* The cursor is at the last key of the walk, which comes after every earlier cursor;
\* what was there all the while has been seen or is still to come.
WalkGoesOn ==
  IF walk.cursor = NoCursor THEN walk.got = <<>> /\ walk.used = {}
  ELSE /\ walk.cursor.scope = walk.scope
       /\ walk.got # <<>> /\ walk.cursor.after = walk.got[Len(walk.got)]
       /\ \A c \in walk.used :
            c # NoCursor /\ (c.after = walk.cursor.after \/ Follows(walk.cursor.after, c.after, "sql"))
       /\ \A k \in steady[walk.scope] : k \in ToSet(walk.got) \/ Follows(k, walk.cursor.after, "sql")

WalkInv ==
  /\ WalkTyped
  /\ InOrder(walk.got)
  /\ walk.state = "walking" => WalkGoesOn
  /\ walk.state = "done" => steady[walk.scope] \subseteq ToSet(walk.got)

LEMMA CursorShape ==
  /\ \A s, k : [scope |-> s, after |-> k] # NoCursor
  /\ \A c \in PageCursor : c # NoCursor => c.scope \in Scope[list] /\ c.after \in Key[list]
<1>1. ASSUME NEW s, NEW k, [scope |-> s, after |-> k] = NoCursor
      PROVE  FALSE
  <2>1. "after" \in DOMAIN [scope |-> s, after |-> k]
    OBVIOUS
  <2>2. "after" \notin DOMAIN NoCursor
    BY DEF NoCursor
  <2>. QED  BY <1>1, <2>1, <2>2
<1>. QED  BY <1>1 DEF PageCursor

LEMMA Among ==
  ASSUME NEW A, NEW s \in Seq(A), NEW x
  PROVE  x \in ToSet(s) <=> \E i \in 1 .. Len(s) : s[i] = x
<1>1. DOMAIN s = 1 .. Len(s)
  OBVIOUS
<1>. QED  BY <1>1 DEF ToSet

\* All of K comes after what was got.
Beyond(K, got) == \A k \in K : \A i \in 1 .. Len(got) : Follows(k, got[i], "sql")

\* What the page cut from the keys read of K adds to what was got: it goes on in the
\* list's order, and what it leaves of K comes after its last key.
Adds(all, got, read, limit, K) ==
  /\ all \in Seq(Key[list]) /\ InOrder(all) /\ ToSet(got) \subseteq ToSet(all)
  /\ Len(read) > limit =>
       /\ read[limit] \in K /\ all # <<>> /\ read[limit] = all[Len(all)]
       /\ \A k \in K : k \in ToSet(all) \/ Follows(k, read[limit], "sql")
  /\ Len(read) <= limit => K \subseteq ToSet(all)

\* What a page adds to a walk.
LEMMA PageAdded ==
  ASSUME list \in DOMAIN Key, NEW got \in Seq(Key[list]), InOrder(got),
         NEW K \in SUBSET Key[list], Beyond(K, got),
         NEW limit \in Nat \ {0}, NEW read, IsPage(read, limit + 1, K),
         NEW all, all = got \o Cut(limit, read)
  PROVE  Adds(all, got, read, limit, K)
<1> DEFINE items == Cut(limit, read)
<1>1. /\ read \in Seq(K) /\ Len(read) \in Nat
      /\ \A i \in 1 .. Len(read) : read[i] \in K
      /\ \A i, j \in 1 .. Len(read) : i < j => Follows(read[j], read[i], "sql")
      /\ \A k \in K : (\E i \in 1 .. Len(read) : read[i] = k)
                        \/ (Len(read) = limit + 1 /\ \A i \in 1 .. Len(read) : Follows(k, read[i], "sql"))
      /\ Len(read) <= limit + 1
  BY DEF IsPage
<1>2. /\ items \in Seq(K) /\ Len(items) = (IF limit <= Len(read) THEN limit ELSE Len(read))
      /\ \A i \in 1 .. Len(items) : items[i] = read[i]
  <2> DEFINE m == IF limit <= Len(read) THEN limit ELSE Len(read)
  <2>1. items = SubSeq(read, 1, m)
    BY <1>1, Lesser DEF Cut
  <2>2. m \in 0 .. Len(read)
    BY <1>1
  <2>. HIDE DEF m, items
  <2>3. items \in Seq(K) /\ Len(items) = m /\ \A i \in 1 .. m : items[i] = read[i]
    BY <1>1, <2>1, <2>2
  <2>. QED  BY <2>3 DEF m
<1>. HIDE DEF items
<1>3. /\ all \in Seq(Key[list]) /\ Len(all) = Len(got) + Len(items)
      /\ Len(got) \in Nat /\ Len(items) \in Nat
      /\ \A i \in 1 .. Len(got) : all[i] = got[i]
      /\ \A i \in 1 .. Len(items) : all[Len(got) + i] = items[i]
  <2>1. all = got \o items
    BY DEF items
  <2>2. items \in Seq(Key[list])
    BY <1>2
  <2>. QED  BY <2>1, <2>2
<1>4. \A i \in 1 .. Len(all) : i \in 1 .. Len(got) \/ (i - Len(got) \in 1 .. Len(items) /\ all[i] = items[i - Len(got)])
  <2> TAKE i \in 1 .. Len(all)
  <2>1. CASE i <= Len(got)
    BY <1>3, <2>1
  <2>2. CASE i > Len(got)
    <3>1. i - Len(got) \in 1 .. Len(items) /\ Len(got) + (i - Len(got)) = i
      BY <1>3, <2>2
    <3>. QED  BY <1>3, <3>1
  <2>. QED  BY <1>3, <2>1, <2>2
<1>5. InOrder(all)
  <2>. SUFFICES ASSUME NEW i \in 1 .. Len(all), NEW j \in 1 .. Len(all), i < j
                PROVE  Follows(all[j], all[i], "sql")
    BY DEF InOrder
  <2>1. CASE j \in 1 .. Len(got)
    <3>1. i \in 1 .. Len(got)
      BY <1>3, <2>1
    <3>. QED  BY <1>3, <2>1, <3>1 DEF InOrder
  <2>2. CASE i \in 1 .. Len(got) /\ j - Len(got) \in 1 .. Len(items) /\ all[j] = items[j - Len(got)]
    <3>1. items[j - Len(got)] \in K
      BY <1>2, <2>2
    <3>. QED  BY <1>3, <2>2, <3>1 DEF Beyond
  <2>3. CASE /\ i - Len(got) \in 1 .. Len(items) /\ all[i] = items[i - Len(got)]
             /\ j - Len(got) \in 1 .. Len(items) /\ all[j] = items[j - Len(got)]
    <3> DEFINE a == i - Len(got)
               b == j - Len(got)
    <3>1. a \in 1 .. Len(items) /\ b \in 1 .. Len(items) /\ all[i] = items[a] /\ all[j] = items[b]
      BY <2>3
    <3>2. a < b
      BY <1>3
    <3>. HIDE DEF a, b
    <3>3. /\ items[a] = read[a] /\ items[b] = read[b]
          /\ a \in 1 .. Len(read) /\ b \in 1 .. Len(read)
      BY <1>1, <1>2, <3>1
    <3>4. Follows(read[b], read[a], "sql")
      BY <1>1, <3>2, <3>3
    <3>. QED  BY <3>1, <3>3, <3>4
  <2>. QED  BY <1>4, <2>1, <2>2, <2>3
<1>6. ToSet(got) \subseteq ToSet(all)
  <2>. SUFFICES ASSUME NEW k \in ToSet(got)
                PROVE  k \in ToSet(all)
    OBVIOUS
  <2>1. PICK i \in 1 .. Len(got) : got[i] = k
    BY Among
  <2>2. i \in 1 .. Len(all) /\ all[i] = k
    BY <1>3, <2>1
  <2>. QED  BY <1>3, <2>2, Among
<1>7. ASSUME NEW i \in 1 .. Len(read), i <= limit
      PROVE  read[i] \in ToSet(all)
  <2>1. i \in 1 .. Len(items) /\ items[i] = read[i]
    BY <1>1, <1>2, <1>7
  <2>2. Len(got) + i \in 1 .. Len(all) /\ all[Len(got) + i] = read[i]
    BY <1>3, <2>1
  <2>. QED  BY <1>3, <2>2, Among
<1>8. ASSUME Len(read) > limit
      PROVE  /\ read[limit] \in K /\ all # <<>> /\ read[limit] = all[Len(all)]
             /\ \A k \in K : k \in ToSet(all) \/ Follows(k, read[limit], "sql")
  <2>1. limit \in 1 .. Len(read) /\ Len(items) = limit
    BY <1>1, <1>2, <1>8
  <2>2. read[limit] \in K /\ items[limit] = read[limit]
    BY <1>1, <1>2, <2>1
  <2>3. all # <<>> /\ read[limit] = all[Len(all)]
    <3>1. Len(all) # 0
      BY <1>3, <2>1
    <3>. QED  BY <1>3, <2>1, <2>2, <3>1
  <2>4. ASSUME NEW k \in K
        PROVE  k \in ToSet(all) \/ Follows(k, read[limit], "sql")
    <3>1. CASE \E i \in 1 .. Len(read) : read[i] = k
      <4>1. PICK i \in 1 .. Len(read) : read[i] = k
        BY <3>1
      <4>2. CASE i <= limit
        BY <1>7, <4>1, <4>2
      <4>3. CASE i > limit
        BY <1>1, <2>1, <4>1, <4>3
      <4>. QED  BY <4>2, <4>3
    <3>. QED  BY <1>1, <2>1, <3>1
  <2>. QED  BY <2>2, <2>3, <2>4
<1>9. ASSUME Len(read) <= limit, NEW k \in K
      PROVE  k \in ToSet(all)
  <2>0. Len(read) # limit + 1
    BY <1>1, <1>9
  <2>1. PICK i \in 1 .. Len(read) : read[i] = k
    BY <1>1, <2>0
  <2>2. i <= limit
    BY <1>1, <1>9
  <2>. QED  BY <1>7, <2>1, <2>2
<1>. QED  BY <1>3, <1>5, <1>6, <1>8, <1>9 DEF Adds

\* Orders and matches stay those of the list.
LEMMA SameList ==
  ASSUME UNCHANGED list
  PROVE  /\ \A k, l, repository : Follows(k, l, repository)' <=> Follows(k, l, repository)
         /\ \A row, scope : Matches(row, scope)' <=> Matches(row, scope)
BY DEF Follows, Matches

LEMMA WalkInit ==
  ASSUME Init
  PROVE  WalkInv
<1>1. IsFiniteSet({})
  BY FS_EmptySet
<1>2. walk = [state |-> "idle", scope |-> "none", cursor |-> NoCursor, got |-> <<>>, used |-> {}]
  BY DEF Init, Idle
<1>. QED  BY <1>1, <1>2 DEF Init, WalkInv, WalkTyped, InOrder, PageCursor

LEMMA WalkStutter ==
  ASSUME WalkInv, UNCHANGED vars
  PROVE  WalkInv'
<1>1. list' = list /\ rows' = rows /\ walk' = walk /\ steady' = steady
  BY DEF vars
<1>2. PageCursor' = PageCursor /\ \A s : Showing(s)' = Showing(s)
  BY <1>1, SameList DEF PageCursor, Showing
<1>3. InOrder(walk.got)'
  BY <1>1, SameList DEF WalkInv, InOrder
<1>4. WalkTyped'
  BY <1>1, <1>2 DEF WalkInv, WalkTyped
<1>5. (walk.state = "walking" => WalkGoesOn)'
  BY <1>1, SameList DEF WalkInv, WalkGoesOn
<1>. QED  BY <1>1, <1>3, <1>4, <1>5 DEF WalkInv

LEMMA BeginWalk ==
  ASSUME WalkInv, NEW scope \in Scope[list], Begin(scope)
  PROVE  WalkInv'
<1>1. walk' = [state |-> "walking", scope |-> scope, cursor |-> NoCursor, got |-> <<>>, used |-> {}]
  BY DEF Begin, Idle
<1>2. list' = list /\ rows' = rows /\ steady' = [s \in Scope[list] |-> Showing(s)]
  BY DEF Begin
<1>3. PageCursor' = PageCursor /\ \A s : Showing(s)' = Showing(s)
  BY <1>2, SameList DEF PageCursor, Showing
<1>4. WalkTyped'
  <2>1. NoCursor \in PageCursor /\ <<>> \in Seq(Key[list])
    BY DEF PageCursor
  <2>. QED  BY <1>1, <1>2, <1>3, <2>1 DEF WalkInv, WalkTyped
<1>. QED  BY <1>1, <1>4 DEF WalkInv, InOrder, WalkGoesOn

\* Rows are written: what is steady is shown still, and no more of it than before.
LEMMA WriteRows ==
  ASSUME WalkInv, UNCHANGED list, rows' \subseteq Universe[list], IsFiniteSet(rows'), Steady
  PROVE  WalkInv'
<1>1. walk' = walk /\ steady' = [s \in Scope[list] |-> {k \in steady[s] : \E r \in rows' : r.key = k /\ Matches(r, s)}]
  BY DEF Steady
<1>2. \A s \in Scope[list] : steady'[s] \subseteq steady[s] /\ steady'[s] \subseteq Showing(s)'
  BY <1>1, SameList DEF Showing
<1>3. PageCursor' = PageCursor /\ InOrder(walk.got)' = InOrder(walk.got)
  BY <1>1, SameList DEF PageCursor, InOrder
<1>4. WalkTyped'
  BY <1>1, <1>2, <1>3 DEF WalkInv, WalkTyped
<1>5. ASSUME WalkGoesOn, walk.scope \in Scope[list] PROVE WalkGoesOn'
  BY <1>1, <1>2, <1>5, SameList DEF WalkGoesOn
<1>. QED  BY <1>1, <1>2, <1>3, <1>4, <1>5 DEF WalkInv, WalkTyped

LEMMA InsertRow ==
  ASSUME WalkInv, NEW row \in Universe[list], Insert(row), UNCHANGED list
  PROVE  WalkInv'
BY WriteRows, FS_AddElement DEF Insert, WalkInv, WalkTyped

LEMMA UpdateRow ==
  ASSUME WalkInv, NEW row \in Universe[list], Update(row), UNCHANGED list
  PROVE  WalkInv'
<1> DEFINE S == {r \in rows : r.key # row.key}
<1>1. rows \subseteq Universe[list] /\ IsFiniteSet(rows) /\ S \subseteq rows
  BY DEF WalkInv, WalkTyped
<1>2. rows' = S \cup {row} /\ Steady
  BY DEF Update
<1>. HIDE DEF S
<1>3. IsFiniteSet(S)
  BY <1>1, FS_Subset
<1>4. IsFiniteSet(S \cup {row})
  BY <1>3, FS_AddElement
<1>. QED  BY <1>1, <1>2, <1>4, WriteRows

LEMMA MemberGoes ==
  ASSUME WalkInv, NEW row \in rows, RemoveMember(row), UNCHANGED list
  PROVE  WalkInv'
<1>1. rows \subseteq Universe[list] /\ IsFiniteSet(rows)
  BY DEF WalkInv, WalkTyped
<1>2. rows' = rows \ {row} /\ Steady
  BY DEF RemoveMember
<1>3. IsFiniteSet(rows \ {row})
  BY <1>1, FS_RemoveElement
<1>. QED  BY <1>1, <1>2, <1>3, WriteRows

LEMMA PageTurned ==
  ASSUME WalkInv, NEW scope \in Scope[list], NEW limit \in PageSizes, NextPage(scope, limit)
  PROVE  WalkInv'
<1>1. list' = list /\ rows' = rows /\ steady' = steady /\ walk.state = "walking" /\ WalkGoesOn
  BY DEF NextPage, WalkInv
<1>2. PageCursor' = PageCursor /\ \A s : Showing(s)' = Showing(s)
  BY <1>1, SameList DEF PageCursor, Showing
<1>3. CASE ~Decodes(walk.cursor, scope)
  <2>1. walk' = [walk EXCEPT !.state = "refused"]
    BY <1>3 DEF NextPage
  <2>2. WalkTyped'
    BY <1>1, <1>2, <2>1 DEF WalkInv, WalkTyped
  <2>3. InOrder(walk.got)'
    BY <1>1, <2>1, SameList DEF WalkInv, WalkTyped, InOrder
  <2>. QED  BY <2>1, <2>2, <2>3 DEF WalkInv, WalkTyped
<1>4. CASE Decodes(walk.cursor, scope)
  <2> DEFINE K == After(Showing(scope), walk.cursor, "sql")
             read == SqlPage(scope, walk.cursor, limit + 1)
             all == walk.got \o Cut(limit, read)
             next == Page(scope, walk.cursor, limit).next
             got == walk.got
             cursor == walk.cursor
  <2>1. /\ list \in DOMAIN Universe /\ rows \subseteq Universe[list] /\ IsFiniteSet(rows)
        /\ walk.cursor \in PageCursor /\ got \in Seq(Key[list]) /\ walk.used \in SUBSET PageCursor
        /\ steady[scope] \subseteq Showing(scope) /\ InOrder(got)
    BY DEF WalkInv, WalkTyped
  <2>2. limit \in Nat \ {0} /\ limit + 1 \in Nat
    BY ListAssumption
  <2>3. list \in DOMAIN Key /\ Showing(scope) \in SUBSET Key[list] /\ IsFiniteSet(Showing(scope))
    BY <2>1, ShowingKeys
  <2>4. cursor # NoCursor => cursor.after \in Key[list] /\ cursor.scope = scope
    BY <1>4, <2>1, CursorShape DEF Decodes
  <2>5. K \in SUBSET Showing(scope) /\ K \in SUBSET Key[list] /\ IsFiniteSet(K)
    BY <2>3, FS_Subset DEF After
  <2>6. read = First(limit + 1, K, "sql")
    BY <2>1, <2>2, <2>4, SqlPageReads
  <2>7. walk' = [walk EXCEPT !.state = CASE next = NoCursor -> "done"
                                         [] next \in walk.used -> "invalid_pagination"
                                         [] OTHER -> "walking",
                             !.scope = scope, !.got = all, !.cursor = next, !.used = @ \cup {next}]
    BY <1>4 DEF NextPage, Page, PageOf
  <2>8. next = IF Len(read) > limit THEN [scope |-> scope, after |-> read[limit]] ELSE NoCursor
    BY DEF Page, PageOf
  <2>9. \A k \in Showing(scope) : k \in K <=> cursor = NoCursor \/ Follows(k, cursor.after, "sql")
    BY DEF After
  <2>. HIDE DEF K, read
  <2>10. IsPage(read, limit + 1, K)
    BY <2>2, <2>3, <2>5, <2>6, FirstKeys
  <2>11. \A i \in 1 .. Len(got) : cursor # NoCursor /\ (cursor.after = got[i] \/ Follows(cursor.after, got[i], "sql"))
    <3>1. CASE cursor = NoCursor
      BY <1>1, <3>1 DEF WalkGoesOn
    <3>2. CASE cursor # NoCursor
      <4>1. Len(got) \in Nat /\ cursor.after = got[Len(got)]
        BY <1>1, <2>1, <3>2 DEF WalkGoesOn
      <4>2. \A i \in 1 .. Len(got) : i = Len(got) \/ Follows(got[Len(got)], got[i], "sql")
        BY <2>1, <4>1 DEF InOrder
      <4>. QED  BY <3>2, <4>1, <4>2
    <3>. QED  BY <3>1, <3>2
  <2>12. Beyond(K, got)
    <3>. SUFFICES ASSUME NEW k \in K, NEW i \in 1 .. Len(got)
                  PROVE  Follows(k, got[i], "sql")
      BY DEF Beyond
    <3>1. cursor # NoCursor /\ (cursor.after = got[i] \/ Follows(cursor.after, got[i], "sql"))
      BY <2>11
    <3>2. Follows(k, cursor.after, "sql") /\ k \in Key[list] /\ cursor.after \in Key[list] /\ got[i] \in Key[list]
      BY <2>1, <2>4, <2>5, <2>9, <3>1
    <3>. QED  BY <2>3, <3>1, <3>2, ListOrdered
  <2>0. all = got \o Cut(limit, read)
    OBVIOUS
  <2>. HIDE DEF all, got
  <2>13a. Adds(all, got, read, limit, K)
    BY <2>0, <2>1, <2>2, <2>3, <2>5, <2>10, <2>12, PageAdded
  <2>13. /\ all \in Seq(Key[list]) /\ InOrder(all) /\ ToSet(got) \subseteq ToSet(all)
         /\ Len(read) > limit =>
              /\ read[limit] \in K /\ all # <<>> /\ read[limit] = all[Len(all)]
              /\ \A k \in K : k \in ToSet(all) \/ Follows(k, read[limit], "sql")
         /\ Len(read) <= limit => K \subseteq ToSet(all)
    BY <2>13a DEF Adds
  <2>14. \A k \in steady[scope] : k \in ToSet(got) \/ k \in K
    <3>. SUFFICES ASSUME NEW k \in steady[scope], k \notin ToSet(got)
                  PROVE  k \in K
      OBVIOUS
    <3>1. cursor # NoCursor => Follows(k, cursor.after, "sql")
      BY <1>1, <2>4 DEF WalkGoesOn, got
    <3>. QED  BY <2>1, <2>9, <3>1
  <2>. HIDE DEF next
  <2>15. \A r : Len(r) > limit \/ Len(r) <= limit \/ Len(r) \notin Nat
    BY <2>2
  <2>16. Len(read) \in Nat
    BY <2>10 DEF IsPage
  <2>17. /\ next \in PageCursor
         /\ next # NoCursor => /\ next = [scope |-> scope, after |-> read[limit]] /\ Len(read) > limit
         /\ next = NoCursor => Len(read) <= limit
    <3>1. Len(read) > limit => read[limit] \in Key[list]
      BY <2>5, <2>13
    <3>2. Len(read) > limit \/ Len(read) <= limit
      BY <2>2, <2>16
    <3>. QED  BY <2>2, <2>8, <2>16, <3>1, <3>2, CursorShape DEF PageCursor
  <2>18. ASSUME next # NoCursor, NEW c \in walk.used
         PROVE  c # NoCursor /\ c # next /\ Follows(next.after, c.after, "sql")
    <3>1. next = [scope |-> scope, after |-> read[limit]] /\ read[limit] \in K
      BY <2>13, <2>17, <2>18
    <3>2. cursor # NoCursor /\ c # NoCursor /\ (c.after = cursor.after \/ Follows(cursor.after, c.after, "sql"))
      BY <1>1, <2>18 DEF WalkGoesOn
    <3>3. c.after \in Key[list] /\ cursor.after \in Key[list] /\ read[limit] \in Key[list]
      BY <2>1, <2>4, <2>5, <3>1, <3>2, CursorShape
    <3>4. Follows(read[limit], cursor.after, "sql")
      BY <2>5, <2>9, <3>1, <3>2
    <3>5. Follows(read[limit], c.after, "sql")
      BY <2>3, <3>2, <3>3, <3>4, ListOrdered
    <3>6. read[limit] # c.after
      BY <2>3, <3>3, <3>5, ListOrdered
    <3>. QED  BY <3>1, <3>2, <3>5, <3>6
  <2>19. /\ walk'.state = IF next = NoCursor THEN "done" ELSE "walking"
         /\ walk'.scope = scope /\ walk'.got = all /\ walk'.cursor = next /\ walk'.used = walk.used \cup {next}
         /\ walk' = [state |-> walk'.state, scope |-> scope, cursor |-> next, got |-> all, used |-> walk.used \cup {next}]
    <3>1. next \notin walk.used
      <4>1. NoCursor \notin walk.used
        BY <1>1 DEF WalkGoesOn
      <4>. QED  BY <2>18, <4>1
    <3>2. walk = [state |-> walk.state, scope |-> walk.scope, cursor |-> walk.cursor, got |-> walk.got, used |-> walk.used]
      BY DEF WalkInv, WalkTyped
    <3> DEFINE state == CASE next = NoCursor -> "done"
                          [] next \in walk.used -> "invalid_pagination"
                          [] OTHER -> "walking"
    <3>3. state = IF next = NoCursor THEN "done" ELSE "walking"
      BY <3>1
    <3>4. walk' = [walk EXCEPT !.state = state, !.scope = scope, !.got = all, !.cursor = next, !.used = @ \cup {next}]
      BY <2>7
    <3>. HIDE DEF state
    <3>5. walk' = [state |-> state, scope |-> scope, cursor |-> next, got |-> all, used |-> walk.used \cup {next}]
      BY <3>2, <3>4
    <3>. QED  BY <3>3, <3>5
  <2>20. WalkTyped'
    <3>1. walk' \in [state : {"idle", "walking", "done", "refused"}, scope : {"none"} \cup Scope[list],
                     cursor : PageCursor, got : Seq(Key[list]), used : SUBSET PageCursor]
      BY <2>1, <2>13, <2>17, <2>19
    <3>. QED  BY <1>1, <1>2, <2>19, <3>1 DEF WalkInv, WalkTyped
  <2>21. InOrder(walk.got)'
    BY <1>1, <2>13, <2>19, SameList DEF InOrder
  <2>22. ASSUME next = NoCursor
         PROVE  steady[scope] \subseteq ToSet(all)
    BY <2>13, <2>14, <2>17, <2>22
  <2>23. ASSUME next # NoCursor
         PROVE  WalkGoesOn'
    <3>1. next.scope = scope /\ next.after = read[limit]
      BY <2>17, <2>23
    <3>2. /\ all # <<>> /\ next.after = all[Len(all)]
          /\ \A k \in K : k \in ToSet(all) \/ Follows(k, next.after, "sql")
      BY <2>13, <2>17, <2>23, <3>1
    <3>3. \A k \in steady[scope] : k \in ToSet(all) \/ Follows(k, next.after, "sql")
      BY <2>13, <2>14, <3>2
    <3>4. \A c \in walk.used \cup {next} : c # NoCursor /\ (c.after = next.after \/ Follows(next.after, c.after, "sql"))
      BY <2>18, <2>23
    <3>. QED  BY <1>1, <2>19, <2>23, <3>1, <3>2, <3>3, <3>4, SameList DEF WalkGoesOn
  <2>. QED  BY <1>1, <2>19, <2>20, <2>21, <2>22, <2>23 DEF WalkInv
<1>. QED  BY <1>3, <1>4

LEMMA WalkNext ==
  ASSUME WalkInv, Next
  PROVE  WalkInv'
<1>1. ASSUME NEW scope \in Scope[list], Begin(scope)
      PROVE  WalkInv'
  BY <1>1, BeginWalk
<1>2. ASSUME NEW scope \in Scope[list], NEW limit \in PageSizes, NextPage(scope, limit)
      PROVE  WalkInv'
  BY <1>2, PageTurned
<1>3. ASSUME NEW row \in Universe[list], Insert(row)
      PROVE  WalkInv'
  BY <1>3, InsertRow DEF Insert, Steady
<1>4. ASSUME NEW row \in Universe[list], Update(row)
      PROVE  WalkInv'
  BY <1>4, UpdateRow DEF Update, Steady
<1>5. ASSUME NEW row \in rows, RemoveMember(row)
      PROVE  WalkInv'
  BY <1>5, MemberGoes DEF RemoveMember, Steady
<1>. QED  BY <1>1, <1>2, <1>3, <1>4, <1>5 DEF Next

LEMMA WalkWhole ==
  ASSUME WalkInv
  PROVE  PagesAgree /\ WalkIsWhole
<1>1. PagesAgree
  BY PagesSame DEF WalkInv, WalkTyped
<1>2. IsInjective(walk.got)
  <2>1. list \in DOMAIN Key /\ walk.got \in Seq(Key[list])
    BY ListAssumption DEF WalkInv, WalkTyped
  <2>2. ASSUME NEW i \in 1 .. Len(walk.got), NEW j \in 1 .. Len(walk.got), i < j
        PROVE  walk.got[i] # walk.got[j]
    <3>1. Follows(walk.got[j], walk.got[i], "sql")
      BY <2>2 DEF WalkInv, InOrder
    <3>. QED  BY <2>1, <3>1, ListOrdered
  <2>3. Len(walk.got) \in Nat /\ DOMAIN walk.got = 1 .. Len(walk.got)
    BY <2>1
  <2>. QED  BY <2>2, <2>3 DEF IsInjective
<1>. QED  BY <1>1, <1>2 DEF WalkInv, WalkTyped, WalkIsWhole

\* Lists: whatever versions there are and rows are written, what the text keys of
\* versions sort first is what SemVer takes for newer, a page that cuts each package
\* off first lacks nothing, and so the database answers with the pages of the
\* repository in memory: for audit events and the releases of a package under any
\* collation, for the other lists as far as the collation has the names and ids that
\* are compared in the order of their code units.
THEOREM PagesAreAlike == EdgeSpec => []PagesOfBothAgree
<1>1. EdgeInit => (part = "pages" => WalkInv)
  BY WalkInit DEF EdgeInit
<1>2. /\ part = "pages" => WalkInv
      /\ [EdgeNext]_<<part, browserVars, limiterVars, pageVars, clientVars, loreVars, operatorVars, tabVars>>
      => (part = "pages" => WalkInv)'
  BY WalkNext, WalkStutter DEF EdgeNext, pageVars
<1>3. (part = "pages" => WalkInv) => PagesOfBothAgree
  BY WalkWhole DEF PagesOfBothAgree
<1>. QED  BY <1>1, <1>2, <1>3, PTL DEF EdgeSpec

\* Lists: whoever follows the cursors to the end, in pages of any size and while any
\* rows are written, saw all that was there all the while, nothing twice, and was
\* never sent in a circle.
THEOREM WalksMissNothing == EdgeSpec => []WalksAreWhole
<1>1. EdgeInit => (part = "pages" => WalkInv)
  BY WalkInit DEF EdgeInit
<1>2. /\ part = "pages" => WalkInv
      /\ [EdgeNext]_<<part, browserVars, limiterVars, pageVars, clientVars, loreVars, operatorVars, tabVars>>
      => (part = "pages" => WalkInv)'
  BY WalkNext, WalkStutter DEF EdgeNext, pageVars
<1>3. (part = "pages" => WalkInv) => WalksAreWhole
  BY WalkWhole DEF WalksAreWhole
<1>. QED  BY <1>1, <1>2, <1>3, PTL DEF EdgeSpec

=============================================================================
