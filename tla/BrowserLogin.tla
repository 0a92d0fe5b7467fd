---------------------------- MODULE BrowserLogin ----------------------------
(***************************************************************************)
(* Signing in with a browser: the logins and sessions that                    *)
(* src/registry-browser-auth.ts keeps in memory, the identity provider's        *)
(* token (src/registry-oidc.ts), and the member that it stands for              *)
(* (src/registry-identity-service.ts).                                         *)
(*                                                                         *)
(* A handler runs to its next await in one step. A login's state, nonces and     *)
(* code verifier are one number: they are random and kept together. So are a     *)
(* session's id and its CSRF token. Cookies change when an answer is sent.        *)
(***************************************************************************)
EXTENDS Naturals, Sequences, FiniteSets

CONSTANTS
  Browser,
  Person,
  Conn,          \* requests in flight at the same time
  Change,        \* what can become of a person: [active, role]
  Logins,        \* bound: how many logins are begun
  MaxTime,       \* bound of the clock
  PENDING_LOGIN_TTL, SESSION_TTL,
  MAX_PENDING_LOGINS, MAX_SESSIONS

VARIABLES
  now,
  begun,     \* begun[l]: the browser that login l was started in
  pending,   \* logins that wait for their callback: [id, at]
  sessions,  \* open sessions: [id, of, as, expires]
  jar,       \* jar[b]: the cookies of b, 0 if it has none
  active,    \* active[p], role[p]: what the database knows of p
  role,
  pc, req,
  held,      \* held[c]: what c keeps across an await: a token, a session, an actor
  opened,    \* opened[i]: the login and the browser that session i was made for
  since      \* since[c]: the roles its person has had since the request of c began

people == <<active, role>>
vars == <<now, begun, pending, sessions, jar, people, pc, req, held, opened, since>>

Role == {"viewer", "admin"}
Nothing == [kind |-> "nothing"]

TypeOK ==
  /\ now \in 0 .. MaxTime
  /\ begun \in Seq(Browser) /\ Len(begun) <= Logins
  /\ pending \subseteq [id : 1 .. Logins, at : 0 .. MaxTime]
  /\ Cardinality(pending) <= MAX_PENDING_LOGINS
  /\ \A s \in sessions : s.id \in DOMAIN opened /\ s.of \in Person
  /\ Cardinality(sessions) <= MAX_SESSIONS
  /\ jar \in [Browser -> [login : 0 .. Logins, session : 0 .. Len(opened)]]
  /\ active \in [Person -> BOOLEAN] /\ role \in [Person -> Role \cup {"none"}]
  /\ pc \in [Conn -> {"idle", "exchange", "verify", "user", "member", "create",
                      "answer", "expired", "forget", "logout"}]
  /\ since \in [Conn -> SUBSET (Role \cup {"none"})]

Init ==
  /\ now = 0
  /\ begun = <<>> /\ pending = {} /\ sessions = {} /\ opened = <<>>
  /\ jar = [b \in Browser |-> [login |-> 0, session |-> 0]]
  /\ active = [p \in Person |-> TRUE]
  /\ role = [p \in Person |-> "admin"]
  /\ pc = [c \in Conn |-> "idle"]
  /\ req = [c \in Conn |-> Nothing]
  /\ held = [c \in Conn |-> Nothing]
  /\ since = [c \in Conn |-> {}]

-----------------------------------------------------------------------------

\* The session with this id, if the store has one.
Stored(id) == {s \in sessions : s.id = id}

DeleteSession(id) == sessions' = {s \in sessions : s.id # id}

\* Ids are given in order: the oldest have the lowest.
Newest(records, n) == {r \in records : Cardinality({s \in records : s.id > r.id}) < n}

Goto(c, step) == pc' = [pc EXCEPT ![c] = step]

End(c) ==
  /\ Goto(c, "idle")
  /\ req' = [req EXCEPT ![c] = Nothing]
  /\ held' = [held EXCEPT ![c] = Nothing]
  /\ since' = [since EXCEPT ![c] = {}]

clearLoginCookie(b) == jar' = [jar EXCEPT ![b].login = 0]
clearSessionCookies(b) == jar' = [jar EXCEPT ![b].session = 0]

\* prunePending: expired logins go first, then the oldest.
prunePending(logins) ==
  Newest({l \in logins : now - l.at <= PENDING_LOGIN_TTL}, MAX_PENDING_LOGINS)

Login(b) ==
  LET state == Len(begun) + 1 IN
  /\ state <= Logins
  /\ begun' = Append(begun, b)
  /\ pending' = prunePending(pending \cup {[id |-> state, at |-> now]})
  /\ jar' = [jar EXCEPT ![b].login = state]
  /\ UNCHANGED <<now, sessions, people, pc, req, held, opened, since>>

TakePending(state) == pending' = {l \in pending : l.id # state}

\* The identity provider sends the browser back with an error.
CallbackDenied(b, state) ==
  /\ TakePending(state)
  /\ clearLoginCookie(b)
  /\ UNCHANGED <<now, begun, sessions, people, pc, req, held, opened, since>>

\* The state is known and fresh, and this browser has the cookie of its login.
Accepted(b, state) ==
  /\ jar[b].login = state
  /\ \E l \in pending : l.id = state /\ now - l.at <= PENDING_LOGIN_TTL

\* Mutation: the state is kept until the callback is through.
CallbackKeepsState(c, b, state) ==
  /\ pc[c] = "idle"
  /\ Accepted(b, state)
  /\ Goto(c, "exchange")
  /\ req' = [req EXCEPT ![c] = [kind |-> "callback", browser |-> b, state |-> state]]
  /\ UNCHANGED <<now, begun, pending, sessions, jar, people, held, opened, since>>

\* A state is used up by its first callback, valid or not.
Callback(c, b, state) ==
  /\ pc[c] = "idle"
  /\ TakePending(state)
  /\ IF Accepted(b, state)
     THEN /\ Goto(c, "exchange")
          /\ req' = [req EXCEPT ![c] = [kind |-> "callback", browser |-> b, state |-> state]]
          /\ UNCHANGED <<jar, held, since>>
     ELSE End(c) /\ clearLoginCookie(b)
  /\ UNCHANGED <<now, begun, sessions, people, opened>>

\* The answer of a callback that failed after an await clears the login cookie.
Abandon(c) == End(c) /\ clearLoginCookie(req[c].browser)

\* exchangeAuthorizationCode: the provider answers with a token, or not in time.
Exchange(c) ==
  /\ pc[c] = "exchange"
  /\ \/ Abandon(c)
     \/ \E p \in Person, nonce \in DOMAIN begun :
          /\ held' = [held EXCEPT ![c] = [of |-> p, as |-> "none", nonce |-> nonce]]
          /\ Goto(c, "verify")
          /\ UNCHANGED <<req, jar, since>>
  /\ UNCHANGED <<now, begun, pending, sessions, people, opened>>

\* OidcJwtIdentityVerifier.verify: the token is of this login, fresh and well signed.
Verify(c) ==
  /\ pc[c] = "verify"
  /\ \/ Abandon(c)
     \/ held[c].nonce = req[c].state /\ Goto(c, "user") /\ UNCHANGED <<req, held, jar, since>>
  /\ UNCHANGED <<now, begun, pending, sessions, people, opened>>

\* There is no actor: no session is made, and one that there is will be deleted.
Unknown(c) ==
  IF req[c].kind = "callback" THEN Abandon(c)
  ELSE Goto(c, "forget") /\ UNCHANGED <<req, held, jar, since>>

\* resolvePostgresVerifiedIdentityActor, first its user ...
ReadUser(c) ==
  /\ pc[c] = "user"
  /\ IF active[held[c].of]
     THEN Goto(c, "member") /\ UNCHANGED <<req, held, jar, since>>
     ELSE Unknown(c)
  /\ UNCHANGED <<now, begun, pending, sessions, people, opened>>

\* The role of an actor is what the database says now.
Actor(c) == [held[c] EXCEPT !.as = role[held[c].of]]

\* ... and then its membership.
ReadMember(c) ==
  /\ pc[c] = "member"
  /\ IF role[held[c].of] # "none"
     THEN /\ held' = [held EXCEPT ![c] = Actor(c)]
          /\ Goto(c, IF req[c].kind = "callback" THEN "create" ELSE "answer")
          /\ UNCHANGED <<req, jar, since>>
     ELSE Unknown(c)
  /\ UNCHANGED <<now, begun, pending, sessions, people, opened>>

\* createSessionRecord and the store's create: beyond its size the oldest goes.
CreateSession(c) ==
  /\ pc[c] = "create"
  /\ LET id == Len(opened) + 1
         b  == req[c].browser
         record == [id |-> id, of |-> held[c].of, as |-> held[c].as, expires |-> now + SESSION_TTL]
     IN  /\ sessions' = Newest(sessions \cup {record}, MAX_SESSIONS)
         /\ opened' = Append(opened, [login |-> req[c].state, browser |-> b])
         /\ jar' = [jar EXCEPT ![b] = [login |-> 0, session |-> id]]
  /\ End(c)
  /\ UNCHANGED <<now, begun, pending, people>>

-----------------------------------------------------------------------------

\* readActiveSession, for GET /auth/session, a call of the API, or a logout. A
\* request that changes something is proven if its page sent the CSRF token.
Use(c, b, kind, proven) ==
  /\ pc[c] = "idle" /\ jar[b].session # 0
  /\ \/ /\ Stored(jar[b].session) = {}
        /\ clearSessionCookies(b)
        /\ UNCHANGED <<pc, req, held, since>>
     \/ \E s \in Stored(jar[b].session) :
          /\ req' = [req EXCEPT ![c] = [kind |-> kind, browser |-> b, proven |-> proven]]
          /\ held' = [held EXCEPT ![c] = s]
          /\ Goto(c, IF s.expires <= now THEN "expired" ELSE IF kind = "logout" THEN "logout" ELSE "user")
          /\ since' = [since EXCEPT ![c] = {role[s.of]}]
          /\ UNCHANGED jar
  /\ UNCHANGED <<now, begun, pending, sessions, people, opened>>

\* assertBrowserCsrf comes after the actor was found.
LetIn(c) == pc[c] = "answer" /\ req[c].proven

Answer(c) ==
  /\ pc[c] = "answer"
  /\ End(c)
  /\ UNCHANGED <<now, begun, pending, sessions, jar, people, opened>>

\* An expired session, or one whose person is no member any more, is deleted.
Forget(c) ==
  /\ pc[c] \in {"expired", "forget"}
  /\ DeleteSession(held[c].id)
  /\ clearSessionCookies(req[c].browser)
  /\ End(c)
  /\ UNCHANGED <<now, begun, pending, people, opened>>

Logout(c) ==
  /\ pc[c] = "logout"
  /\ IF req[c].proven
     THEN DeleteSession(held[c].id) /\ clearSessionCookies(req[c].browser)
     ELSE UNCHANGED <<sessions, jar>>
  /\ End(c)
  /\ UNCHANGED <<now, begun, pending, people, opened>>

-----------------------------------------------------------------------------

Tick ==
  /\ now < MaxTime
  /\ now' = now + 1
  /\ UNCHANGED <<begun, pending, sessions, jar, people, pc, req, held, opened, since>>

\* Whatever else the registry does with its members.
ChangePerson(p, to) ==
  /\ active' = [active EXCEPT ![p] = to.active]
  /\ role' = [role EXCEPT ![p] = to.role]
  /\ since' = [c \in Conn |-> IF since[c] # {} /\ held[c].of = p THEN since[c] \cup {to.role} ELSE since[c]]
  /\ UNCHANGED <<now, begun, pending, sessions, jar, pc, req, held, opened>>

Step(c) ==
  \/ Exchange(c) \/ Verify(c) \/ ReadUser(c) \/ ReadMember(c) \/ CreateSession(c)
  \/ Answer(c) \/ Forget(c) \/ Logout(c)

Next ==
  \/ Tick
  \/ \E b \in Browser : Login(b)
  \/ \E b \in Browser, state \in DOMAIN begun :
       CallbackDenied(b, state) \/ \E c \in Conn : Callback(c, b, state)
  \/ \E c \in Conn, b \in Browser, kind \in {"call", "logout"}, proven \in BOOLEAN :
       Use(c, b, kind, proven)
  \/ \E c \in Conn : Step(c)
  \/ \E p \in Person, to \in Change : ChangePerson(p, to)

Spec == Init /\ [][Next]_vars

-----------------------------------------------------------------------------
(* Properties.                                                              *)

\* A login opens at most one session, in the browser that began it, however
\* many callbacks with its state overlap and whatever the callbacks await.
OneSessionPerLogin ==
  /\ \A i, j \in DOMAIN opened : opened[i].login = opened[j].login => i = j
  /\ \A i \in DOMAIN opened : begun[opened[i].login] = opened[i].browser

\* A request is let in with a role that its person had while it was handled,
\* not with one from before: "never a role cached in the session".
RoleHeldMeanwhile == \A c \in Conn : LetIn(c) => held[c].as \in since[c]

=============================================================================
