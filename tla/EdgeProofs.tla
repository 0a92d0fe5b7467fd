------------------------------ MODULE EdgeProofs ------------------------------
(***************************************************************************)
(* Proofs about all the parts of MCEdge together, for any values of its           *)
(* constants: every variable has its type, and what is kept is no more than there  *)
(* is room for. Types follow from the invariants of EdgeServerProofs and            *)
(* EdgeClientProofs; bounds need invariants of their own.                            *)
(***************************************************************************)
EXTENDS EdgeServerProofs, EdgeClientProofs

-----------------------------------------------------------------------------
(* Browsers: the stores stay in their bounds.                                *)

\* No two records have one id, and all of them are numbers.
Named(records) ==
  /\ IsFiniteSet(records) /\ \A r \in records : r.id \in Nat
  /\ \A r, s \in records : r.id = s.id => r = s

\* How many of the newest records are kept, out of how ever many.
LEMMA NewestAreFew ==
  ASSUME NEW records, Named(records), NEW n \in Nat
  PROVE  /\ Browsers!Newest(records, n) \subseteq records
         /\ Named(Browsers!Newest(records, n))
         /\ Browsers!Cardinality(Browsers!Newest(records, n)) <= n
<1> DEFINE R == {p \in records \X records : p[1].id > p[2].id}
           kept == Browsers!Newest(records, n)
           place == [r \in kept |-> Cardinality(Below(records, R, r))]
<1>1. StrictlyOrders(R, records)
  BY DEF Named, StrictlyOrders
<1>2. \A r \in records : Below(records, R, r) = {s \in records : s.id > r.id}
  BY DEF Below
<1>3. kept = {r \in records : Cardinality(Below(records, R, r)) < n}
  BY <1>2 DEF Browsers!Newest, Browsers!Cardinality, Cardinality
<1>. HIDE DEF R
<1>4. /\ \A r \in records : Cardinality(Below(records, R, r)) \in Nat
      /\ \A r, s \in records : <<s, r>> \in R => Cardinality(Below(records, R, s)) < Cardinality(Below(records, R, r))
  <2>1. Cardinality(records) \in Nat
    BY FS_CardinalityType DEF Named
  <2>2. /\ \A r \in records : Cardinality(Below(records, R, r)) \in 0 .. Cardinality(records) - 1
        /\ \A r, s \in records :
             <<s, r>> \in R => Cardinality(Below(records, R, s)) < Cardinality(Below(records, R, r))
    BY <1>1, Ranks DEF Named
  <2>. QED  BY <2>1, <2>2
<1>. HIDE DEF kept
<1>5. place \in Injection(kept, 0 .. n - 1)
  <2>1. place \in [kept -> 0 .. n - 1]
    BY <1>3, <1>4
  <2>2. ASSUME NEW r \in kept, NEW s \in kept, place[r] = place[s]
        PROVE  r = s
    <3>1. /\ r \in records /\ s \in records
          /\ Cardinality(Below(records, R, r)) = Cardinality(Below(records, R, s))
          /\ Cardinality(Below(records, R, r)) \in Nat
      BY <1>3, <1>4, <2>2
    <3>2. <<r, s>> \notin R /\ <<s, r>> \notin R
      BY <1>4, <3>1
    <3>. QED  BY <1>1, <3>1, <3>2 DEF StrictlyOrders
  <2>. HIDE DEF place
  <2>. QED  BY <2>1, <2>2 DEF Injection, IsInjective
<1>6. IsFiniteSet(0 .. n - 1) /\ Cardinality(0 .. n - 1) = n
  <2>1. n - 1 \in Int /\ (0 > n - 1 <=> n = 0) /\ n - 1 - 0 + 1 = n
    OBVIOUS
  <2>. QED  BY <2>1, FS_Interval
<1>. HIDE DEF place
<1>7. Cardinality(kept) <= n
  BY <1>5, <1>6, FS_Injection
<1>8. kept \in SUBSET records /\ IsFiniteSet(kept)
  BY <1>3, FS_Subset DEF Named
<1>9. Browsers!Cardinality(kept) = Cardinality(kept)
  BY DEF Browsers!Cardinality, Cardinality
<1>. QED  BY <1>7, <1>8, <1>9 DEF Named, kept

\* The bounds of the clock, of the logins and of what is kept of them.
BrowserBounds ==
  /\ now <= MaxTime /\ Len(begun) <= Logins
  /\ \A l \in pending : l.at <= MaxTime
  /\ Named(pending) /\ Browsers!Cardinality(pending) <= MAX_PENDING_LOGINS
  /\ Named(sessions) /\ Browsers!Cardinality(sessions) <= MAX_SESSIONS
  /\ \A s \in sessions : s.id \in DOMAIN opened
  /\ \A b \in Browser : jar[b].session <= Len(opened)
  /\ active \in [Person -> BOOLEAN]

\* A store that loses records stays in its bounds.
LEMMA FewerRecords ==
  ASSUME NEW records, Named(records), NEW n \in Nat, Browsers!Cardinality(records) <= n,
         NEW fewer \in SUBSET records
  PROVE  Named(fewer) /\ Browsers!Cardinality(fewer) <= n
<1>1. Browsers!Cardinality(records) = Cardinality(records) /\ Browsers!Cardinality(fewer) = Cardinality(fewer)
  BY DEF Browsers!Cardinality, Cardinality
<1>2. IsFiniteSet(fewer) /\ Cardinality(fewer) <= Cardinality(records)
  BY FS_Subset DEF Named
<1>3. Cardinality(fewer) \in Nat /\ Cardinality(records) \in Nat
  BY <1>2, FS_CardinalityType DEF Named
<1>. QED  BY <1>1, <1>2, <1>3 DEF Named

LEMMA BrowserBoundsInit ==
  ASSUME Browsers!Init
  PROVE  BrowserBounds
<1>1. /\ now = 0 /\ begun = <<>> /\ pending = {} /\ sessions = {} /\ opened = <<>>
      /\ jar = [b \in Browser |-> [login |-> 0, session |-> 0]] /\ active = [p \in Person |-> TRUE]
  BY DEF Browsers!Init
<1>2. Named({}) /\ Browsers!Cardinality({}) = 0
  BY FS_EmptySet DEF Named, Browsers!Cardinality, Cardinality
<1>. QED  BY <1>1, <1>2, BrowserAssumption DEF BrowserBounds

\* What most steps do: nobody logs in and no session is made.
LEMMA BoundsStay ==
  ASSUME BrowserInv, BrowserBounds,
         UNCHANGED <<now, begun, opened, active>>, pending' \subseteq pending, sessions' \subseteq sessions,
         \A b \in Browser : jar'[b].session \in {0, jar[b].session}
  PROVE  BrowserBounds'
<1>1. /\ Named(pending') /\ Browsers!Cardinality(pending') <= MAX_PENDING_LOGINS
      /\ Named(sessions') /\ Browsers!Cardinality(sessions') <= MAX_SESSIONS
  BY FewerRecords, BrowserAssumption DEF BrowserBounds
<1>2. opened \in Seq([login : Nat, browser : Browser]) /\ Len(opened) \in Nat
  BY DEF BrowserInv, BrowserTyped
<1>3. Named(pending)' /\ Named(sessions)' /\ Browsers!Cardinality(pending)' <= MAX_PENDING_LOGINS /\ Browsers!Cardinality(sessions)' <= MAX_SESSIONS
  BY <1>1
<1>. QED  BY <1>1, <1>2 DEF BrowserBounds

LEMMA LoginBounds ==
  ASSUME BrowserInv, BrowserBounds, NEW b \in Browser, Browsers!Login(b)
  PROVE  BrowserBounds'
<1> DEFINE state == Len(begun) + 1
           login == [id |-> state, at |-> now]
           fresh == {l \in pending \cup {login} : now - l.at <= PENDING_LOGIN_TTL}
<1>1. /\ begun \in Seq(Browser) /\ Len(begun) \in Nat /\ now \in Nat
      /\ jar \in [Browser -> [login : Nat, session : Nat]]
      /\ \A l \in pending : l.id \in DOMAIN begun
  BY DEF BrowserInv, BrowserTyped, LoginsSound
<1>2. /\ state <= Logins /\ begun' = Append(begun, b)
      /\ pending' = Browsers!Newest(fresh, MAX_PENDING_LOGINS)
      /\ jar' = [jar EXCEPT ![b].login = state]
      /\ UNCHANGED <<now, sessions, opened, active>>
  BY DEF Browsers!Login, Browsers!prunePending, Browsers!people
<1>3. Named(pending \cup {login})
  <2>1. \A l \in pending : l.id # state
    BY <1>1
  <2>2. IsFiniteSet(pending \cup {login})
    BY FS_AddElement DEF BrowserBounds, Named
  <2>. QED  BY <1>1, <2>1, <2>2 DEF BrowserBounds, Named
<1>4. Named(fresh)
  <2>1. fresh \in SUBSET (pending \cup {login})
    OBVIOUS
  <2>2. IsFiniteSet(fresh)
    BY <1>3, <2>1, FS_Subset DEF Named
  <2>. HIDE DEF fresh, login
  <2>. QED  BY <1>3, <2>1, <2>2 DEF Named
<1>. HIDE DEF fresh
<1>5. pending' \subseteq fresh /\ Named(pending)' /\ Browsers!Cardinality(pending)' <= MAX_PENDING_LOGINS
  BY <1>2, <1>4, NewestAreFew, BrowserAssumption
<1>6. \A l \in pending' : l.at <= MaxTime
  BY <1>5 DEF BrowserBounds, fresh
<1>7. Len(begun') = state
  BY <1>1, <1>2
<1>8. \A d \in Browser : jar'[d].session = jar[d].session
  BY <1>1, <1>2
<1>. QED  BY <1>2, <1>5, <1>6, <1>7, <1>8 DEF BrowserBounds

LEMMA SessionBounds ==
  ASSUME BrowserInv, BrowserBounds, NEW c \in Conn, Browsers!CreateSession(c)
  PROVE  BrowserBounds'
<1> DEFINE id == Len(opened) + 1
           b == req[c].browser
           record == [id |-> id, of |-> held[c].of, as |-> held[c].as, expires |-> now + SESSION_TTL]
           made == [login |-> req[c].state, browser |-> b]
<1>1. /\ sessions' = Browsers!Newest(sessions \cup {record}, MAX_SESSIONS)
      /\ opened' = Append(opened, made)
      /\ jar' = [jar EXCEPT ![b] = [login |-> 0, session |-> id]]
      /\ UNCHANGED <<now, begun, pending, active>>
  BY DEF Browsers!CreateSession, Browsers!people
<1>2. /\ opened \in Seq([login : Nat, browser : Browser]) /\ Len(opened) \in Nat
      /\ jar \in [Browser -> [login : Nat, session : Nat]]
  BY DEF BrowserInv, BrowserTyped
<1>3. Len(opened') = id /\ DOMAIN opened' = 1 .. id /\ DOMAIN opened = 1 .. Len(opened)
  <2>1. Redeems(c) /\ req[c] \in Redemption
    BY RequestShape DEF BrowserInv, RequestSound, Browsers!CreateSession
  <2>2. made \in [login : Nat, browser : Browser]
    BY <2>1 DEF Redemption
  <2>. QED  BY <1>1, <1>2, <2>2
<1>4. record.id = id
  OBVIOUS
<1>. HIDE DEF record, made
<1>5. Named(sessions \cup {record})
  <2>1. \A s \in sessions : s.id # id
    BY <1>2 DEF BrowserBounds
  <2>2. IsFiniteSet(sessions \cup {record})
    BY FS_AddElement DEF BrowserBounds, Named
  <2>. QED  BY <1>2, <1>4, <2>1, <2>2 DEF BrowserBounds, Named
<1>6. sessions' \subseteq sessions \cup {record} /\ Named(sessions)' /\ Browsers!Cardinality(sessions)' <= MAX_SESSIONS
  BY <1>1, <1>5, NewestAreFew, BrowserAssumption
<1>7. \A s \in sessions' : s.id \in DOMAIN opened'
  BY <1>2, <1>3, <1>4, <1>6 DEF BrowserBounds
<1>8. \A d \in Browser : jar'[d].session \in {id, jar[d].session}
  BY <1>1, <1>2
<1>9. \A d \in Browser : jar'[d].session <= Len(opened')
  <2>1. \A d \in Browser : jar[d].session <= Len(opened) /\ jar[d].session \in Nat
    BY <1>2 DEF BrowserBounds
  <2>2. id \in Nat /\ Len(opened) <= id /\ Len(opened) \in Nat
    BY <1>2
  <2>3. Len(opened') = id
    BY <1>3
  <2>. HIDE DEF id
  <2>4. \A d \in Browser : jar'[d].session <= id
    BY <1>8, <2>1, <2>2
  <2>. QED  BY <2>3, <2>4
<1>. QED  BY <1>1, <1>6, <1>7, <1>9 DEF BrowserBounds

LEMMA BrowserBoundsNext ==
  ASSUME BrowserInv, BrowserBounds, Browsers!Next
  PROVE  BrowserBounds'
<1>1. ASSUME Browsers!Tick
      PROVE  BrowserBounds'
  <2>1. now \in Nat /\ now < MaxTime /\ now' = now + 1
    BY <1>1 DEF Browsers!Tick, BrowserInv, BrowserTyped
  <2>. QED  BY <1>1, <2>1, BrowserAssumption DEF Browsers!Tick, Browsers!people, BrowserBounds
<1>2. ASSUME NEW p \in Person, NEW to \in Change, Browsers!ChangePerson(p, to)
      PROVE  BrowserBounds'
  <2>1. active' \in [Person -> BOOLEAN]
    BY <1>2, BrowserAssumption DEF Browsers!ChangePerson, BrowserBounds
  <2>2. UNCHANGED <<now, begun, pending, sessions, jar, opened>>
    BY <1>2 DEF Browsers!ChangePerson
  <2>. QED  BY <2>1, <2>2 DEF BrowserBounds
<1>3. ASSUME NEW b \in Browser, Browsers!clearLoginCookie(b) \/ Browsers!clearSessionCookies(b) \/ jar' = jar
      PROVE  \A d \in Browser : jar'[d].session \in {0, jar[d].session}
  <2>1. jar \in [Browser -> [login : Nat, session : Nat]]
    BY DEF BrowserInv, BrowserTyped
  <2>2. CASE Browsers!clearLoginCookie(b)
    BY <2>1, <2>2 DEF Browsers!clearLoginCookie
  <2>3. CASE Browsers!clearSessionCookies(b)
    BY <2>1, <2>3 DEF Browsers!clearSessionCookies
  <2>. QED  BY <1>3, <2>2, <2>3
<1>4. ASSUME NEW b \in Browser, NEW state \in DOMAIN begun,
             Browsers!CallbackDenied(b, state) \/ \E c \in Conn : Browsers!Callback(c, b, state)
      PROVE  BrowserBounds'
  BY <1>3, <1>4, BoundsStay DEF Browsers!CallbackDenied, Browsers!Callback, Browsers!TakePending, Browsers!people
<1>5. ASSUME NEW c \in Conn, NEW b \in Browser, NEW kind \in {"call", "logout"}, NEW proven \in BOOLEAN,
             Browsers!Use(c, b, kind, proven)
      PROVE  BrowserBounds'
  BY <1>3, <1>5, BoundsStay DEF Browsers!Use, Browsers!people
<1>6. ASSUME NEW c \in Conn, Browsers!Step(c), ~Browsers!CreateSession(c)
      PROVE  BrowserBounds'
  <2>1. pc[c] # "idle"
    BY <1>6 DEF Browsers!Step, Browsers!Exchange, Browsers!Verify, Browsers!ReadUser, Browsers!ReadMember,
         Browsers!Answer, Browsers!Forget, Browsers!Logout
  <2>2. req[c].browser \in Browser
    <3>1. Redeems(c) \/ Uses(c)
      BY <2>1 DEF BrowserInv, RequestSound, BrowserTyped, Place
    <3>. QED  BY <3>1, RequestShape DEF BrowserInv, Redemption, UseOfSession
  <2>3. /\ UNCHANGED <<now, begun, pending, opened, active>>
        /\ sessions' = sessions \/ Browsers!DeleteSession(held[c].id)
        /\ \/ jar' = jar \/ Browsers!clearLoginCookie(req[c].browser) \/ Browsers!clearSessionCookies(req[c].browser)
    BY <1>6 DEF Browsers!Step, Browsers!Exchange, Browsers!Verify, Browsers!ReadUser, Browsers!ReadMember,
         Browsers!Answer, Browsers!Forget, Browsers!Logout, Browsers!Abandon, Browsers!Unknown, Browsers!people
  <2>4. sessions' \subseteq sessions
    BY <2>3 DEF Browsers!DeleteSession
  <2>. QED  BY <1>3, <2>2, <2>3, <2>4, BoundsStay
<1>. QED  BY <1>1, <1>2, <1>4, <1>5, <1>6, LoginBounds, SessionBounds DEF Browsers!Next

LEMMA BrowserBoundsStutter ==
  ASSUME BrowserBounds, UNCHANGED browserVars
  PROVE  BrowserBounds'
<1>1. UNCHANGED <<now, begun, pending, sessions, jar, active, opened>>
  BY DEF browserVars
<1>2. Named(pending)' /\ Named(sessions)' /\ Browsers!Cardinality(pending)' <= MAX_PENDING_LOGINS
      /\ Browsers!Cardinality(sessions)' <= MAX_SESSIONS
  BY <1>1 DEF BrowserBounds
<1>. QED  BY <1>1, <1>2 DEF BrowserBounds

LEMMA BrowserTypes ==
  ASSUME BrowserInv, BrowserBounds
  PROVE  Browsers!TypeOK
<1>1. BrowserTyped /\ LoginsSound /\ begun \in Seq(Browser) /\ Len(begun) \in Nat /\ Len(begun) <= Logins
      /\ opened \in Seq([login : Nat, browser : Browser]) /\ Len(opened) \in Nat
  BY DEF BrowserInv, BrowserTyped, BrowserBounds
<1>2. DOMAIN begun = 1 .. Len(begun) /\ 1 .. Len(begun) \subseteq 1 .. Logins
  BY <1>1, BrowserAssumption
<1>3. now \in 0 .. MaxTime
  BY <1>1, BrowserAssumption DEF BrowserTyped, BrowserBounds
<1>4. pending \subseteq [id : 1 .. Logins, at : 0 .. MaxTime]
  <2>. SUFFICES ASSUME NEW l \in pending
                PROVE  l \in [id : 1 .. Logins, at : 0 .. MaxTime]
    OBVIOUS
  <2>1. l \in [id : Nat, at : Nat] /\ l.id \in 1 .. Logins /\ l.at \in 0 .. MaxTime
    BY <1>1, <1>2, BrowserAssumption DEF BrowserTyped, BrowserBounds, LoginsSound
  <2>. QED  BY <2>1
<1>5. jar \in [Browser -> [login : 0 .. Logins, session : 0 .. Len(opened)]]
  <2>1. jar \in [Browser -> [login : Nat, session : Nat]]
    BY <1>1 DEF BrowserTyped
  <2>2. \A b \in Browser : jar[b].login \in 0 .. Logins /\ jar[b].session \in 0 .. Len(opened)
    BY <1>1, <1>2, <2>1, BrowserAssumption DEF BrowserBounds, LoginsSound
  <2>. QED  BY <2>1, <2>2
<1>6. \A s \in sessions : s.id \in DOMAIN opened /\ s.of \in Person
  BY <1>1 DEF BrowserBounds, BrowserTyped, OpenSession
<1>7. active \in [Person -> BOOLEAN] /\ role \in [Person -> Browsers!Role \cup {"none"}]
  BY <1>1 DEF BrowserBounds, BrowserTyped, Browsers!Role, MemberRole
<1>8. /\ pc \in [Conn -> {"idle", "exchange", "verify", "user", "member", "create",
                      "answer", "expired", "forget", "logout"}]
      /\ since \in [Conn -> SUBSET (Browsers!Role \cup {"none"})]
  BY <1>1 DEF BrowserTyped, Place, Browsers!Role, MemberRole
<1>. QED  BY <1>1, <1>3, <1>4, <1>5, <1>6, <1>7, <1>8 DEF Browsers!TypeOK, BrowserBounds

-----------------------------------------------------------------------------
(* The rate limiter: the table stays in its bounds.                           *)

\* The table has room for maxClients, and the clock has its bounds.
LimiterBounds == clock <= LastTick /\ setbacks \in 0 .. Setbacks /\ Len(buckets) <= maxClients

LEMMA LimiterBoundsInit == Limiter!Init => LimiterBounds
BY LimiterAssumption DEF Limiter!Init, LimiterBounds

LEMMA LimiterBoundsNext ==
  ASSUME LimiterInv, LimiterBounds, Limiter!Next
  PROVE  LimiterBounds'
<1>1. LimiterTyped /\ Full \in Nat /\ TOKEN \in Nat /\ clock \in Nat
  BY LimiterAssumption DEF LimiterInv, LimiterTyped, Full
<1>2. ASSUME NEW k \in Client, Limiter!check(k)
      PROVE  LimiterBounds'
  <2> DEFINE tokens == Limiter!Refilled(k)
             kept == IF tokens >= TOKEN THEN tokens - TOKEN ELSE tokens
  <2>1. Limiter!Keep(k, kept) /\ UNCHANGED <<clock, setbacks>>
    BY <1>2 DEF Limiter!check
  <2>2. kept \in 0 .. Full
    BY <1>1, RefilledBound
  <2>. HIDE DEF kept
  <2>. QED  BY <1>1, <2>1, <2>2, KeptBuckets DEF LimiterBounds
<1>3. ASSUME Limiter!Tick
      PROVE  LimiterBounds'
  BY <1>1, <1>3, LimiterAssumption DEF Limiter!Tick, LimiterBounds
<1>4. ASSUME NEW to \in 0 .. LastTick, Limiter!SetBack(to)
      PROVE  LimiterBounds'
  BY <1>4, LimiterAssumption DEF Limiter!SetBack, LimiterBounds
<1>. QED  BY <1>2, <1>3, <1>4 DEF Limiter!Next

LEMMA LimiterBoundsStutter ==
  ASSUME LimiterBounds, UNCHANGED limiterVars
  PROVE  LimiterBounds'
BY DEF limiterVars, LimiterBounds

LEMMA LimiterTypes ==
  ASSUME LimiterInv, LimiterBounds
  PROVE  Limiter!LimiterTypeOK
<1>1. /\ buckets \in Seq(Bucket) /\ clock \in Nat
      /\ \A i, j \in DOMAIN buckets : buckets[i].key = buckets[j].key => i = j
  BY DEF LimiterInv, LimiterTyped
<1>2. \A i \in DOMAIN buckets : buckets[i].key \in Client /\ buckets[i].tokens \in 0 .. capacity * TOKEN
  <2>1. \A i \in DOMAIN buckets : buckets[i] \in Bucket
    BY <1>1
  <2>. QED  BY <2>1 DEF Bucket, Full
<1>3. clock \in 0 .. LastTick /\ setbacks \in 0 .. Setbacks /\ Len(buckets) <= maxClients
  BY <1>1, LimiterAssumption DEF LimiterBounds
<1>. QED  BY <1>1, <1>2, <1>3 DEF Limiter!LimiterTypeOK

-----------------------------------------------------------------------------
(* The registry's clients: their bounds.                                     *)

\* The bounds of what packs, events and files there are, of the contents that are
\* installed and answered, and what the file with the export's name can be.
ClientBounds ==
  /\ \A p \in Pack : registry[p].integrity \in 1 .. MaxIntegrity /\ lock[p] <= MaxIntegrity
  /\ ids <= MaxEvents /\ created <= MaxFiles
  /\ \A e \in events : e.id > 0
  /\ file.content = "none" => file = Clients!NoFile
  /\ \A c \in Command : job[c].at = "answered" /\ job[c].answer.ok =>
       job[c].answer.release.integrity <= MaxIntegrity

\* Nobody is answered.
NoneAnswered == \A c \in Command : job'[c].at = "answered" => job'[c] = job[c]

LEMMA Unanswered ==
  ASSUME ClientTyped, NEW c \in Command, NEW j, j.at # "answered", job' = [job EXCEPT ![c] = j]
  PROVE  NoneAnswered
BY DEF ClientTyped, NoneAnswered

LEMMA BeginsUnanswered ==
  ASSUME ClientTyped, NEW c \in Command, NEW j, j.at # "answered", Clients!Begin(c, j)
  PROVE  NoneAnswered
BY Unanswered DEF Clients!Begin

LEMMA QuitsUnanswered ==
  ASSUME ClientTyped, NEW c \in Command, NEW result, Clients!Quit(c, result)
  PROVE  NoneAnswered
<1>. DEFINE j == [op |-> job[c].op, at |-> "idle", result |-> result]
<1>1. j.at # "answered" /\ job' = [job EXCEPT ![c] = j]
  BY DEF Clients!Quit
<1>. HIDE DEF j
<1>. QED  BY <1>1, Unanswered

LEMMA ClientBoundsInit ==
  ASSUME Clients!Init
  PROVE  ClientBounds
<1>1. registry = [p \in Pack |-> [status |-> "absent", integrity |-> 1]] /\ lock = [p \in Pack |-> 0]
  BY DEF Clients!Init
<1>2. events = {} /\ file = Clients!NoFile /\ created = 0 /\ ids = 0
  BY DEF Clients!Init
<1>3. \A c \in Command : job[c].at # "answered"
  BY DEF Clients!Init, Clients!NoJob
<1>. QED  BY <1>1, <1>2, <1>3, WorkloadAssumption DEF ClientBounds

LEMMA ClientBoundsStutter ==
  ASSUME ClientBounds, UNCHANGED clientVars
  PROVE  ClientBounds'
BY DEF clientVars, ClientBounds

\* What most steps do: they have no one answered, count nothing and write nothing.
LEMMA ClientBoundsStay ==
  ASSUME ClientBounds, NoneAnswered, UNCHANGED <<registry, events, lock, file, created, ids>>
  PROVE  ClientBounds'
BY DEF ClientBounds, NoneAnswered

LEMMA ServeBounds ==
  ASSUME ClientInv, ClientBounds, NEW c \in Command, Clients!Serve(c)
  PROVE  ClientBounds'
<1>1. job[c].at = "sent" /\ UNCHANGED <<registry, lock, file, created, ids>> /\ job[c] \in CallJob
  BY JobShape DEF Clients!Serve, ClientInv, ClientTyped
<1>. DEFINE a == [ok |-> Clients!Answer(c), release |-> registry[job[c].pack]]
            j == [job[c] EXCEPT !.at = "answered", !.answer = a]
<1>2. job' = [job EXCEPT ![c] = j]
  BY DEF Clients!Serve, ClientInv, ClientTyped
<1>3. j.answer = a /\ job[c].pack \in Pack
  BY <1>1 DEF CallJob
<1>4. a.release.integrity <= MaxIntegrity
  BY <1>3, WorkloadAssumption DEF ClientBounds
<1>. HIDE DEF a
<1>5. j.answer.release.integrity <= MaxIntegrity
  BY <1>3, <1>4
<1>. HIDE DEF j
<1>6. \A d \in Command : job'[d].at = "answered" /\ job'[d].answer.ok =>
        job'[d].answer.release.integrity <= MaxIntegrity
  BY <1>2, <1>5 DEF ClientBounds, ClientInv, ClientTyped
<1>7. \A e \in events' : e.id > 0
  <2>1. CASE job[c].call = "usage"
    <3>1. job[c].id \in 1 .. ids /\ ids \in Nat
      BY <1>1, <2>1 DEF ClientInv, ClientTyped, UsageSound, Reporting
    <3>2. \A e \in events' \ events : e = [id |-> job[c].id, pack |-> job[c].pack]
      BY <2>1 DEF Clients!Serve, Clients!UsageEvent
    <3>. QED  BY <3>1, <3>2 DEF ClientBounds
  <2>2. CASE job[c].call # "usage"
    BY <2>2 DEF Clients!Serve, ClientBounds
  <2>. QED  BY <2>1, <2>2
<1>. QED  BY <1>1, <1>6, <1>7 DEF ClientBounds

LEMMA InstallBounds ==
  ASSUME ClientInv, ClientBounds, NEW c \in Command, NEW report \in BOOLEAN, Clients!installPack(c, report)
  PROVE  ClientBounds'
<1>. DEFINE p == job[c].pack
            content_ == job[c].answer.release.integrity
<1>1. job[c].at = "answered" /\ job[c] \in CallJob /\ p \in Pack /\ ids \in Nat
  <2>1. job[c].at = "answered" /\ job[c] \in Jobs /\ ids \in Nat
    BY DEF Clients!installPack, ClientInv, ClientTyped
  <2>. QED  BY <2>1, JobShape DEF CallJob
<1>2. UNCHANGED <<registry, events, file, created>>
  BY DEF Clients!installPack
<1>3. NoneAnswered
  <2>. DEFINE j == [Clients!Sent(c, "usage") EXCEPT !.id = ids + 1]
  <2>1. j.at = "sent"
    BY <1>1 DEF Clients!Sent, CallJob
  <2>2. job' = [job EXCEPT ![c] = j] \/ \E result : Clients!Quit(c, result)
    BY DEF Clients!installPack
  <2>. HIDE DEF j
  <2>. QED  BY <2>1, <2>2, Unanswered, QuitsUnanswered DEF ClientInv
<1>4. lock' = lock \/ (job[c].answer.ok /\ lock' = [lock EXCEPT ![p] = content_])
  BY DEF Clients!installPack
<1>5. ids' = ids \/ (ids < MaxEvents /\ ids' = ids + 1)
  BY DEF Clients!installPack, Clients!Quit
<1>6. ids' <= MaxEvents
  BY <1>1, <1>5, WorkloadAssumption DEF ClientBounds
<1>7. job[c].answer.ok => content_ <= MaxIntegrity
  BY <1>1 DEF ClientBounds
<1>. HIDE DEF p, content_
<1>8. \A q \in Pack : lock'[q] <= MaxIntegrity
  BY <1>1, <1>4, <1>7 DEF ClientBounds, ClientInv, ClientTyped
<1>. QED  BY <1>2, <1>3, <1>6, <1>8 DEF ClientBounds, NoneAnswered

LEMMA FileBounds ==
  ASSUME ClientInv, ClientBounds, NEW c \in Command,
         \/ Clients!OpenFile(c) \/ Clients!WriteFile(c)
         \/ Clients!WriteFails(c) \/ Clients!RemoveFile(c)
  PROVE  ClientBounds'
<1>1. UNCHANGED <<registry, events, lock, ids>>
  BY DEF Clients!OpenFile, Clients!WriteFile, Clients!WriteFails, Clients!RemoveFile
<1>2. created \in Nat /\ file \in [ino : Nat, content : {"none", "torn", "whole"}]
  BY DEF ClientInv, ClientTyped
<1>3. created' <= MaxFiles
  BY <1>2, WorkloadAssumption DEF Clients!OpenFile, Clients!WriteFile, Clients!WriteFails, Clients!RemoveFile, ClientBounds
<1>4. file'.content = "none" => file' = Clients!NoFile
  BY <1>2 DEF Clients!OpenFile, Clients!WriteFile, Clients!WriteFails, Clients!RemoveFile, ClientBounds
<1>5. NoneAnswered
  <2>1. CASE \E result : Clients!Quit(c, result)
    BY <2>1, QuitsUnanswered DEF ClientInv
  <2>2. CASE job[c].at = "open" /\ job' = [job EXCEPT ![c].at = "write", ![c].ino = created + 1]
    <3>. DEFINE j == [job[c] EXCEPT !.at = "write", !.ino = created + 1]
    <3>1. job' = [job EXCEPT ![c] = j] /\ job[c] \in ExportJob
      BY <2>2, JobShape DEF ClientInv, ClientTyped
    <3>2. j.at = "write"
      BY <3>1 DEF ExportJob
    <3>. HIDE DEF j
    <3>. QED  BY <3>1, <3>2, Unanswered DEF ClientInv
  <2>3. CASE job[c].at = "write" /\ job' = [job EXCEPT ![c].at = "remove"]
    <3>. DEFINE j == [job[c] EXCEPT !.at = "remove"]
    <3>1. job' = [job EXCEPT ![c] = j] /\ job[c] \in ExportJob
      BY <2>3, JobShape DEF ClientInv, ClientTyped
    <3>2. j.at = "remove"
      BY <3>1 DEF ExportJob
    <3>. HIDE DEF j
    <3>. QED  BY <3>1, <3>2, Unanswered DEF ClientInv
  <2>. QED  BY <2>1, <2>2, <2>3 DEF Clients!OpenFile, Clients!WriteFile, Clients!WriteFails, Clients!RemoveFile
<1>. QED  BY <1>1, <1>3, <1>4, <1>5 DEF ClientBounds, NoneAnswered

\* A command that begins: an event is named, or nothing is.
LEMMA BeginBounds ==
  ASSUME ClientInv, ClientBounds, NEW c \in Command,
         \/ \E p \in Pack : Clients!downloadArtifact(c, p) \/ Clients!reportUsage(c, p)
         \/ Clients!revalidateInstalledPacks(c) \/ Clients!Export(c)
  PROVE  ClientBounds'
<1>1. UNCHANGED <<registry, events, lock, file, created>>
  BY DEF Clients!downloadArtifact, Clients!reportUsage, Clients!revalidateInstalledPacks, Clients!Export
<1>2. ids' <= MaxEvents
  <2>1. ids \in Nat /\ (ids' = ids \/ (ids < MaxEvents /\ ids' = ids + 1))
    BY DEF ClientInv, ClientTyped, Clients!downloadArtifact, Clients!reportUsage,
       Clients!revalidateInstalledPacks, Clients!Export
  <2>. QED  BY <2>1, WorkloadAssumption DEF ClientBounds
<1>3. PICK j : j.at # "answered" /\ Clients!Begin(c, j)
  <2>1. ASSUME NEW p \in Pack, Clients!downloadArtifact(c, p)
        PROVE  \E j : j.at # "answered" /\ Clients!Begin(c, j)
    <3>. WITNESS Clients!Job("install", p, "artifact")
    <3>. QED  BY <2>1 DEF Clients!downloadArtifact, Clients!Job
  <2>2. ASSUME NEW p \in Pack, Clients!reportUsage(c, p)
        PROVE  \E j : j.at # "answered" /\ Clients!Begin(c, j)
    <3>. WITNESS [Clients!Job("report", p, "usage") EXCEPT !.id = ids + 1]
    <3>. QED  BY <2>2 DEF Clients!reportUsage, Clients!Job
  <2>3. ASSUME Clients!revalidateInstalledPacks(c)
        PROVE  \E j : j.at # "answered" /\ Clients!Begin(c, j)
    <3>1. PICK p \in Clients!Locked :
            Clients!Begin(c, [Clients!Job("revalidate", p, "release") EXCEPT !.todo = Clients!Locked \ {p}])
      BY <2>3 DEF Clients!revalidateInstalledPacks
    <3>. WITNESS [Clients!Job("revalidate", p, "release") EXCEPT !.todo = Clients!Locked \ {p}]
    <3>. QED  BY <3>1 DEF Clients!Job
  <2>4. ASSUME Clients!Export(c)
        PROVE  \E j : j.at # "answered" /\ Clients!Begin(c, j)
    BY <2>4 DEF Clients!Export
  <2>. QED  BY <2>1, <2>2, <2>3, <2>4
<1>4. NoneAnswered
  BY <1>3, BeginsUnanswered DEF ClientInv
<1>. QED  BY <1>1, <1>2, <1>4 DEF ClientBounds, NoneAnswered

\* A request that fails or is tried again, a revalidation that goes on, a command
\* that is through or dies.
LEMMA MoveBounds ==
  ASSUME ClientInv, ClientBounds, NEW c \in Command,
         \/ Clients!NetworkError(c) \/ Clients!RetryReport(c) \/ Clients!Reported(c)
         \/ Clients!Revalidated(c) \/ Clients!Die(c)
  PROVE  ClientBounds'
<1>1. UNCHANGED <<registry, events, lock, file, created, ids>>
  BY DEF Clients!NetworkError, Clients!RetryReport, Clients!Reported, Clients!Revalidated, Clients!Die
<1>2. job[c] \in Jobs /\ (job[c].at \in {"sent", "answered", "failed"} => job[c] \in CallJob)
  BY JobShape DEF ClientInv, ClientTyped
<1>3. NoneAnswered
  <2>1. CASE \E result : Clients!Quit(c, result)
    BY <2>1, QuitsUnanswered DEF ClientInv
  <2>2. ASSUME NEW j, j.at # "answered", job' = [job EXCEPT ![c] = j]
        PROVE  NoneAnswered
    BY <2>2, Unanswered DEF ClientInv
  <2>3. CASE Clients!NetworkError(c)
    <3>1. CASE job' = [job EXCEPT ![c].at = "failed"] /\ job[c] \in CallJob
      <4>. DEFINE j == [job[c] EXCEPT !.at = "failed"]
      <4>1. job' = [job EXCEPT ![c] = j] /\ j.at = "failed"
        BY <3>1 DEF ClientInv, ClientTyped, CallJob
      <4>. HIDE DEF j
      <4>. QED  BY <4>1, <2>2
    <3>. QED  BY <1>2, <2>1, <2>3, <3>1 DEF Clients!NetworkError
  <2>4. CASE Clients!RetryReport(c)
    <3>1. job[c] \in CallJob
      BY <1>2, <2>4 DEF Clients!RetryReport
    <3>2. Clients!Sent(c, "usage").at = "sent"
      BY <3>1 DEF Clients!Sent, CallJob
    <3>. QED  BY <2>1, <2>2, <2>4, <3>2 DEF Clients!RetryReport
  <2>5. CASE Clients!Reported(c)
    BY <2>1, <2>5 DEF Clients!Reported
  <2>6. CASE Clients!Revalidated(c)
    <3>1. job[c] \in CallJob
      BY <1>2, <2>6 DEF Clients!Revalidated
    <3>. DEFINE result == [job[c] EXCEPT
                  !.current = IF job[c].answer.release.status = "published" THEN @ \cup {job[c].pack} ELSE @,
                  !.yanked = IF job[c].answer.release.status = "yanked" THEN @ \cup {job[c].pack} ELSE @]
                next(q) == [result EXCEPT !.pack = q, !.todo = @ \ {q}, !.at = "sent",
                                          !.answer = Clients!Failed]
    <3>2. (\E r : Clients!Quit(c, r)) \/ (\E q \in result.todo : job' = [job EXCEPT ![c] = next(q)])
      BY <2>6 DEF Clients!Revalidated
    <3>3. ASSUME NEW q
          PROVE  next(q).at = "sent"
      BY <3>1 DEF CallJob
    <3>. HIDE DEF next
    <3>. QED  BY <2>1, <2>2, <3>2, <3>3
  <2>7. CASE Clients!Die(c)
    BY <2>2, <2>7 DEF Clients!Die, Clients!NoJob
  <2>. QED  BY <2>3, <2>4, <2>5, <2>6, <2>7
<1>. QED  BY <1>1, <1>3, ClientBoundsStay

LEMMA ClientBoundsNext ==
  ASSUME ClientInv, ClientBounds, Clients!Next
  PROVE  ClientBounds'
<1>1. used.packs \subseteq Pack /\ used.commands \subseteq Command
  BY DEF ClientInv, ClientTyped
<1>2. ASSUME NEW c \in used.commands, Clients!Step(c)
      PROVE  ClientBounds'
  BY <1>1, <1>2, ServeBounds, InstallBounds, FileBounds, BeginBounds, MoveBounds DEF Clients!Step
<1>3. ASSUME NEW p \in used.packs, NEW status \in Clients!Status, NEW integrity \in 1 .. MaxIntegrity,
             Clients!Registry(p, status, integrity)
      PROVE  ClientBounds'
  <2>1. /\ registry' = [registry EXCEPT ![p] = [status |-> status, integrity |-> integrity]]
        /\ UNCHANGED <<events, lock, file, created, ids, job>>
    BY <1>3 DEF Clients!Registry, Clients!client
  <2>2. \A q \in Pack : registry'[q].integrity \in 1 .. MaxIntegrity
    BY <1>1, <1>3, <2>1 DEF ClientBounds, ClientInv, ClientTyped
  <2>. QED  BY <2>1, <2>2 DEF ClientBounds
<1>4. ASSUME NEW p \in Pack, Clients!Uninstall(p)
      PROVE  ClientBounds'
  <2>1. lock' = [lock EXCEPT ![p] = 0] /\ UNCHANGED <<registry, events, file, created, ids, job>>
    BY <1>4 DEF Clients!Uninstall
  <2>2. \A q \in Pack : lock'[q] <= MaxIntegrity
    BY <2>1, WorkloadAssumption DEF ClientBounds, ClientInv, ClientTyped
  <2>. QED  BY <2>1, <2>2 DEF ClientBounds
<1>5. ASSUME Clients!TakeFile
      PROVE  ClientBounds'
  BY <1>5 DEF Clients!TakeFile, ClientBounds
<1>. QED  BY <1>2, <1>3, <1>4, <1>5 DEF Clients!Next

LEMMA ClientTypes ==
  ASSUME ClientInv, ClientBounds
  PROVE  Clients!ClientTypeOK
<1>1. ClientTyped /\ IdsSound /\ FileSound
  BY DEF ClientInv
<1>2. registry \in [Pack -> [status : Clients!Status, integrity : 1 .. MaxIntegrity]]
  <2>. SUFFICES ASSUME NEW p \in Pack
                PROVE  registry[p] \in [status : Clients!Status, integrity : 1 .. MaxIntegrity]
    BY <1>1 DEF ClientTyped
  <2>. QED  BY <1>1 DEF ClientTyped, ClientBounds, Offer
<1>3. events \subseteq [id : 1 .. MaxEvents, pack : Pack]
  <2>. SUFFICES ASSUME NEW e \in events
                PROVE  e \in [id : 1 .. MaxEvents, pack : Pack]
    OBVIOUS
  <2>. QED  BY <1>1, WorkloadAssumption DEF ClientTyped, IdsSound, ClientBounds
<1>4. lock \in [Pack -> 0 .. MaxIntegrity]
  BY <1>1, WorkloadAssumption DEF ClientTyped, ClientBounds
<1>5. file \in [ino : 1 .. MaxFiles, content : {"torn", "whole"}] \cup {Clients!NoFile}
  BY <1>1, WorkloadAssumption DEF ClientTyped, FileSound, ClientBounds
<1>6. \A c \in Command : job[c].op \in {"none", "install", "report", "revalidate", "export"}
  BY <1>1 DEF ClientTyped, Jobs, CallJob, ExportJob, DoneJob, Clients!NoJob
<1>. QED  BY <1>2, <1>3, <1>4, <1>5, <1>6 DEF Clients!ClientTypeOK

-----------------------------------------------------------------------------
(* The other components have no bounds beside their types.                   *)

LEMMA LoreTypes == LoreInv => Lore!LoreTypeOK
<1>. SUFFICES ASSUME LoreInv
              PROVE  Lore!LoreTypeOK
  OBVIOUS
<1>1. \A i \in DOMAIN ledger : ledger[i].part \in {"all", "head", "tail"}
  <2>. DEFINE Piece == [line : Line, part : {"all", "head", "tail"}]
  <2>1. ledger \in Seq(Piece) /\ \A w \in Piece : w.part \in {"all", "head", "tail"}
    BY DEF LoreInv, LoreTyped
  <2>. HIDE DEF Piece
  <2>2. \A i \in DOMAIN ledger : ledger[i] \in Piece
    BY <2>1
  <2>. QED  BY <2>1, <2>2
<1>2. review \subseteq Lore!Content
  BY DEF LoreInv, LoreTyped, Lore!ReviewOfOneTime
<1>. QED  BY <1>1, <1>2 DEF LoreInv, LoreTyped, Lore!LoreTypeOK

LEMMA OperatorTypes ==
  ASSUME OperatorInv
  PROVE  Operators!MaintenanceTypeOK
<1>1. /\ history \in Seq(Migration) /\ locker \in Operator \cup {"none"} /\ op \in [Operator -> Runs]
      /\ releases \in SUBSET Release /\ discovery \in SUBSET releases
  BY DEF OperatorInv, OperatorTyped
<1>2. Operators!ToSet(history) \subseteq Migration
  BY <1>1 DEF Operators!ToSet
<1>3. \A o \in Operator : op[o].at \in {"idle", "lock", "history", "next", "insert", "privileges",
                                     "unlock", "select", "row", "done"}
  BY <1>1 DEF Runs, Migrating, Reindexing, Holding, Operators!Idle
<1>. QED  BY <1>1, <1>2, <1>3 DEF Operators!MaintenanceTypeOK, Migration

LEMMA WalkTypes ==
  ASSUME WalkInv
  PROVE  PagingTypeOK
BY DEF WalkInv, WalkTyped, Showing, PagingTypeOK

LEMMA TabTypes == TabInv => Tab!ConsoleTypeOK
<1>. SUFFICES ASSUME TabTyped
              PROVE  Tab!ConsoleTypeOK
  BY DEF TabInv
<1>1. DOMAIN shown = Tab!Public \cup Tab!Protected
  BY DEF TabTyped, Kind
<1>2. \A k \in DOMAIN shown : shown[k] \in ListState
  BY DEF TabTyped
<1>. QED  BY <1>1, <1>2 DEF TabTyped, ListState, Tab!ConsoleTypeOK

-----------------------------------------------------------------------------
(* The types of all the components.                                          *)

\* MCEdge: for any values of the constants, the variables of each component that runs
\* beside the registry have their types and stay in their bounds: no cookie names a
\* session that was not opened, neither store of the sign-in nor the limiter's table
\* holds more than it has room for, the limiter knows a client once, a review is of a
\* lesson that there can be, and discovery lists only releases that there are.
THEOREM EdgeTypesHold == EdgeSpec => []TypeOK
<1>. DEFINE Holds ==
       /\ part \in Part
       /\ part = "browsers" => BrowserInv /\ BrowserBounds
       /\ part = "limiter" => LimiterInv /\ LimiterBounds
       /\ part = "pages" => WalkInv
       /\ part = "clients" => ClientInv /\ ClientBounds
       /\ part = "lore" => LoreInv
       /\ part = "operators" => OperatorInv
       /\ part = "tab" => TabInv
<1>1. EdgeInit => Holds
  BY BrowserInit, BrowserBoundsInit, LimiterInit, LimiterBoundsInit, WalkInit, ClientInit, ClientBoundsInit,
     LoreInit, OperatorInit, TabInit DEF EdgeInit
<1>2. /\ Holds
      /\ [EdgeNext]_<<part, browserVars, limiterVars, pageVars, clientVars, loreVars, operatorVars, tabVars>>
      => Holds'
  <2>. SUFFICES ASSUME Holds,
           [EdgeNext]_<<part, browserVars, limiterVars, pageVars, clientVars, loreVars, operatorVars, tabVars>>
                PROVE  Holds'
    OBVIOUS
  <2>1. part' = part
    BY DEF EdgeNext
  <2>2. CASE part = "browsers"
    BY <2>1, <2>2, BrowserNext, BrowserStutter, BrowserBoundsNext, BrowserBoundsStutter DEF EdgeNext
  <2>3. CASE part = "limiter"
    BY <2>1, <2>3, LimiterNext, LimiterStutter, LimiterBoundsNext, LimiterBoundsStutter DEF EdgeNext
  <2>4. CASE part = "pages"
    BY <2>1, <2>4, WalkNext, WalkStutter DEF EdgeNext, pageVars
  <2>5. CASE part = "clients"
    BY <2>1, <2>5, ClientNext, ClientStutter, ClientBoundsNext, ClientBoundsStutter DEF EdgeNext
  <2>6. CASE part = "lore"
    BY <2>1, <2>6, LoreNext, LoreStutter DEF EdgeNext
  <2>7. CASE part = "operators"
    BY <2>1, <2>7, OperatorNext, OperatorStutter DEF EdgeNext
  <2>8. CASE part = "tab"
    BY <2>1, <2>8, TabNext, TabStutter DEF EdgeNext
  <2>. QED  BY <2>2, <2>3, <2>4, <2>5, <2>6, <2>7, <2>8 DEF Part
<1>3. Holds => TypeOK
  BY BrowserTypes, LimiterTypes, WalkTypes, ClientTypes, LoreTypes, OperatorTypes, TabTypes DEF Part, TypeOK
<1>. QED  BY <1>1, <1>2, <1>3, PTL DEF EdgeSpec

=============================================================================
