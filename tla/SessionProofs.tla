--------------------------- MODULE SessionProofs ---------------------------
(***************************************************************************)
(* For any number of users, tokens, links and concurrent requests: the     *)
(* types of Sessions, and its four safety properties.                      *)
(***************************************************************************)
EXTENDS Sessions, TLAPS

\* What a request carries from one statement to the next was found.
Found(q) ==
  /\ q.pc = "revoking" => q.grant.from \in Tokens /\ session[q.grant.from] # Absent
  /\ q.pc \in {"resetting", "verifying"} => link[q.link] # Absent

Typed == TypeOK /\ \A r \in Requests : Found(req[r])

\* Sessions are never deleted nor rewritten, but for being revoked for good.
SessionsKept ==
  \A s \in Tokens : session[s] # Absent =>
    /\ session'[s] # Absent
    /\ session'[s].live => session[s].live
    /\ session'[s].user = session[s].user /\ session'[s].role = session[s].role
    /\ session'[s].change = session[s].change
    /\ session'[s].proved = session[s].proved /\ session'[s].clean = session[s].clean
    /\ session'[s].from = session[s].from /\ session'[s].alone = session[s].alone

\* Links are never deleted nor rewritten, but for being used up for good.
LinksKept ==
  \A l \in Links : link[l] # Absent =>
    /\ link'[l] # Absent
    /\ link'[l].usable => link[l].usable
    /\ link'[l].user = link[l].user /\ link'[l].type = link[l].type
    /\ link'[l].alone = link[l].alone

-----------------------------------------------------------------------------
\* What a request carries, by its program counter.
LEMMA RequestFields ==
  ASSUME NEW q \in Request
  PROVE  /\ q.pc \in {"registering", "welcoming"} => q.user \in Users
         /\ q.pc \in {"revoking", "granting"} =>
              q \in [pc: {"revoking", "granting"}, grant: Grant]
         /\ q.pc = "linking" => q.user \in Users /\ q.alone \in BOOLEAN
         /\ q.pc \in {"resetting", "verifying"} => q.link \in Links
<1>1. CASE q = Idle
  BY <1>1 DEF Idle
<1>2. CASE q \in [pc: {"registering", "welcoming"}, user: Users]
  BY <1>2
<1>3. CASE q \in [pc: {"revoking", "granting"}, grant: Grant]
  BY <1>3
<1>4. CASE q \in [pc: {"linking"}, user: Users, alone: BOOLEAN]
  BY <1>4
<1>5. CASE q \in [pc: {"resetting", "verifying"}, link: Links]
  BY <1>5
<1> QED BY <1>1, <1>2, <1>3, <1>4, <1>5 DEF Request

\* A row is there if and only if it has a user.
LEMMA RowsReal ==
  ASSUME TypeOK
  PROVE  /\ \A s \in Tokens : session[s] # Absent <=> session[s].user \in Users
         /\ \A l \in Links : link[l] # Absent <=> link[l].user \in Users
         /\ \A s \in Tokens : session[s] # Absent => session[s] \in Session
         /\ \A l \in Links : link[l] # Absent => link[l] \in Link
  BY SessionsAssumption DEF TypeOK, Session, Link, Absent

\* What generateTokens begins with has the type of a grant.
LEMMA GrantMade ==
  ASSUME TypeOK, NEW u \in Users, NEW roleRead \in Roles, NEW proved \in Nat,
         NEW from \in Tokens \cup {"LOGIN"}, NEW clean \in BOOLEAN, NEW alone \in BOOLEAN
  PROVE  Granted(u, roleRead, from, proved, clean, alone) \in Grant
  BY SessionsAssumption DEF TypeOK, Granted, Grant

\* The rows that a batch or a revocation writes.
LEMMA RevokedRows ==
  ASSUME TypeOK
  PROVE  /\ \A s \in Tokens, b \in BOOLEAN : session[s] # Absent =>
              [session EXCEPT ![s].live = b] \in [Tokens -> Session \cup {Absent}]
         /\ \A l \in Links, b \in BOOLEAN : link[l] # Absent =>
              [link EXCEPT ![l].usable = b] \in [Links -> Link \cup {Absent}]
         /\ \A u \in Users : Ended(u) \in [Tokens -> Session \cup {Absent}]
         /\ \A u \in Users : Invalidated(u) \in [Links -> Link \cup {Absent}]
<1>1. ASSUME NEW s \in Tokens, session[s] # Absent, NEW b \in BOOLEAN
      PROVE  [session[s] EXCEPT !.live = b] \in Session
  BY <1>1, RowsReal DEF Session
<1>2. ASSUME NEW l \in Links, link[l] # Absent, NEW b \in BOOLEAN
      PROVE  [link[l] EXCEPT !.usable = b] \in Link
  BY <1>2, RowsReal DEF Link
<1>3. ASSUME NEW u \in Users PROVE Ended(u) \in [Tokens -> Session \cup {Absent}]
  BY <1>1, RowsReal DEF Ended, SessionsOf, TypeOK
<1>4. ASSUME NEW u \in Users PROVE Invalidated(u) \in [Links -> Link \cup {Absent}]
  BY <1>2, RowsReal DEF Invalidated, LinksOf, TypeOK
<1>5. ASSUME NEW s \in Tokens, session[s] # Absent, NEW b \in BOOLEAN
      PROVE  [session EXCEPT ![s].live = b] \in [Tokens -> Session \cup {Absent}]
  BY <1>1, <1>5 DEF TypeOK
<1>6. ASSUME NEW l \in Links, link[l] # Absent, NEW b \in BOOLEAN
      PROVE  [link EXCEPT ![l].usable = b] \in [Links -> Link \cup {Absent}]
  BY <1>2, <1>6 DEF TypeOK
<1> QED BY <1>3, <1>4, <1>5, <1>6

LEMMA TypedInit == Init => Typed
  BY SessionsAssumption DEF Init, Typed, TypeOK, Found, Request, Idle, Roles

\* The types hold after every step.
LEMMA TypesKept == Typed /\ [Next]_vars => TypeOK'
<1> SUFFICES ASSUME Typed, [Next]_vars PROVE TypeOK'
  OBVIOUS
<1>0. TypeOK
  BY DEF Typed
<1> USE SessionsAssumption DEF accounts
<1>a. ASSUME NEW r \in Requests, NEW q \in Request, Goto(r, q)
      PROVE  req' \in [Requests -> Request]
  BY <1>0, <1>a DEF Goto, TypeOK
<1>b. Idle \in Request
  BY DEF Request
<1>c. ASSUME NEW g \in Grant, NEW pc \in {"revoking", "granting"}
      PROVE  [pc |-> pc, grant |-> g] \in Request
  BY DEF Request
<1>1. ASSUME NEW r \in Requests, NEW u \in Users, BeginRegister(r, u) PROVE TypeOK'
  <2>1. [pc |-> "registering", user |-> u] \in Request
    BY DEF Request
  <2> QED BY <1>0, <1>1, <1>a, <2>1 DEF BeginRegister, TypeOK
<1>2. ASSUME NEW r \in Requests, NEW u \in Users, CheckLogin(r, u) PROVE TypeOK'
  <2>0. role[u] \in Roles /\ password[u] \in Nat
    BY <1>0 DEF TypeOK
  <2>1. Granted(u, role[u], "LOGIN", password[u], TRUE, TRUE) \in Grant
    BY <1>0, <2>0, GrantMade
  <2>2. req' \in [Requests -> Request]
    BY <1>2, <1>a, <1>c, <2>1 DEF CheckLogin
  <2> QED BY <1>0, <1>2, <2>2 DEF CheckLogin, TypeOK
<1>3. ASSUME NEW r \in Requests, NEW u \in Users, Forget(r, u) PROVE TypeOK'
  <2>1. \A b \in BOOLEAN : [pc |-> "linking", user |-> u, alone |-> b] \in Request
    BY DEF Request
  <2>2. req' \in [Requests -> Request]
    BY <1>3, <1>a, <2>1 DEF Forget
  <2> QED BY <1>0, <1>3, <2>2, RevokedRows DEF Forget, TypeOK
<1>4. ASSUME NEW r \in Requests, NEW s \in Tokens, InsertSession(r, s) PROVE TypeOK'
  <2>1. req[r].grant \in Grant
    BY <1>0, <1>4, RequestFields DEF InsertSession, TypeOK
  <2>2. session' \in [Tokens -> Session \cup {Absent}]
    BY <1>0, <1>4, <2>1 DEF InsertSession, Grant, Session, TypeOK
  <2> QED BY <1>0, <1>4, <1>a, <1>b, <2>2 DEF InsertSession, TypeOK
<1>5. ASSUME NEW r \in Requests, NEW s \in Tokens, CheckRefresh(r, s) PROVE TypeOK'
  <2>1. session[s] \in Session
    BY <1>0, <1>5, RowsReal DEF CheckRefresh
  <2>2. \A b \in BOOLEAN :
          Granted(session[s].user, RefreshedRole(s), s, session[s].proved,
                  session[s].clean, b) \in Grant
    BY <1>0, <2>1, GrantMade DEF Session, RefreshedRole, TypeOK
  <2>3. req' \in [Requests -> Request]
    BY <1>5, <1>a, <1>c, <2>2 DEF CheckRefresh
  <2> QED BY <1>0, <1>5, <2>3 DEF CheckRefresh, TypeOK
<1>6. ASSUME NEW r \in Requests, NEW l \in Links, InsertWelcome(r, l) PROVE TypeOK'
  <2>1. req[r].user \in Users
    BY <1>0, <1>6, RequestFields DEF InsertWelcome, TypeOK
  <2>2. PICK u \in Users : u = req[r].user
    BY <2>1
  <2>3. Granted(u, "OWNER", "LOGIN", 1, password[u] = 1, TRUE) \in Grant
    BY <1>0, GrantMade DEF Roles
  <2>4. [Granted(u, "OWNER", "LOGIN", 1, password[u] = 1, TRUE) EXCEPT !.change = 0] \in Grant
    BY <2>3 DEF Grant
  <2>5. req' \in [Requests -> Request]
    BY <1>6, <1>a, <1>c, <2>2, <2>4 DEF InsertWelcome
  <2>6. link' \in [Links -> Link \cup {Absent}]
    BY <1>0, <1>6, <2>1 DEF InsertWelcome, Link, TypeOK
  <2> QED BY <1>0, <1>6, <2>5, <2>6 DEF InsertWelcome, TypeOK
<1>7. ASSUME NEW r \in Requests, NEW l \in Links, InsertLink(r, l) PROVE TypeOK'
  <2>1. req[r].user \in Users /\ req[r].alone \in BOOLEAN
    BY <1>0, <1>7, RequestFields DEF InsertLink, TypeOK
  <2>2. link' \in [Links -> Link \cup {Absent}]
    BY <1>0, <1>7, <2>1 DEF InsertLink, Link, TypeOK
  <2> QED BY <1>0, <1>7, <1>a, <1>b, <2>2 DEF InsertLink, TypeOK
<1>8. ASSUME NEW r \in Requests, NEW l \in Links, CheckLink(r, l) PROVE TypeOK'
  <2>1. \A pc \in {"resetting", "verifying"} : [pc |-> pc, link |-> l] \in Request
    BY DEF Request
  <2>2. req' \in [Requests -> Request]
    BY <1>8, <1>a, <2>1 DEF CheckLink
  <2> QED BY <1>0, <1>8, <2>2 DEF CheckLink, TypeOK
<1>9. ASSUME NEW r \in Requests, InsertUser(r) PROVE TypeOK'
  <2>1. req[r].user \in Users
    BY <1>0, <1>9, RequestFields DEF InsertUser, TypeOK
  <2>2. [pc |-> "welcoming", user |-> req[r].user] \in Request
    BY <2>1 DEF Request
  <2>3. req' \in [Requests -> Request]
    BY <1>9, <1>a, <1>b, <2>2 DEF InsertUser
  <2>4. password' \in [Users -> 0..MaxVersion]
    BY <1>0, <1>9 DEF InsertUser, TypeOK
  <2> QED BY <1>0, <1>9, <2>3, <2>4 DEF InsertUser, TypeOK
<1>10. ASSUME NEW r \in Requests, RevokeOld(r) PROVE TypeOK'
  <2>1. req[r] \in [pc: {"revoking", "granting"}, grant: Grant]
    BY <1>0, <1>10, RequestFields DEF RevokeOld, TypeOK
  <2>2. [req[r] EXCEPT !.pc = "granting"] \in Request
    BY <2>1 DEF Request
  <2>3. req[r].grant.from \in Tokens /\ session[req[r].grant.from] # Absent
    BY <1>10 DEF RevokeOld, Typed, Found
  <2>4. session' \in [Tokens -> Session \cup {Absent}]
    BY <1>0, <1>10, <2>3, RevokedRows DEF RevokeOld, Rotated
  <2> QED BY <1>0, <1>10, <1>a, <2>2, <2>4 DEF RevokeOld, TypeOK
<1>11. ASSUME NEW r \in Requests, CommitReset(r) PROVE TypeOK'
  <2>1. PICK l \in Links : l = req[r].link
    BY <1>0, <1>11, RequestFields DEF CommitReset, TypeOK
  <2>2. link[l] # Absent /\ link[l].user \in Users
    BY <1>0, <1>11, <2>1, RowsReal DEF CommitReset, Typed, Found
  <2>3. password' \in [Users -> 0..MaxVersion]
    BY <1>0, <1>11, <2>1, <2>2 DEF CommitReset, TypeOK
  <2> QED BY <1>0, <1>11, <1>a, <1>b, <2>1, <2>2, <2>3, RevokedRows DEF CommitReset, TypeOK
<1>12. ASSUME NEW r \in Requests, CommitVerify(r) PROVE TypeOK'
  <2>1. PICK l \in Links : l = req[r].link
    BY <1>0, <1>12, RequestFields DEF CommitVerify, TypeOK
  <2>2. link[l] # Absent
    BY <1>12, <2>1 DEF CommitVerify, Typed, Found
  <2> QED BY <1>0, <1>12, <1>a, <1>b, <2>1, <2>2, RevokedRows DEF CommitVerify, TypeOK
<1>13. ASSUME NEW r \in Requests, Lose(r) PROVE TypeOK'
  BY <1>0, <1>13, <1>a, <1>b DEF Lose, TypeOK
<1>14. ASSUME NEW a \in Tokens, NEW s \in Tokens, Logout(a, s) PROVE TypeOK'
  <2>1. session[s] # Absent
    BY <1>0, <1>14, RowsReal DEF Logout, SessionsOf
  <2> QED BY <1>0, <1>14, <2>1, RevokedRows DEF Logout, TypeOK
<1>15. ASSUME NEW a \in Tokens, NEW u \in Users, NEW new \in NewRoles, ChangeRole(a, u, new)
       PROVE  TypeOK'
  BY <1>0, <1>15 DEF ChangeRole, TypeOK
<1>16. CASE UNCHANGED vars
  BY <1>0, <1>16 DEF vars, TypeOK
<1> QED BY <1>1, <1>2, <1>3, <1>4, <1>5, <1>6, <1>7, <1>8, <1>9, <1>10, <1>11, <1>12,
           <1>13, <1>14, <1>15, <1>16 DEF Next

\* Every step keeps the rows of the sessions and of the links.
LEMMA RowsKept == Typed /\ [Next]_vars => SessionsKept /\ LinksKept
<1> SUFFICES ASSUME Typed, [Next]_vars PROVE SessionsKept /\ LinksKept
  OBVIOUS
<1>0. TypeOK
  BY DEF Typed
<1>a. ASSUME UNCHANGED session PROVE SessionsKept
  BY <1>a DEF SessionsKept
<1>b. ASSUME UNCHANGED link PROVE LinksKept
  BY <1>b DEF LinksKept
<1>c. ASSUME NEW s \in Tokens, session[s] # Absent,
             session' = [session EXCEPT ![s].live = FALSE]
      PROVE  SessionsKept
  <2>1. session'[s] = [session[s] EXCEPT !.live = FALSE] /\ session[s] \in Session
    BY <1>0, <1>c, RowsReal DEF TypeOK
  <2>2. session'[s] \in Session /\ \A t \in Tokens \ {s} : session'[t] = session[t]
    BY <1>0, <1>c, <2>1 DEF TypeOK, Session
  <2>3. session'[s] # Absent
    BY <2>2, SessionsAssumption DEF Session, Absent
  <2> QED BY <2>1, <2>2, <2>3 DEF SessionsKept, Session
<1>d. ASSUME NEW l \in Links, link[l] # Absent,
             link' = [link EXCEPT ![l].usable = FALSE]
      PROVE  LinksKept
  <2>1. link'[l] = [link[l] EXCEPT !.usable = FALSE] /\ link[l] \in Link
    BY <1>0, <1>d, RowsReal DEF TypeOK
  <2>2. link'[l] \in Link /\ \A t \in Links \ {l} : link'[t] = link[t]
    BY <1>0, <1>d, <2>1 DEF TypeOK, Link
  <2>3. link'[l] # Absent
    BY <2>2, SessionsAssumption DEF Link, Absent
  <2> QED BY <2>1, <2>2, <2>3 DEF LinksKept, Link
<1>e. ASSUME NEW l \in Links, link[l] = Absent, NEW row, link' = [link EXCEPT ![l] = row]
      PROVE  LinksKept
  BY <1>0, <1>e DEF TypeOK, LinksKept
<1>f. ASSUME NEW u \in Users, session' = Ended(u) PROVE SessionsKept
  <2> SUFFICES ASSUME NEW s \in Tokens, session[s] # Absent
               PROVE  /\ session'[s] \in Session
                      /\ \/ session'[s] = session[s]
                         \/ session'[s] = [session[s] EXCEPT !.live = FALSE]
    <3> SUFFICES ASSUME \A s \in Tokens : session[s] # Absent =>
                          /\ session'[s] \in Session
                          /\ \/ session'[s] = session[s]
                             \/ session'[s] = [session[s] EXCEPT !.live = FALSE],
                        NEW s \in Tokens, session[s] # Absent
                 PROVE  /\ session'[s] # Absent
                        /\ session'[s].live => session[s].live
                        /\ session'[s].user = session[s].user
                        /\ session'[s].role = session[s].role
                        /\ session'[s].change = session[s].change
                        /\ session'[s].proved = session[s].proved
                        /\ session'[s].clean = session[s].clean
                        /\ session'[s].from = session[s].from
                        /\ session'[s].alone = session[s].alone
      BY DEF SessionsKept
    <3>1. session'[s] \in Session /\ session[s] \in Session
      BY <1>0, RowsReal
    <3>2. session'[s] # Absent
      BY <3>1, SessionsAssumption DEF Session, Absent
    <3>3. CASE session'[s] = session[s]
      BY <3>2, <3>3
    <3>4. CASE session'[s] = [session[s] EXCEPT !.live = FALSE]
      BY <3>1, <3>2, <3>4 DEF Session
    <3> QED BY <3>3, <3>4
  <2>1. session[s] \in Session
    BY <1>0, RowsReal
  <2>2. \/ session'[s] = session[s]
        \/ session'[s] = [session[s] EXCEPT !.live = FALSE]
    BY <1>f DEF Ended
  <2> QED BY <2>1, <2>2 DEF Session
<1>g. ASSUME NEW u \in Users, link' = Invalidated(u) PROVE LinksKept
  <2> SUFFICES ASSUME NEW l \in Links, link[l] # Absent
               PROVE  /\ link'[l] # Absent
                      /\ link'[l].usable => link[l].usable
                      /\ link'[l].user = link[l].user /\ link'[l].type = link[l].type
                      /\ link'[l].alone = link[l].alone
    BY DEF LinksKept
  <2>1. link[l] \in Link
    BY <1>0, RowsReal
  <2>2. CASE link'[l] = link[l]
    BY <2>2
  <2>3. CASE link'[l] = [link[l] EXCEPT !.usable = FALSE]
    <3>1. link'[l] \in Link
      BY <2>1, <2>3 DEF Link
    <3>2. link'[l] # Absent
      BY <3>1, SessionsAssumption DEF Link, Absent
    <3> QED BY <2>1, <2>3, <3>2 DEF Link
  <2> QED BY <1>g, <2>2, <2>3 DEF Invalidated
<1>1. CASE \E r \in Requests, s \in Tokens : InsertSession(r, s)
  <2>1. SessionsKept
    BY <1>0, <1>1 DEF InsertSession, TypeOK, SessionsKept
  <2> QED BY <1>1, <1>b, <2>1 DEF InsertSession
<1>2. CASE \E r \in Requests, u \in Users : Forget(r, u)
  BY <1>2, <1>a, <1>g DEF Forget
<1>3. CASE \E r \in Requests, l \in Links : InsertWelcome(r, l) \/ InsertLink(r, l)
  BY <1>3, <1>a, <1>e DEF InsertWelcome, InsertLink
<1>4. ASSUME NEW r \in Requests, RevokeOld(r) PROVE SessionsKept /\ LinksKept
  <2>1. req[r].grant.from \in Tokens /\ session[req[r].grant.from] # Absent
    BY <1>4 DEF RevokeOld, Typed, Found
  <2> QED BY <1>4, <1>b, <1>c, <2>1 DEF RevokeOld, Rotated
<1>5. ASSUME NEW a \in Tokens, NEW s \in Tokens, Logout(a, s)
      PROVE  SessionsKept /\ LinksKept
  <2>1. session[s] # Absent
    BY <1>0, <1>5, RowsReal DEF Logout, SessionsOf
  <2> QED BY <1>5, <1>b, <1>c, <2>1 DEF Logout
<1>6. ASSUME NEW r \in Requests, CommitReset(r) \/ CommitVerify(r)
      PROVE  SessionsKept /\ LinksKept
  <2>1. PICK l \in Links : l = req[r].link
    BY <1>0, <1>6, RequestFields DEF CommitReset, CommitVerify, TypeOK
  <2>2. link[l] # Absent /\ link[l].user \in Users
    BY <1>0, <1>6, <2>1, RowsReal DEF CommitReset, CommitVerify, Typed, Found
  <2>3. LinksKept
    BY <1>6, <1>d, <2>1, <2>2 DEF CommitReset, CommitVerify
  <2>4. SessionsKept
    BY <1>6, <1>a, <1>f, <2>1, <2>2 DEF CommitReset, CommitVerify
  <2> QED BY <2>3, <2>4
<1>7. CASE UNCHANGED <<session, link>>
  BY <1>7, <1>a, <1>b
<1> QED BY <1>1, <1>2, <1>3, <1>4, <1>5, <1>6, <1>7
        DEF Next, vars, BeginRegister, CheckLogin, CheckRefresh, CheckLink, InsertUser,
            Lose, ChangeRole

\* What was found stays found.
LEMMA FoundKept ==
  ASSUME Typed, [Next]_vars, NEW q \in Request, Found(q) PROVE Found(q)'
<1>1. SessionsKept /\ LinksKept
  BY RowsKept
<1>2. CASE q.pc = "revoking"
  BY <1>1, <1>2 DEF SessionsKept, Found
<1>3. CASE q.pc \in {"resetting", "verifying"}
  BY <1>1, <1>3, RequestFields DEF LinksKept, Found
<1> QED BY <1>2, <1>3 DEF Found

\* Every request goes on with what it had found, or has just found something.
LEMMA TypedStep == Typed /\ [Next]_vars => Typed'
<1> SUFFICES ASSUME Typed, [Next]_vars PROVE Typed'
  OBVIOUS
<1>0. TypeOK /\ TypeOK'
  BY TypesKept DEF Typed
<1> SUFFICES ASSUME NEW r \in Requests PROVE Found(req[r])'
  BY <1>0 DEF Typed
<1>1. CASE req'[r] = req[r]
  <2>1. PICK q \in Request : q = req[r]
    BY <1>0 DEF TypeOK
  <2>2. Found(q)'
    BY <2>1, FoundKept DEF Typed
  <2> QED BY <1>1, <2>1, <2>2 DEF Found
<1>2. CASE req'[r].pc \notin {"revoking", "resetting", "verifying"}
  BY <1>2 DEF Found
<1>3. CASE req'[r].pc \in {"revoking", "resetting", "verifying"} /\ req'[r] # req[r]
  <2>1. \A state : \A q \in Requests : Goto(q, state) =>
          (req'[r] = req[r] \/ req'[r] = state)
    BY <1>0 DEF Goto, TypeOK
  <2>2. ASSUME NEW q \in Requests, NEW s \in Tokens, CheckRefresh(q, s)
        PROVE  Found(req[r])'
    <3>1. req'[r].pc = "revoking" /\ req'[r].grant.from = s
      BY <1>3, <2>1, <2>2 DEF CheckRefresh, Granted
    <3> QED BY <2>2, <3>1 DEF CheckRefresh, Found
  <2>3. ASSUME NEW q \in Requests, NEW l \in Links, CheckLink(q, l)
        PROVE  Found(req[r])'
    <3>1. req'[r].pc # "revoking" /\ req'[r].link = l
      BY <1>3, <2>1, <2>3 DEF CheckLink
    <3> QED BY <2>3, <3>1 DEF CheckLink, Found
  <2>4. ASSUME NEW q \in Requests, RevokeOld(q) PROVE FALSE
    <3>1. req[q] \in [pc: {"revoking", "granting"}, grant: Grant]
      BY <1>0, <2>4, RequestFields DEF RevokeOld, TypeOK
    <3>2. [req[q] EXCEPT !.pc = "granting"].pc = "granting"
      BY <3>1
    <3> QED BY <1>3, <2>1, <2>4, <3>2 DEF RevokeOld
  <2>5. ASSUME NEW q \in Requests, NEW u \in Users,
               BeginRegister(q, u) \/ CheckLogin(q, u) \/ Forget(q, u)
        PROVE  FALSE
    BY <1>3, <2>1, <2>5 DEF BeginRegister, CheckLogin, Forget
  <2>6. ASSUME NEW q \in Requests, NEW l \in Links, InsertWelcome(q, l) \/ InsertLink(q, l)
        PROVE  FALSE
    BY <1>3, <2>1, <2>6 DEF InsertWelcome, InsertLink, Idle
  <2>7. ASSUME NEW q \in Requests,
               \/ \E s \in Tokens : InsertSession(q, s)
               \/ InsertUser(q) \/ CommitReset(q) \/ CommitVerify(q) \/ Lose(q)
        PROVE  FALSE
    BY <1>3, <2>1, <2>7
       DEF InsertSession, InsertUser, CommitReset, CommitVerify, Lose, Idle
  <2>8. CASE UNCHANGED req
    BY <1>3, <2>8
  <2> QED BY <2>2, <2>3, <2>4, <2>5, <2>6, <2>7, <2>8 DEF Next, vars, Logout, ChangeRole
<1> QED BY <1>1, <1>2, <1>3

\* The types are an invariant, for every instance.
THEOREM SessionTypeCorrect == Spec => []TypeOK
<1>1. Spec => []Typed
  BY TypedInit, TypedStep, PTL DEF Spec
<1>2. Typed => TypeOK
  BY DEF Typed
<1> QED BY <1>1, <1>2, PTL

\* The types, and that found rows stay, are an invariant.
LEMMA TypedAlways == Spec => []Typed
  BY TypedInit, TypedStep, PTL DEF Spec

-----------------------------------------------------------------------------
\* A session, or what is about to become one, carries the role its user had
\* when it was read: after `change' changes.
RoleOf(x) ==
  /\ x.change <= changes[x.user]
  /\ x.change = changes[x.user] => x.role = role[x.user]

Granting(q) == q.pc \in {"revoking", "granting"}

RoleInv ==
  /\ \A u \in Users : changes[u] = 0 => role[u] = "OWNER"
  /\ \A s \in Tokens : session[s] # Absent => RoleOf(session[s])
  /\ \A r \in Requests : Granting(req[r]) => RoleOf(req[r].grant)

\* The live session, if it is clean, goes back to the present password; a clean
\* request would make such a one if it found the password it began with.
\* Only users with a password are on the way to a session.
PasswordInv ==
  /\ \A s \in Tokens : session[s] # Absent => password[session[s].user] # 0
  /\ \A r \in Requests :
       /\ Granting(req[r]) => password[req[r].grant.user] # 0
       /\ req[r].pc = "welcoming" => password[req[r].user] # 0
  /\ ResetEndsSessions
  /\ \A r \in Requests : Granting(req[r]) =>
       LET g == req[r].grant
       IN  /\ g.asOf <= password[g.user]
           /\ g.clean /\ g.asOf = password[g.user] => g.proved = password[g.user]

\* Where a request that is opening a session comes from: it had begun before,
\* or begins with what is stored now.
Opens(r, q) ==
  \/ Granting(req[r]) /\ q.grant = req[r].grant
  \/ \E u \in Users :
       /\ q.grant.user = u
       /\ q.grant.asOf = password[u]
       /\ \/ password[u] # 0
          \/ \E w \in Requests : req[w].pc = "welcoming" /\ req[w].user = u
          \/ \E s \in Tokens : session[s] # Absent /\ session[s].user = u
       /\ \/ q.grant.role = role[u] /\ q.grant.change = changes[u]
          \/ q.grant.role = "OWNER" /\ q.grant.change = 0
       /\ \/ q.grant.clean => q.grant.proved = password[u]
          \/ \E s \in Tokens : /\ session[s] # Absent /\ session[s].live
                              /\ session[s].user = u
                              /\ q.grant.clean = session[s].clean
                              /\ q.grant.proved = session[s].proved

\* Every request that is opening a session after a step opened it before, or
\* began with that step, which then wrote neither users nor sessions.
LEMMA OpensFrom ==
  ASSUME Typed, [Next]_vars, NEW r \in Requests, Granting(req'[r])
  PROVE  \/ Granting(req[r]) /\ req'[r].grant = req[r].grant
         \/ Opens(r, req'[r]) /\ UNCHANGED <<accounts, session>>
<1>0. TypeOK
  BY DEF Typed
<1>a. \A state : \A q \in Requests : Goto(q, state) =>
        (req'[r] = req[r] \/ (q = r /\ req'[r] = state))
  BY <1>0 DEF Goto, TypeOK
<1>1. CASE req'[r] = req[r]
  BY <1>1
<1>2. ASSUME req'[r] # req[r], NEW q \in Requests, NEW u \in Users, CheckLogin(q, u)
      PROVE  Opens(r, req'[r]) /\ UNCHANGED <<accounts, session>>
  <2>1. req'[r] = [pc |-> "granting",
                   grant |-> Granted(u, role[u], "LOGIN", password[u], TRUE, TRUE)]
    BY <1>0, <1>2 DEF CheckLogin, Goto, TypeOK
  <2>2. /\ req'[r].grant.user = u /\ req'[r].grant.role = role[u]
        /\ req'[r].grant.change = changes[u] /\ req'[r].grant.asOf = password[u]
        /\ req'[r].grant.proved = password[u]
    BY <2>1 DEF Granted
  <2> QED BY <1>2, <2>2 DEF CheckLogin, Opens
<1>3. ASSUME req'[r] # req[r], NEW q \in Requests, NEW s \in Tokens, CheckRefresh(q, s)
      PROVE  Opens(r, req'[r]) /\ UNCHANGED <<accounts, session>>
  <2>1. PICK b \in BOOLEAN :
          req'[r] = [pc |-> "revoking",
                     grant |-> Granted(session[s].user, RefreshedRole(s), s,
                                       session[s].proved, session[s].clean, b)]
    BY <1>0, <1>3 DEF CheckRefresh, Goto, TypeOK
  <2>2. PICK u \in Users : u = session[s].user
    BY <1>0, <1>3, RowsReal DEF CheckRefresh
  <2>3. /\ req'[r].grant.user = u /\ req'[r].grant.role = role[u]
        /\ req'[r].grant.change = changes[u] /\ req'[r].grant.asOf = password[u]
        /\ req'[r].grant.proved = session[s].proved
        /\ req'[r].grant.clean = session[s].clean
    BY <2>1, <2>2 DEF Granted, RefreshedRole
  <2> QED BY <1>3, <2>2, <2>3 DEF CheckRefresh, Opens
<1>4. ASSUME req'[r] # req[r], NEW q \in Requests, NEW l \in Links, InsertWelcome(q, l)
      PROVE  Opens(r, req'[r]) /\ UNCHANGED <<accounts, session>>
  <2>1. PICK u \in Users : u = req[q].user
    BY <1>0, <1>4, RequestFields DEF InsertWelcome, TypeOK
  <2>2. req'[r] = [pc |-> "granting", grant |->
          [Granted(u, "OWNER", "LOGIN", 1, password[u] = 1, TRUE) EXCEPT !.change = 0]]
    BY <1>0, <1>4, <2>1 DEF InsertWelcome, Goto, TypeOK
  <2>3. /\ req'[r].grant.user = u /\ req'[r].grant.role = "OWNER"
        /\ req'[r].grant.change = 0 /\ req'[r].grant.asOf = password[u]
        /\ req'[r].grant.proved = 1
        /\ req'[r].grant.clean = (password[u] = 1)
    BY <2>2 DEF Granted
  <2>4. req'[r].grant.clean => req'[r].grant.proved = password[u]
    BY <2>3
  <2> QED BY <1>4, <2>1, <2>3, <2>4 DEF InsertWelcome, Opens
<1>5. ASSUME req'[r] # req[r], NEW q \in Requests, RevokeOld(q)
      PROVE  Granting(req[r]) /\ req'[r].grant = req[r].grant
  <2>1. q = r /\ req'[r] = [req[r] EXCEPT !.pc = "granting"]
    BY <1>5, <1>a DEF RevokeOld
  <2>2. req[r] \in [pc: {"revoking", "granting"}, grant: Grant]
    BY <1>0, <1>5, <2>1, RequestFields DEF RevokeOld, TypeOK
  <2> QED BY <2>1, <2>2 DEF Granting
<1>6. ASSUME req'[r] # req[r], NEW q \in Requests, NEW u \in Users,
             BeginRegister(q, u) \/ Forget(q, u)
      PROVE  FALSE
  BY <1>6, <1>a DEF BeginRegister, Forget, Granting
<1>7. ASSUME req'[r] # req[r], NEW q \in Requests, NEW l \in Links,
             InsertLink(q, l) \/ CheckLink(q, l)
      PROVE  FALSE
  BY <1>7, <1>a DEF InsertLink, CheckLink, Granting, Idle
<1>8. ASSUME req'[r] # req[r], NEW q \in Requests,
             \/ \E s \in Tokens : InsertSession(q, s)
             \/ InsertUser(q) \/ CommitReset(q) \/ CommitVerify(q) \/ Lose(q)
      PROVE  FALSE
  BY <1>8, <1>a DEF InsertSession, InsertUser, CommitReset, CommitVerify, Lose, Granting, Idle
<1> QED BY <1>1, <1>2, <1>3, <1>4, <1>5, <1>6, <1>7, <1>8
        DEF Next, vars, Logout, ChangeRole

\* A session is new only when a request inserts it.
LEMMA SessionsFrom ==
  ASSUME Typed, [Next]_vars, NEW s \in Tokens, session[s] = Absent, session'[s] # Absent
  PROVE  \E r \in Requests : InsertSession(r, s)
<1>0. TypeOK
  BY DEF Typed
<1>1. ASSUME NEW r \in Requests, NEW t \in Tokens, InsertSession(r, t) PROVE t = s
  BY <1>0, <1>1 DEF InsertSession, TypeOK
<1>2. ASSUME NEW t \in Tokens, session[t] # Absent,
             session' = [session EXCEPT ![t].live = FALSE]
      PROVE  FALSE
  BY <1>0, <1>2 DEF TypeOK
<1>3. ASSUME NEW r \in Requests, RevokeOld(r) PROVE FALSE
  <2>1. req[r].grant.from \in Tokens /\ session[req[r].grant.from] # Absent
    BY <1>3 DEF RevokeOld, Typed, Found
  <2> QED BY <1>2, <1>3, <2>1 DEF RevokeOld, Rotated
<1>4. ASSUME NEW a \in Tokens, NEW t \in Tokens, Logout(a, t) PROVE FALSE
  <2>1. session[t] # Absent
    BY <1>0, <1>4, RowsReal DEF Logout, SessionsOf
  <2> QED BY <1>2, <1>4, <2>1 DEF Logout
<1>5. ASSUME NEW r \in Requests, CommitReset(r) PROVE FALSE
  <2>1. PICK l \in Links : l = req[r].link
    BY <1>0, <1>5, RequestFields DEF CommitReset, TypeOK
  <2>2. link[l].user \in Users
    BY <1>0, <1>5, <2>1, RowsReal DEF CommitReset, Typed, Found
  <2>3. s \notin SessionsOf(link[l].user)
    BY <1>0, <2>2, RowsReal DEF SessionsOf
  <2> QED BY <1>5, <2>1, <2>3 DEF CommitReset, Ended
<1> QED BY <1>1, <1>3, <1>4, <1>5
        DEF Next, vars, BeginRegister, CheckLogin, Forget, CheckRefresh, InsertWelcome,
            InsertLink, CheckLink, InsertUser, CommitVerify, Lose, ChangeRole

\* What InsertSession stores.
LEMMA Inserted ==
  ASSUME Typed, NEW r \in Requests, NEW s \in Tokens, InsertSession(r, s)
  PROVE  /\ Granting(req[r]) /\ req[r].grant \in Grant
         /\ session'[s].user = req[r].grant.user /\ session'[s].role = req[r].grant.role
         /\ session'[s].change = req[r].grant.change
         /\ session'[s].proved = req[r].grant.proved
         /\ session'[s].clean = (/\ req[r].grant.clean
                                 /\ password[req[r].grant.user] = req[r].grant.asOf)
         /\ session'[s].from = req[r].grant.from /\ session'[s].alone = req[r].grant.alone
         /\ session'[s].live
         /\ UNCHANGED accounts
         /\ \A t \in Tokens \ {s} : session'[t] = session[t]
<1>1. req[r] \in [pc: {"revoking", "granting"}, grant: Grant]
  BY RequestFields DEF InsertSession, Typed, TypeOK
<1> QED BY <1>1 DEF InsertSession, Typed, TypeOK, Granting

-----------------------------------------------------------------------------
LEMMA RoleInit == Init => RoleInv
  BY DEF Init, RoleInv, Granting, Idle

\* Roles are written and counted together.
LEMMA RolesWritten ==
  ASSUME Typed, [Next]_vars, NEW u \in Users
  PROVE  \/ changes'[u] = changes[u] /\ role'[u] = role[u]
         \/ changes'[u] = changes[u] + 1
<1>1. ASSUME NEW v \in Users, NEW new,
             role' = [role EXCEPT ![v] = new], changes' = [changes EXCEPT ![v] = @ + 1]
      PROVE  \/ changes'[u] = changes[u] /\ role'[u] = role[u]
             \/ changes'[u] = changes[u] + 1
  BY <1>1 DEF Typed, TypeOK
<1> QED BY <1>1 DEF Next, vars, accounts, BeginRegister, CheckLogin, Forget, InsertSession,
          CheckRefresh, InsertWelcome, InsertLink, CheckLink, InsertUser, RevokeOld,
          CommitReset, CommitVerify, Lose, Logout, ChangeRole

\* What was read of a role stays true, as of its change.
LEMMA RoleOfKept ==
  ASSUME Typed, [Next]_vars, NEW x, x.user \in Users, x.change \in Nat, RoleOf(x)
  PROVE  RoleOf(x)'
<1>1. PICK u \in Users, c \in Nat : u = x.user /\ c = x.change
  OBVIOUS
<1>2. changes[u] \in Nat
  BY SessionsAssumption DEF Typed, TypeOK
<1>3. c <= changes[u] /\ (c = changes[u] => x.role = role[u])
  BY <1>1 DEF RoleOf
<1>4. c <= changes'[u] /\ (c = changes'[u] => x.role = role'[u])
  BY <1>2, <1>3, RolesWritten
<1> QED BY <1>1, <1>4 DEF RoleOf

LEMMA RoleStep == Typed /\ RoleInv /\ [Next]_vars => RoleInv'
<1> SUFFICES ASSUME Typed, RoleInv, [Next]_vars PROVE RoleInv'
  OBVIOUS
<1>0. TypeOK /\ SessionsKept
  BY RowsKept DEF Typed
<1>a. \A u \in Users : changes[u] \in Nat
  BY <1>0, SessionsAssumption DEF TypeOK
<1>1. \A u \in Users : changes'[u] = 0 => role'[u] = "OWNER"
  BY <1>a, RolesWritten DEF RoleInv
<1>2. ASSUME NEW g \in Grant, RoleOf(g) PROVE RoleOf(g)'
  <2>1. g.user \in Users /\ g.change \in Nat
    BY DEF Grant
  <2> QED BY <1>2, <2>1, RoleOfKept
<1>3. ASSUME NEW r \in Requests, Granting(req[r])
      PROVE  req[r].grant \in Grant /\ RoleOf(req[r].grant)
  BY <1>0, <1>3, RequestFields DEF Granting, RoleInv, TypeOK
<1>4. ASSUME NEW s \in Tokens, session'[s] # Absent PROVE RoleOf(session[s])'
  <2>1. CASE session[s] # Absent
    <3>1. session[s] \in Session
      BY <1>0, <2>1, RowsReal
    <3>2. session[s].user \in Users /\ session[s].change \in Nat
      BY <3>1 DEF Session
    <3>3. RoleOf(session[s]) /\ \A x : x = session[s] => (RoleOf(x) => RoleOf(x)')
      BY <2>1, <3>2, RoleOfKept DEF RoleInv
    <3> QED BY <1>0, <2>1, <3>3 DEF SessionsKept, RoleOf
  <2>2. CASE session[s] = Absent
    <3>1. PICK r \in Requests : InsertSession(r, s)
      BY <1>4, <2>2, SessionsFrom
    <3>2. PICK g \in Grant : g = req[r].grant /\ RoleOf(g)
      BY <3>1, <1>3, Inserted
    <3> QED BY <3>1, <3>2, Inserted DEF RoleOf, accounts
  <2> QED BY <2>1, <2>2
<1>5. ASSUME NEW r \in Requests, Granting(req'[r]) PROVE RoleOf(req[r].grant)'
  <2>1. CASE Granting(req[r]) /\ req'[r].grant = req[r].grant
    <3>1. PICK g \in Grant : g = req[r].grant /\ RoleOf(g)
      BY <2>1, <1>3
    <3>2. RoleOf(g)'
      BY <3>1, <1>2
    <3> QED BY <2>1, <3>1, <3>2 DEF RoleOf
  <2>2. CASE Opens(r, req'[r]) /\ ~(Granting(req[r]) /\ req'[r].grant = req[r].grant)
             /\ UNCHANGED <<accounts, session>>
    <3>1. PICK u \in Users :
            /\ req'[r].grant.user = u
            /\ \/ req'[r].grant.role = role[u] /\ req'[r].grant.change = changes[u]
               \/ req'[r].grant.role = "OWNER" /\ req'[r].grant.change = 0
      BY <2>2 DEF Opens
    <3>2. changes'[u] = changes[u] /\ role'[u] = role[u]
      BY <2>2 DEF accounts
    <3> QED BY <1>a, <3>1, <3>2 DEF RoleOf, RoleInv
  <2> QED BY <1>5, <2>1, <2>2, OpensFrom
<1> QED BY <1>1, <1>4, <1>5 DEF RoleInv, Granting

\* A token that was issued after the last change of a role carries the
\* present role, for every instance.
THEOREM RolesAlwaysFollow == Spec => []RolesFollow
<1>1. Spec => []RoleInv
  BY RoleInit, RoleStep, TypedAlways, PTL DEF Spec
<1>2. RoleInv => RolesFollow
  BY DEF RoleInv, RoleOf, RolesFollow
<1> QED BY <1>1, <1>2, PTL

-----------------------------------------------------------------------------
LEMMA PasswordInit == Init => PasswordInv
  BY DEF Init, PasswordInv, ResetEndsSessions, Live, Granting, Idle

\* A password is written by the registration, or by a reset, which revokes the
\* sessions there are.
LEMMA PasswordsWritten ==
  ASSUME Typed, [Next]_vars, NEW u \in Users
  PROVE  \/ password'[u] = password[u]
         \/ password[u] = 0 /\ password'[u] = 1
         \/ /\ password'[u] = password[u] + 1
            /\ \A s \in Tokens : session'[s] # Absent /\ session'[s].live
                                 => session'[s].user # u
<1>0. TypeOK
  BY DEF Typed
<1>1. ASSUME NEW r \in Requests, InsertUser(r)
      PROVE  password'[u] = password[u] \/ (password[u] = 0 /\ password'[u] = 1)
  BY <1>0, <1>1 DEF InsertUser, TypeOK
<1>2. ASSUME NEW r \in Requests, CommitReset(r)
      PROVE  \/ password'[u] = password[u]
             \/ /\ password'[u] = password[u] + 1
                /\ \A s \in Tokens : session'[s] # Absent /\ session'[s].live
                                     => session'[s].user # u
  <2>1. PICK l \in Links : l = req[r].link
    BY <1>0, <1>2, RequestFields DEF CommitReset, TypeOK
  <2>2. PICK v \in Users : v = link[l].user
    BY <1>0, <1>2, <2>1, RowsReal DEF CommitReset, Typed, Found
  <2>3. password' = [password EXCEPT ![v] = @ + 1] /\ session' = Ended(v)
    BY <1>2, <2>1, <2>2 DEF CommitReset
  <2>4. CASE u # v
    BY <1>0, <2>3, <2>4 DEF TypeOK
  <2>5. CASE u = v
    <3>1. password'[u] = password[u] + 1
      BY <1>0, <2>3, <2>5 DEF TypeOK
    <3>2. ASSUME NEW s \in Tokens, session'[s] # Absent, session'[s].live,
                 session'[s].user = u
          PROVE  FALSE
      <4>1. CASE s \in SessionsOf(u)
        <5>1. session[s] \in Session
          BY <1>0, <4>1, RowsReal DEF SessionsOf
        <5>2. session'[s] = [session[s] EXCEPT !.live = FALSE]
          BY <2>3, <2>5, <4>1 DEF Ended
        <5> QED BY <3>2, <5>1, <5>2 DEF Session
      <4>2. CASE s \notin SessionsOf(u)
        BY <2>3, <2>5, <3>2, <4>2 DEF Ended, SessionsOf
      <4> QED BY <4>1, <4>2
    <3> QED BY <3>1, <3>2
  <2> QED BY <2>4, <2>5
<1> QED BY <1>1, <1>2 DEF Next, vars, accounts, BeginRegister, CheckLogin, Forget,
          InsertSession, CheckRefresh, InsertWelcome, InsertLink, CheckLink, RevokeOld,
          CommitVerify, Lose, Logout, ChangeRole

\* A request that is about to welcome a user has stored the user.
LEMMA WelcomesStored ==
  ASSUME Typed, [Next]_vars, NEW r \in Requests, req'[r].pc = "welcoming"
  PROVE  \/ req'[r] = req[r]
         \/ req'[r].user \in Users /\ password'[req'[r].user] = 1
<1>0. TypeOK
  BY DEF Typed
<1> SUFFICES ASSUME req'[r] # req[r]
             PROVE  req'[r].user \in Users /\ password'[req'[r].user] = 1
  OBVIOUS
<1>a. ASSUME NEW q \in Requests, NEW state, Goto(q, state)
      PROVE  q = r /\ req'[r] = state
  BY <1>0, <1>a DEF Goto, TypeOK
<1>1. ASSUME NEW q \in Requests, InsertUser(q)
      PROVE  req'[r].user \in Users /\ password'[req'[r].user] = 1
  <2>1. req[q].user \in Users
    BY <1>0, <1>1, RequestFields DEF InsertUser, TypeOK
  <2>2. ~Goto(q, Idle)
    BY <1>a DEF Idle
  <2>3. /\ Goto(q, [pc |-> "welcoming", user |-> req[q].user])
        /\ password' = [password EXCEPT ![req[q].user] = 1]
    BY <1>1, <2>2 DEF InsertUser
  <2>4. req'[r].user = req[q].user
    BY <1>a, <2>3
  <2> QED BY <1>0, <2>1, <2>3, <2>4 DEF TypeOK
<1>b. ASSUME NEW q \in Requests, NEW state, Goto(q, state), state.pc # "welcoming"
      PROVE  FALSE
  BY <1>a, <1>b
<1>2. ASSUME NEW q \in Requests, NEW u \in Users,
             BeginRegister(q, u) \/ CheckLogin(q, u) \/ Forget(q, u)
      PROVE  FALSE
  BY <1>b, <1>2 DEF BeginRegister, CheckLogin, Forget
<1>3. ASSUME NEW q \in Requests, NEW s \in Tokens, InsertSession(q, s) \/ CheckRefresh(q, s)
      PROVE  FALSE
  BY <1>b, <1>3 DEF InsertSession, CheckRefresh, Idle
<1>4. ASSUME NEW q \in Requests, NEW l \in Links,
             InsertWelcome(q, l) \/ InsertLink(q, l) \/ CheckLink(q, l)
      PROVE  FALSE
  BY <1>b, <1>4 DEF InsertWelcome, InsertLink, CheckLink, Idle
<1>5. ASSUME NEW q \in Requests, CommitReset(q) \/ CommitVerify(q) \/ Lose(q)
      PROVE  FALSE
  BY <1>b, <1>5 DEF CommitReset, CommitVerify, Lose, Idle
<1>6. ASSUME NEW q \in Requests, RevokeOld(q) PROVE FALSE
  <2>1. req[q] \in [pc: {"revoking", "granting"}, grant: Grant]
    BY <1>0, <1>6, RequestFields DEF RevokeOld, TypeOK
  <2>2. [req[q] EXCEPT !.pc = "granting"].pc # "welcoming"
    BY <2>1
  <2> QED BY <1>b, <1>6, <2>2 DEF RevokeOld
<1> QED BY <1>1, <1>2, <1>3, <1>4, <1>5, <1>6 DEF Next, vars, Logout, ChangeRole

LEMMA PasswordStep == Typed /\ PasswordInv /\ [Next]_vars => PasswordInv'
<1> SUFFICES ASSUME Typed, PasswordInv, [Next]_vars PROVE PasswordInv'
  OBVIOUS
<1>0. TypeOK /\ SessionsKept
  BY RowsKept DEF Typed
<1>a. ASSUME NEW u \in Users
      PROVE  /\ password[u] \in Nat /\ password'[u] \in Nat
             /\ password[u] <= password'[u]
             /\ password[u] # 0 => password'[u] # 0
  <2>1. password[u] \in Nat
    BY <1>0, SessionsAssumption DEF TypeOK
  <2> QED BY <2>1, PasswordsWritten
<1>b. ASSUME NEW r \in Requests, Granting(req[r])
      PROVE  /\ req[r].grant \in Grant
             /\ req[r].grant.user \in Users
             /\ req[r].grant.asOf \in Nat /\ req[r].grant.proved \in Nat
  BY <1>0, <1>b, RequestFields DEF Granting, TypeOK, Grant
<1>c. ASSUME NEW s \in Tokens, session[s] # Absent PROVE session[s].user \in Users
  BY <1>0, <1>c, RowsReal
<1>d. ASSUME NEW s \in Tokens, session[s] = Absent, NEW r \in Requests, InsertSession(r, s)
      PROVE  /\ password'[session'[s].user] # 0
             /\ session'[s].clean => session'[s].proved = password'[session'[s].user]
  <2>1. PICK g : g = req[r].grant
    OBVIOUS
  <2>2. Granting(req[r]) /\ g.user \in Users
    BY <1>d, <2>1, <1>b, Inserted
  <2>3. /\ password[g.user] # 0
        /\ g.clean /\ g.asOf = password[g.user] => g.proved = password[g.user]
    BY <2>1, <2>2 DEF PasswordInv
  <2>4. /\ session'[s].user = g.user /\ session'[s].proved = g.proved
        /\ session'[s].clean = (g.clean /\ password[g.user] = g.asOf)
        /\ password' = password
    BY <1>d, <2>1, Inserted DEF accounts
  <2> QED BY <2>3, <2>4
<1>1. ASSUME NEW s \in Tokens, session'[s] # Absent
      PROVE  /\ password'[session'[s].user] # 0
             /\ session'[s].live /\ session'[s].clean
                  => session'[s].proved = password'[session'[s].user]
  <2>1. CASE session[s] = Absent
    BY <1>1, <1>d, <2>1, SessionsFrom
  <2>2. CASE session[s] # Absent
    <3>1. PICK u \in Users : u = session[s].user /\ u = session'[s].user
      BY <1>0, <1>c, <2>2 DEF SessionsKept
    <3>2. password[u] # 0 /\ password'[u] # 0
      BY <1>a, <2>2, <3>1 DEF PasswordInv
    <3>3. ASSUME session'[s].live, session'[s].clean
          PROVE  session'[s].proved = password'[u]
      <4>1. session[s].live /\ session[s].clean /\ session'[s].proved = session[s].proved
        BY <1>0, <2>2, <3>3 DEF SessionsKept
      <4>2. session[s].proved = password[u]
        BY <2>2, <3>1, <4>1 DEF PasswordInv, ResetEndsSessions, Live
      <4>3. password'[u] = password[u]
        BY <1>1, <3>1, <3>2, <3>3, PasswordsWritten
      <4> QED BY <4>1, <4>2, <4>3
    <3> QED BY <3>1, <3>2, <3>3
  <2> QED BY <2>1, <2>2
<1>2. ASSUME NEW r \in Requests, Granting(req'[r])
      PROVE  LET g == req'[r].grant
             IN  /\ password'[g.user] # 0
                 /\ g.asOf <= password'[g.user]
                 /\ g.clean /\ g.asOf = password'[g.user] => g.proved = password'[g.user]
  <2>1. PICK g : g = req'[r].grant
    OBVIOUS
  <2>2. CASE Granting(req[r]) /\ g = req[r].grant
    <3>1. PICK u \in Users : u = g.user
      BY <1>b, <2>2
    <3>2. g.asOf \in Nat
      BY <1>b, <2>2
    <3>3. /\ password[u] # 0 /\ g.asOf <= password[u]
          /\ g.clean /\ g.asOf = password[u] => g.proved = password[u]
      BY <2>2, <3>1 DEF PasswordInv
    <3>4. CASE password'[u] = password[u]
      BY <2>1, <3>1, <3>3, <3>4
    <3>5. CASE password'[u] = password[u] + 1
      BY <1>a, <2>1, <3>1, <3>2, <3>3, <3>5
    <3> QED BY <3>3, <3>4, <3>5, PasswordsWritten
  <2>3. CASE Opens(r, req'[r]) /\ ~(Granting(req[r]) /\ g = req[r].grant)
             /\ UNCHANGED <<accounts, session>>
    <3>1. PICK u \in Users :
            /\ g.user = u /\ g.asOf = password[u]
            /\ \/ password[u] # 0
               \/ \E w \in Requests : req[w].pc = "welcoming" /\ req[w].user = u
               \/ \E s \in Tokens : session[s] # Absent /\ session[s].user = u
            /\ \/ g.clean => g.proved = password[u]
               \/ \E s \in Tokens : /\ session[s] # Absent /\ session[s].live
                                   /\ session[s].user = u
                                   /\ g.clean = session[s].clean
                                   /\ g.proved = session[s].proved
      BY <2>1, <2>3 DEF Opens
    <3>2. password'[u] = password[u]
      BY <2>3 DEF accounts
    <3>3. password[u] # 0
      BY <3>1 DEF PasswordInv
    <3>4. g.clean => g.proved = password[u]
      BY <3>1 DEF PasswordInv, ResetEndsSessions, Live
    <3> QED BY <1>a, <2>1, <3>1, <3>2, <3>3, <3>4
  <2> QED BY <1>2, <2>1, <2>2, <2>3, OpensFrom
<1>3. ASSUME NEW r \in Requests, req'[r].pc = "welcoming"
      PROVE  password'[req'[r].user] # 0
  <2>1. CASE req'[r] = req[r]
    <3>1. PICK u \in Users : u = req[r].user
      BY <1>0, <1>3, <2>1, RequestFields DEF TypeOK
    <3>2. password[u] # 0
      BY <1>3, <2>1, <3>1 DEF PasswordInv
    <3> QED BY <1>a, <2>1, <3>1, <3>2
  <2> QED BY <1>3, <2>1, WelcomesStored
<1> QED BY <1>1, <1>2, <1>3 DEF PasswordInv, ResetEndsSessions, Live, Granting

\* A reset ends the sessions, for every instance: but for the requests that were
\* between check and INSERT when it committed.
THEOREM ResetsEndSessions == Spec => []ResetEndsSessions
<1>1. Spec => []PasswordInv
  BY PasswordInit, PasswordStep, TypedAlways, PTL DEF Spec
<1>2. PasswordInv => ResetEndsSessions
  BY DEF PasswordInv
<1> QED BY <1>1, <1>2, PTL

-----------------------------------------------------------------------------
\* The token was used, for good.
Spent(f) == session[f] # Absent /\ ~session[f].live

\* A request is refreshing token f, and a session was made from it.
Uses(q, f) == Granting(q) /\ q.grant.from = f
MadeFrom(s, f) == session[s] # Absent /\ session[s].from = f

\* Whoever revokes a token spends it, and of all that use it or were made from
\* it, two never both met nobody.
RotationInv ==
  \A f \in Tokens \ {"LOGIN"} :
    /\ \A r \in Requests : req[r].pc = "granting" /\ Uses(req[r], f) => Spent(f)
    /\ \A s \in Tokens : MadeFrom(s, f) => Spent(f)
    /\ \A q, r \in Requests : q # r /\ Uses(req[q], f) /\ Uses(req[r], f)
         => ~req[q].grant.alone \/ ~req[r].grant.alone
    /\ \A r \in Requests, s \in Tokens : Uses(req[r], f) /\ MadeFrom(s, f)
         => ~req[r].grant.alone \/ ~session[s].alone
    /\ \A s, t \in Tokens : s # t /\ MadeFrom(s, f) /\ MadeFrom(t, f)
         => ~session[s].alone \/ ~session[t].alone

LEMMA RotationInit == Init => RotationInv
  BY DEF Init, RotationInv, Uses, MadeFrom, Granting, Idle

\* A request that uses a token after a step has used it before, or has just
\* looked it up while it was live.
LEMMA UsesFrom ==
  ASSUME Typed, [Next]_vars, NEW r \in Requests, NEW f \in Tokens \ {"LOGIN"},
         Uses(req'[r], f)
  PROVE  \/ req'[r] = req[r]
         \/ /\ Uses(req[r], f) /\ req'[r].grant = req[r].grant
            /\ session[f] # Absent /\ session' = [session EXCEPT ![f].live = FALSE]
            /\ \A q \in Requests \ {r} : req'[q] = req[q]
         \/ /\ session[f] # Absent /\ session[f].live
            /\ req'[r].pc = "revoking" /\ UNCHANGED session
            /\ \A q \in Requests \ {r} :
                 /\ req'[q] = req[q]
                 /\ req[q].pc = "revoking" /\ Uses(req[q], f) => ~req'[r].grant.alone
<1>0. TypeOK
  BY DEF Typed
<1> SUFFICES ASSUME req'[r] # req[r]
             PROVE  \/ /\ Uses(req[r], f) /\ req'[r].grant = req[r].grant
                       /\ session[f] # Absent
                       /\ session' = [session EXCEPT ![f].live = FALSE]
                       /\ \A q \in Requests \ {r} : req'[q] = req[q]
                    \/ /\ session[f] # Absent /\ session[f].live
                       /\ req'[r].pc = "revoking" /\ UNCHANGED session
                       /\ \A q \in Requests \ {r} :
                            /\ req'[q] = req[q]
                            /\ req[q].pc = "revoking" /\ Uses(req[q], f)
                                 => ~req'[r].grant.alone
  OBVIOUS
<1>a. ASSUME NEW q \in Requests, NEW state, Goto(q, state)
      PROVE  q = r /\ req'[r] = state /\ \A p \in Requests \ {r} : req'[p] = req[p]
  BY <1>0, <1>a DEF Goto, TypeOK
<1>b. ASSUME NEW q \in Requests, NEW state, Goto(q, state), ~Granting(state) PROVE FALSE
  BY <1>a, <1>b DEF Uses
<1>c. ASSUME NEW q \in Requests, NEW state, Goto(q, state), state.grant.from = "LOGIN"
      PROVE  FALSE
  BY <1>a, <1>c DEF Uses
<1>1. ASSUME NEW q \in Requests, NEW s \in Tokens, CheckRefresh(q, s)
      PROVE  /\ session[f] # Absent /\ session[f].live
             /\ req'[r].pc = "revoking" /\ UNCHANGED session
             /\ \A p \in Requests \ {r} :
                  /\ req'[p] = req[p]
                  /\ req[p].pc = "revoking" /\ Uses(req[p], f) => ~req'[r].grant.alone
  <2> DEFINE nobody == \A p \in Others(q) : p.pc = "revoking" => p.grant.from # s
             begun == Granted(session[s].user, RefreshedRole(s), s, session[s].proved,
                              session[s].clean, nobody)
  <2>1. Goto(q, [pc |-> "revoking", grant |-> begun])
    BY <1>1 DEF CheckRefresh
  <2>2. begun.from = s /\ begun.alone = nobody
    BY DEF Granted
  <2>3. ASSUME NEW p \in Requests \ {q}, req[p].pc = "revoking", req[p].grant.from = s
        PROVE  ~nobody
    BY <2>3 DEF Others
  <2> HIDE DEF nobody, begun
  <2>4. q = r /\ req'[r] = [pc |-> "revoking", grant |-> begun]
        /\ \A p \in Requests \ {r} : req'[p] = req[p]
    BY <1>a, <2>1
  <2>5. s = f
    BY <2>2, <2>4 DEF Uses
  <2> QED BY <1>1, <2>2, <2>3, <2>4, <2>5 DEF CheckRefresh, Uses
<1>2. ASSUME NEW q \in Requests, RevokeOld(q)
      PROVE  /\ Uses(req[r], f) /\ req'[r].grant = req[r].grant
             /\ session[f] # Absent /\ session' = [session EXCEPT ![f].live = FALSE]
             /\ \A p \in Requests \ {r} : req'[p] = req[p]
  <2>1. q = r /\ req'[r] = [req[r] EXCEPT !.pc = "granting"]
        /\ \A p \in Requests \ {r} : req'[p] = req[p]
    BY <1>2, <1>a DEF RevokeOld
  <2>2. req[r] \in [pc: {"revoking", "granting"}, grant: Grant]
    BY <1>0, <1>2, <2>1, RequestFields DEF RevokeOld, TypeOK
  <2>3. req'[r].grant = req[r].grant /\ req[r].grant.from = f /\ Granting(req[r])
    BY <2>1, <2>2 DEF Uses, Granting
  <2>4. session[f] # Absent
    BY <1>2, <2>1, <2>3 DEF RevokeOld, Typed, Found
  <2> QED BY <1>2, <2>1, <2>3, <2>4 DEF RevokeOld, Rotated, Uses
<1>3. ASSUME NEW q \in Requests, NEW u \in Users,
             BeginRegister(q, u) \/ Forget(q, u) \/ CheckLogin(q, u)
      PROVE  FALSE
  <2>1. CASE BeginRegister(q, u) \/ Forget(q, u)
    BY <1>b, <2>1 DEF BeginRegister, Forget, Granting
  <2>2. CASE CheckLogin(q, u)
    <3> DEFINE begun == Granted(u, role[u], "LOGIN", password[u], TRUE, TRUE)
    <3>1. begun.from = "LOGIN"
      BY DEF Granted
    <3>2. Goto(q, [pc |-> "granting", grant |-> begun])
      BY <2>2 DEF CheckLogin
    <3> HIDE DEF begun
    <3> QED BY <1>c, <3>1, <3>2
  <2> QED BY <1>3, <2>1, <2>2
<1>4. ASSUME NEW q \in Requests, NEW l \in Links,
             InsertWelcome(q, l) \/ InsertLink(q, l) \/ CheckLink(q, l)
      PROVE  FALSE
  <2>1. CASE InsertLink(q, l) \/ CheckLink(q, l)
    BY <1>b, <2>1 DEF InsertLink, CheckLink, Granting, Idle
  <2>2. CASE InsertWelcome(q, l)
    <3> DEFINE u == req[q].user
               begun == [Granted(u, "OWNER", "LOGIN", 1, password[u] = 1, TRUE)
                           EXCEPT !.change = 0]
    <3>1. begun.from = "LOGIN"
      BY DEF Granted
    <3>2. Goto(q, [pc |-> "granting", grant |-> begun])
      BY <2>2 DEF InsertWelcome
    <3> HIDE DEF begun
    <3> QED BY <1>c, <3>1, <3>2
  <2> QED BY <1>4, <2>1, <2>2
<1>5. ASSUME NEW q \in Requests,
             \/ \E s \in Tokens : InsertSession(q, s)
             \/ InsertUser(q) \/ CommitReset(q) \/ CommitVerify(q) \/ Lose(q)
      PROVE  FALSE
  BY <1>b, <1>5
     DEF InsertSession, InsertUser, CommitReset, CommitVerify, Lose, Granting, Idle
<1> QED BY <1>1, <1>2, <1>3, <1>4, <1>5 DEF Next, vars, Logout, ChangeRole

LEMMA RotationStep == Typed /\ RotationInv /\ [Next]_vars => RotationInv'
<1> SUFFICES ASSUME Typed, RotationInv, [Next]_vars, NEW f \in Tokens \ {"LOGIN"}
             PROVE
    /\ \A r \in Requests : req'[r].pc = "granting" /\ Uses(req'[r], f) => Spent(f)'
    /\ \A s \in Tokens : MadeFrom(s, f)' => Spent(f)'
    /\ \A q, r \in Requests : q # r /\ Uses(req'[q], f) /\ Uses(req'[r], f)
         => ~req'[q].grant.alone \/ ~req'[r].grant.alone
    /\ \A r \in Requests, s \in Tokens : Uses(req'[r], f) /\ MadeFrom(s, f)'
         => ~req'[r].grant.alone \/ ~session'[s].alone
    /\ \A s, t \in Tokens : s # t /\ MadeFrom(s, f)' /\ MadeFrom(t, f)'
         => ~session'[s].alone \/ ~session'[t].alone
  BY DEF RotationInv, Uses, Granting
<1>0. TypeOK /\ SessionsKept
  BY RowsKept DEF Typed
<1>a. Spent(f) => Spent(f)'
  BY <1>0 DEF Spent, SessionsKept
<1>b. ASSUME NEW s \in Tokens, MadeFrom(s, f)'
      PROVE  \/ MadeFrom(s, f) /\ session'[s].alone = session[s].alone
             \/ \E r \in Requests : InsertSession(r, s)
  <2>1. CASE session[s] # Absent
    BY <1>0, <1>b, <2>1 DEF SessionsKept, MadeFrom
  <2>2. CASE session[s] = Absent
    BY <1>b, <2>2, SessionsFrom DEF MadeFrom
  <2> QED BY <2>1, <2>2
<1>c. ASSUME NEW s \in Tokens, NEW p \in Requests, InsertSession(p, s), MadeFrom(s, f)'
      PROVE  /\ req[p].pc = "granting" /\ Uses(req[p], f)
             /\ session'[s].alone = req[p].grant.alone
             /\ ~Granting(req'[p])
             /\ \A r \in Requests \ {p} : req'[r] = req[r]
             /\ \A t \in Tokens \ {s} : session'[t] = session[t]
  <2>1. req[p].pc = "granting" /\ Uses(req[p], f)
    BY <1>c, Inserted DEF InsertSession, Uses, MadeFrom
  <2>2. ~Granting(req'[p]) /\ \A r \in Requests \ {p} : req'[r] = req[r]
    BY <1>0, <1>c DEF InsertSession, Goto, TypeOK, Granting, Idle
  <2> QED BY <1>c, <2>1, <2>2, Inserted
<1>1. ASSUME NEW r \in Requests, req'[r].pc = "granting", Uses(req'[r], f) PROVE Spent(f)'
  <2>1. CASE req'[r] = req[r]
    BY <1>1, <1>a, <2>1 DEF RotationInv
  <2>2. CASE session[f] # Absent /\ session' = [session EXCEPT ![f].live = FALSE]
    <3>1. session[f] \in Session
      BY <1>0, <2>2, RowsReal
    <3>2. session'[f] = [session[f] EXCEPT !.live = FALSE]
      BY <1>0, <2>2 DEF TypeOK
    <3>3. ~session'[f].live
      BY <3>1, <3>2 DEF Session
    <3> QED BY <1>0, <2>2, <3>3 DEF Spent, SessionsKept
  <2> QED BY <1>1, <2>1, <2>2, UsesFrom
<1>2. ASSUME NEW s \in Tokens, MadeFrom(s, f)' PROVE Spent(f)'
  BY <1>2, <1>a, <1>b, <1>c DEF RotationInv
<1>3. ASSUME NEW q \in Requests, NEW r \in Requests, q # r,
             Uses(req'[q], f), Uses(req'[r], f),
             req'[q].grant.alone, req'[r].grant.alone
      PROVE  FALSE
  <2>1. CASE Uses(req[q], f) /\ req'[q].grant = req[q].grant
             /\ Uses(req[r], f) /\ req'[r].grant = req[r].grant
    BY <1>3, <2>1 DEF RotationInv
  <2>2. ASSUME NEW x \in Requests, NEW y \in Requests, x # y,
               Uses(req'[y], f), req'[x].grant.alone,
               session[f] # Absent, session[f].live,
               req'[y] = req[y],
               req[y].pc = "revoking" /\ Uses(req[y], f) => ~req'[x].grant.alone
        PROVE  FALSE
    <3>1. Uses(req[y], f) /\ ~Spent(f)
      BY <2>2 DEF Spent
    <3>2. req[y].pc # "granting"
      BY <3>1 DEF RotationInv
    <3> QED BY <2>2, <3>1, <3>2 DEF Uses, Granting
  <2> QED BY <1>3, <2>1, <2>2, UsesFrom
<1>4. ASSUME NEW r \in Requests, NEW s \in Tokens, Uses(req'[r], f), MadeFrom(s, f)',
             req'[r].grant.alone, session'[s].alone
      PROVE  FALSE
  <2>1. ASSUME MadeFrom(s, f), session'[s].alone = session[s].alone PROVE FALSE
    <3>1. Spent(f)
      BY <2>1 DEF RotationInv
    <3>2. Uses(req[r], f) /\ req'[r].grant = req[r].grant
      BY <1>4, <3>1, UsesFrom DEF Spent
    <3> QED BY <1>4, <2>1, <3>2 DEF RotationInv
  <2>2. ASSUME NEW p \in Requests, InsertSession(p, s) PROVE FALSE
    <3>1. r # p
      BY <1>4, <2>2, <1>c DEF Uses
    <3>2. /\ Uses(req[p], f) /\ req'[r] = req[r]
          /\ session'[s].alone = req[p].grant.alone
      BY <1>4, <2>2, <1>c, <3>1
    <3> QED BY <1>4, <3>1, <3>2 DEF RotationInv
  <2> QED BY <1>4, <1>b, <2>1, <2>2
<1>5. ASSUME NEW s \in Tokens, NEW t \in Tokens, s # t, MadeFrom(s, f)', MadeFrom(t, f)',
             session'[s].alone, session'[t].alone
      PROVE  FALSE
  <2>1. CASE /\ MadeFrom(s, f) /\ session'[s].alone = session[s].alone
             /\ MadeFrom(t, f) /\ session'[t].alone = session[t].alone
    BY <1>5, <2>1 DEF RotationInv
  <2>2. ASSUME NEW x \in Tokens, NEW y \in Tokens, x # y, MadeFrom(x, f)', MadeFrom(y, f)',
               session'[x].alone, session'[y].alone,
               NEW p \in Requests, InsertSession(p, x)
        PROVE  FALSE
    <3>1. /\ Uses(req[p], f) /\ req[p].grant.alone /\ session'[y] = session[y]
      BY <2>2, <1>c
    <3>2. MadeFrom(y, f) /\ session[y].alone
      BY <2>2, <3>1 DEF MadeFrom
    <3> QED BY <3>1, <3>2 DEF RotationInv
  <2> QED BY <1>5, <1>b, <2>1, <2>2
<1> QED BY <1>1, <1>2, <1>3, <1>4, <1>5

\* Of the sessions made from one refresh token all but one come from requests
\* that met another at it, for every instance.
THEOREM RotationsOverlap == Spec => []RotationOverlaps
<1>1. Spec => []RotationInv
  BY RotationInit, RotationStep, TypedAlways, PTL DEF Spec
<1>2. Typed /\ RotationInv => RotationOverlaps
  <2> SUFFICES ASSUME Typed, RotationInv, NEW s \in Tokens, NEW t \in Tokens, s # t,
                      session[s] # Absent, session[t] # Absent,
                      session[s].from = session[t].from, session[s].from # "LOGIN"
               PROVE  ~session[s].alone \/ ~session[t].alone
    BY DEF RotationOverlaps
  <2>1. session[s] \in Session
    BY RowsReal DEF Typed
  <2>2. session[s].from \in Tokens \ {"LOGIN"}
    BY <2>1 DEF Session
  <2> QED BY <2>2 DEF RotationInv, MadeFrom
<1> QED BY <1>1, <1>2, TypedAlways, PTL

-----------------------------------------------------------------------------
\* A request is about to make a reset link for u; a usable one is stored.
Makes(q, u) == q.pc = "linking" /\ q.user = u
ResetLink(l, u) ==
  /\ link[l] # Absent /\ link[l].user = u
  /\ link[l].type = "PASSWORD_RESET" /\ link[l].usable

\* Of the requests that are making a link for a user and of the usable links
\* the user has, two never both met nobody.
LinkInv ==
  \A u \in Users :
    /\ \A q, r \in Requests : q # r /\ Makes(req[q], u) /\ Makes(req[r], u)
         => ~req[q].alone \/ ~req[r].alone
    /\ \A r \in Requests, l \in Links : Makes(req[r], u) /\ ResetLink(l, u)
         => ~req[r].alone \/ ~link[l].alone
    /\ \A l, m \in Links : l # m /\ ResetLink(l, u) /\ ResetLink(m, u)
         => ~link[l].alone \/ ~link[m].alone

LEMMA LinkInit == Init => LinkInv
  BY DEF Init, LinkInv, Makes, ResetLink, Idle

\* A request that is making a link after a step was making it before, or has
\* just invalidated the older ones.
LEMMA MakesFrom ==
  ASSUME Typed, [Next]_vars, NEW r \in Requests, NEW u \in Users, Makes(req'[r], u)
  PROVE  \/ req'[r] = req[r]
         \/ /\ link' = Invalidated(u)
            /\ \A q \in Requests \ {r} :
                 req'[q] = req[q] /\ (Makes(req[q], u) => ~req'[r].alone)
<1>0. TypeOK
  BY DEF Typed
<1> SUFFICES ASSUME req'[r] # req[r]
             PROVE  /\ link' = Invalidated(u)
                    /\ \A q \in Requests \ {r} :
                         req'[q] = req[q] /\ (Makes(req[q], u) => ~req'[r].alone)
  OBVIOUS
<1>a. ASSUME NEW q \in Requests, NEW state, Goto(q, state)
      PROVE  q = r /\ req'[r] = state /\ \A p \in Requests \ {r} : req'[p] = req[p]
  BY <1>0, <1>a DEF Goto, TypeOK
<1>b. ASSUME NEW q \in Requests, NEW state, Goto(q, state), state.pc # "linking" PROVE FALSE
  BY <1>a, <1>b DEF Makes
<1>1. ASSUME NEW q \in Requests, NEW v \in Users, Forget(q, v)
      PROVE  /\ link' = Invalidated(u)
             /\ \A p \in Requests \ {r} :
                  req'[p] = req[p] /\ (Makes(req[p], u) => ~req'[r].alone)
  <2> DEFINE nobody == \A p \in Others(q) : p.pc = "linking" => p.user # v
  <2>1. Goto(q, [pc |-> "linking", user |-> v, alone |-> nobody])
    BY <1>1 DEF Forget
  <2>2. ASSUME NEW p \in Requests \ {q}, Makes(req[p], v) PROVE ~nobody
    BY <2>2 DEF Others, Makes
  <2> HIDE DEF nobody
  <2>3. q = r /\ req'[r] = [pc |-> "linking", user |-> v, alone |-> nobody]
        /\ \A p \in Requests \ {r} : req'[p] = req[p]
    BY <1>a, <2>1
  <2>4. v = u /\ req'[r].alone = nobody
    BY <2>3 DEF Makes
  <2> QED BY <1>1, <2>2, <2>3, <2>4 DEF Forget
<1>2. ASSUME NEW q \in Requests, NEW u2 \in Users, BeginRegister(q, u2) \/ CheckLogin(q, u2)
      PROVE  FALSE
  BY <1>b, <1>2 DEF BeginRegister, CheckLogin
<1>3. ASSUME NEW q \in Requests, NEW s \in Tokens, InsertSession(q, s) \/ CheckRefresh(q, s)
      PROVE  FALSE
  BY <1>b, <1>3 DEF InsertSession, CheckRefresh, Idle
<1>4. ASSUME NEW q \in Requests, NEW l \in Links,
             InsertWelcome(q, l) \/ InsertLink(q, l) \/ CheckLink(q, l)
      PROVE  FALSE
  BY <1>b, <1>4 DEF InsertWelcome, InsertLink, CheckLink, Idle
<1>5. ASSUME NEW q \in Requests,
             InsertUser(q) \/ CommitReset(q) \/ CommitVerify(q) \/ Lose(q)
      PROVE  FALSE
  BY <1>b, <1>5 DEF InsertUser, CommitReset, CommitVerify, Lose, Idle
<1>6. ASSUME NEW q \in Requests, RevokeOld(q) PROVE FALSE
  <2>1. req[q] \in [pc: {"revoking", "granting"}, grant: Grant]
    BY <1>0, <1>6, RequestFields DEF RevokeOld, TypeOK
  <2>2. [req[q] EXCEPT !.pc = "granting"].pc # "linking"
    BY <2>1
  <2> QED BY <1>b, <1>6, <2>2 DEF RevokeOld
<1> QED BY <1>1, <1>2, <1>3, <1>4, <1>5, <1>6 DEF Next, vars, Logout, ChangeRole

\* A usable reset link after a step was one before, or was inserted by a
\* request that was making it.
LEMMA ResetLinkFrom ==
  ASSUME Typed, [Next]_vars, NEW l \in Links, NEW u \in Users, ResetLink(l, u)'
  PROVE  \/ ResetLink(l, u) /\ link'[l].alone = link[l].alone
         \/ \E r \in Requests :
              /\ Makes(req[r], u) /\ req'[r].pc # "linking"
              /\ link'[l].alone = req[r].alone
              /\ \A q \in Requests \ {r} : req'[q] = req[q]
              /\ \A m \in Links \ {l} : link'[m] = link[m]
<1>0. TypeOK /\ LinksKept
  BY RowsKept DEF Typed
<1>1. CASE link[l] # Absent
  BY <1>0, <1>1 DEF LinksKept, ResetLink
<1>2. CASE link[l] = Absent
  <2>1. ASSUME NEW r \in Requests, NEW m \in Links, InsertLink(r, m)
        PROVE  /\ Makes(req[r], u) /\ req'[r].pc # "linking"
               /\ link'[l].alone = req[r].alone
               /\ \A q \in Requests \ {r} : req'[q] = req[q]
               /\ \A k \in Links \ {l} : link'[k] = link[k]
    <3>1. m = l
      BY <1>0, <1>2, <2>1 DEF InsertLink, ResetLink, TypeOK
    <3>2. /\ link'[l].user = req[r].user /\ link'[l].alone = req[r].alone
          /\ \A k \in Links \ {l} : link'[k] = link[k]
      BY <1>0, <2>1, <3>1 DEF InsertLink, TypeOK
    <3>3. req'[r].pc # "linking" /\ \A q \in Requests \ {r} : req'[q] = req[q]
      BY <1>0, <2>1 DEF InsertLink, Goto, TypeOK, Idle
    <3> QED BY <2>1, <3>2, <3>3 DEF InsertLink, ResetLink, Makes
  <2>2. ASSUME NEW r \in Requests, NEW m \in Links, InsertWelcome(r, m) PROVE FALSE
    BY <1>0, <1>2, <2>2 DEF InsertWelcome, ResetLink, TypeOK
  <2>3. ASSUME NEW r \in Requests, NEW v \in Users, Forget(r, v) PROVE FALSE
    <3>1. l \notin LinksOf(v)
      BY <1>0, <1>2, RowsReal DEF LinksOf
    <3> QED BY <1>2, <2>3, <3>1 DEF Forget, Invalidated, ResetLink
  <2>4. ASSUME NEW r \in Requests, CommitReset(r) \/ CommitVerify(r) PROVE FALSE
    <3>1. PICK m \in Links : m = req[r].link
      BY <1>0, <2>4, RequestFields DEF CommitReset, CommitVerify, TypeOK
    <3>2. link[m] # Absent
      BY <2>4, <3>1 DEF CommitReset, CommitVerify, Typed, Found
    <3> QED BY <1>0, <1>2, <2>4, <3>1, <3>2 DEF CommitReset, CommitVerify, ResetLink, TypeOK
  <2>5. CASE UNCHANGED link
    BY <1>2, <2>5 DEF ResetLink
  <2> QED BY <2>1, <2>2, <2>3, <2>4, <2>5
          DEF Next, vars, BeginRegister, CheckLogin, InsertSession, CheckRefresh, CheckLink,
              InsertUser, RevokeOld, Lose, Logout, ChangeRole
<1> QED BY <1>1, <1>2

LEMMA LinkStep == Typed /\ LinkInv /\ [Next]_vars => LinkInv'
<1> SUFFICES ASSUME Typed, LinkInv, [Next]_vars, NEW u \in Users
             PROVE
    /\ \A q, r \in Requests : q # r /\ Makes(req'[q], u) /\ Makes(req'[r], u)
         => ~req'[q].alone \/ ~req'[r].alone
    /\ \A r \in Requests, l \in Links : Makes(req'[r], u) /\ ResetLink(l, u)'
         => ~req'[r].alone \/ ~link'[l].alone
    /\ \A l, m \in Links : l # m /\ ResetLink(l, u)' /\ ResetLink(m, u)'
         => ~link'[l].alone \/ ~link'[m].alone
  BY DEF LinkInv, Makes
<1>0. TypeOK
  BY DEF Typed
<1>1. ASSUME NEW q \in Requests, NEW r \in Requests, q # r,
             Makes(req'[q], u), Makes(req'[r], u), req'[q].alone, req'[r].alone
      PROVE  FALSE
  BY <1>1, MakesFrom DEF LinkInv
<1>2. ASSUME NEW r \in Requests, NEW l \in Links, Makes(req'[r], u), ResetLink(l, u)',
             req'[r].alone, link'[l].alone
      PROVE  FALSE
  <2>1. CASE link' = Invalidated(u)
    <3>1. CASE l \in LinksOf(u) /\ link[l].type = "PASSWORD_RESET"
      <4>1. link[l] \in Link
        BY <1>0, <3>1, RowsReal DEF LinksOf
      <4>2. link'[l] = [link[l] EXCEPT !.usable = FALSE]
        BY <2>1, <3>1 DEF Invalidated
      <4> QED BY <1>2, <4>1, <4>2 DEF ResetLink, Link
    <3>2. CASE ~(l \in LinksOf(u) /\ link[l].type = "PASSWORD_RESET")
      BY <1>2, <2>1, <3>2 DEF Invalidated, ResetLink, LinksOf
    <3> QED BY <3>1, <3>2
  <2>2. CASE req'[r] = req[r]
    BY <1>2, <2>2, ResetLinkFrom DEF LinkInv, Makes
  <2> QED BY <1>2, <2>1, <2>2, MakesFrom
<1>3. ASSUME NEW l \in Links, NEW m \in Links, l # m, ResetLink(l, u)', ResetLink(m, u)',
             link'[l].alone, link'[m].alone
      PROVE  FALSE
  <2>1. CASE /\ ResetLink(l, u) /\ link'[l].alone = link[l].alone
             /\ ResetLink(m, u) /\ link'[m].alone = link[m].alone
    BY <1>3, <2>1 DEF LinkInv
  <2>2. ASSUME NEW x \in Links, NEW y \in Links, x # y, ResetLink(y, u)',
               link'[x].alone, link'[y].alone, NEW r \in Requests,
               Makes(req[r], u), link'[x].alone = req[r].alone,
               \A k \in Links \ {x} : link'[k] = link[k]
        PROVE  FALSE
    <3>1. ResetLink(y, u) /\ link[y].alone
      BY <2>2 DEF ResetLink
    <3> QED BY <2>2, <3>1 DEF LinkInv
  <2> QED BY <1>3, <2>1, <2>2, ResetLinkFrom
<1> QED BY <1>1, <1>2, <1>3

\* Of the usable reset links of a user all but one come from requests that met
\* another making one, for every instance.
THEOREM ResetLinksOverlap == Spec => []OneResetLink
<1>1. Spec => []LinkInv
  BY LinkInit, LinkStep, TypedAlways, PTL DEF Spec
<1>2. Typed /\ LinkInv => OneResetLink
  <2> SUFFICES ASSUME Typed, LinkInv, NEW l \in Links, NEW m \in Links, l # m,
                      link[l] # Absent, link[m] # Absent, link[l].user = link[m].user,
                      link[l].type = "PASSWORD_RESET", link[m].type = "PASSWORD_RESET"
               PROVE  ~(link[l].usable /\ link[l].alone /\ link[m].usable /\ link[m].alone)
    BY DEF OneResetLink
  <2>1. link[l].user \in Users
    BY RowsReal DEF Typed
  <2> QED BY <2>1 DEF LinkInv, ResetLink
<1> QED BY <1>1, <1>2, TypedAlways, PTL
=============================================================================
