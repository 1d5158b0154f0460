------------------------------ MODULE Sessions ------------------------------
(***************************************************************************)
(* AuthService: users with their passwords, sessions (a row per refresh    *)
(* token, with the access token issued beside it) and verification tokens. *)
(* Every statement commits on its own, but for the two batches that        *)
(* consume a token.  An access token is not looked up anywhere: it carries *)
(* user and role until it expires.  Expiry needs no action: a token that   *)
(* has expired is one that is not used any more.  findUnique with          *)
(* `include` reads the user after the session; no request writes both, so  *)
(* one step stands for the two.  Register gives every new owner a tenant;  *)
(* its checks of the e-mail address are the look-up and the unique index.  *)
(* Hashes and signatures are library code.                                 *)
(***************************************************************************)
EXTENDS Access, Naturals, FiniteSets

CONSTANTS Users,      \* users that may register, one per e-mail address
          Tokens,     \* fresh refresh tokens, each the name of its session
          Links,      \* fresh verification tokens
          Requests,   \* slots for concurrently running HTTP requests
          Tenant,     \* user -> the tenant register makes for it
          NewRoles,   \* roles a change may give
          MaxVersion, \* bound: passwords of one user
          MaxChanges  \* bound: role changes of one user

ASSUME SessionsAssumption ==
  /\ NewRoles \subseteq Roles /\ MaxVersion \in Nat \ {0} /\ MaxChanges \in Nat
  /\ \A u \in Users : Tenant[u] # "NONE"
  /\ "NONE" \notin Users

VARIABLES password,  \* user -> version of the password, 0 before the INSERT
          role,      \* user -> users.role
          changes,   \* user -> how often the role was changed
          session,   \* refresh token -> its session, or Absent
          link,      \* verification token -> its row, or Absent
          req        \* request slot -> program counter and locals

accounts == <<password, role, changes>>
vars == <<accounts, session, link, req>>

-----------------------------------------------------------------------------
Absent == [user |-> "NONE"]
Idle == [pc |-> "idle"]

\* What was read when the credentials of a new session were checked: the role,
\* and for the history, what password was proved, whether it has been the
\* current one since, and whether nobody else was using the same refresh token.
Grant == [user: Users, role: Roles, proved: Nat, asOf: Nat, change: Nat,
          clean: BOOLEAN, from: Tokens \cup {"LOGIN"}, alone: BOOLEAN]

\* The session, with what its access token carries; live: not revoked.
Session == [user: Users, role: Roles, proved: Nat, change: Nat, clean: BOOLEAN,
            from: Tokens \cup {"LOGIN"}, alone: BOOLEAN,
            live: BOOLEAN]

Link == [user: Users, type: {"EMAIL_VERIFICATION", "PASSWORD_RESET"},
         usable: BOOLEAN, alone: BOOLEAN]

Request == {Idle}
  \cup [pc: {"registering", "welcoming"}, user: Users]
  \cup [pc: {"revoking", "granting"}, grant: Grant]
  \cup [pc: {"linking"}, user: Users, alone: BOOLEAN]
  \cup [pc: {"resetting", "verifying"}, link: Links]

Goto(r, s) == req' = [req EXCEPT ![r] = s]
Others(r) == {req[q] : q \in Requests \ {r}}

SessionsOf(u) == {s \in Tokens : session[s].user = u}
LinksOf(u) == {l \in Links : link[l].user = u}

Init ==
  /\ password = [u \in Users |-> 0]
  /\ role = [u \in Users |-> "OWNER"]
  /\ changes = [u \in Users |-> 0]
  /\ session = [s \in Tokens |-> Absent]
  /\ link = [l \in Links |-> Absent]
  /\ req = [r \in Requests |-> Idle]

\* generateTokens begins with what the caller has read.
Granted(u, roleRead, from, proved, clean, alone) ==
  [user |-> u, role |-> roleRead, proved |-> proved, asOf |-> password[u],
   change |-> changes[u], clean |-> clean, from |-> from, alone |-> alone]

\* generateTokens: signs the access token and inserts the session.
InsertSession(r, s) ==
  /\ req[r].pc = "granting"
  /\ session[s] = Absent
  /\ LET g == req[r].grant IN
       session' = [session EXCEPT ![s] =
         [user |-> g.user, role |-> g.role, proved |-> g.proved, change |-> g.change,
          clean |-> g.clean /\ password[g.user] = g.asOf, from |-> g.from,
          alone |-> g.alone, live |-> TRUE]]
  /\ Goto(r, Idle)
  /\ UNCHANGED <<accounts, link>>

\* register: the look-up of the address; the tenant and the hash follow ...
BeginRegister(r, u) ==
  /\ req[r] = Idle
  /\ password[u] = 0
  /\ Goto(r, [pc |-> "registering", user |-> u])
  /\ UNCHANGED <<accounts, session, link>>

\* ... the INSERT of the owner, which the index refuses a second time (the
\* tenant of that request then stays without a user) ...
InsertUser(r) ==
  LET u == req[r].user IN
  /\ req[r].pc = "registering"
  /\ \/ /\ password[u] = 0
        /\ password' = [password EXCEPT ![u] = 1]
        /\ Goto(r, [pc |-> "welcoming", user |-> u])
     \/ password[u] # 0 /\ Goto(r, Idle) /\ UNCHANGED password
  /\ UNCHANGED <<role, changes, session, link>>

\* ... and the link that verifies the address, with the row as inserted.
InsertWelcome(r, l) ==
  LET u == req[r].user IN
  /\ req[r].pc = "welcoming"
  /\ link[l] = Absent
  /\ link' = [link EXCEPT ![l] =
       [user |-> u, type |-> "EMAIL_VERIFICATION", usable |-> TRUE, alone |-> TRUE]]
  /\ Goto(r, [pc |-> "granting", grant |->
       [Granted(u, "OWNER", "LOGIN", 1, password[u] = 1, TRUE) EXCEPT !.change = 0]])
  /\ UNCHANGED <<accounts, session>>

\* login with the right password; any other is a stutter.
CheckLogin(r, u) ==
  /\ req[r] = Idle
  /\ password[u] # 0
  /\ Goto(r, [pc |-> "granting",
              grant |-> Granted(u, role[u], "LOGIN", password[u], TRUE, TRUE)])
  /\ UNCHANGED <<accounts, session, link>>

\* Mutant: the new token repeats the role of the old one.
RefreshedRoleOfToken(s) == session[s].role

RefreshedRole(s) == role[session[s].user]

\* refreshToken: the session is read with its user and checked ...
CheckRefresh(r, s) ==
  /\ req[r] = Idle
  /\ session[s] # Absent /\ session[s].live
  /\ LET alone == \A q \in Others(r) : q.pc = "revoking" => q.grant.from # s
     IN  Goto(r, [pc |-> "revoking", grant |->
           Granted(session[s].user, RefreshedRole(s), s, session[s].proved,
                   session[s].clean, alone)])
  /\ UNCHANGED <<accounts, session, link>>

\* Mutant: the refresh token stays valid.
RotatedNot(s) == session[s].live

Rotated(s) == FALSE

\* ... and revoked, whether or not somebody has done so meanwhile.
RevokeOld(r) ==
  /\ req[r].pc = "revoking"
  /\ LET s == req[r].grant.from
     IN  session' = [session EXCEPT ![s].live = Rotated(s)]
  /\ Goto(r, [req[r] EXCEPT !.pc = "granting"])
  /\ UNCHANGED <<accounts, link>>

\* logout: with an access token, of a refresh token of the same user.
Logout(a, s) ==
  /\ session[a] # Absent
  /\ s \in SessionsOf(session[a].user)
  /\ session' = [session EXCEPT ![s].live = FALSE]
  /\ UNCHANGED <<accounts, link, req>>

\* Mutant: older links stay usable.
InvalidatedNone(u) == link

Invalidated(u) ==
  [l \in Links |-> IF l \in LinksOf(u) /\ link[l].type = "PASSWORD_RESET"
                   THEN [link[l] EXCEPT !.usable = FALSE] ELSE link[l]]

\* forgotPassword: older links are invalidated ...
Forget(r, u) ==
  /\ req[r] = Idle
  /\ password[u] # 0
  /\ link' = Invalidated(u)
  /\ Goto(r, [pc |-> "linking", user |-> u,
              alone |-> \A q \in Others(r) : q.pc = "linking" => q.user # u])
  /\ UNCHANGED <<accounts, session>>

\* ... and a new one is made.
InsertLink(r, l) ==
  /\ req[r].pc = "linking"
  /\ link[l] = Absent
  /\ link' = [link EXCEPT ![l] = [user |-> req[r].user, type |-> "PASSWORD_RESET",
                                  usable |-> TRUE, alone |-> req[r].alone]]
  /\ Goto(r, Idle)
  /\ UNCHANGED <<accounts, session>>

\* resetPassword and verifyEmail read the token and check it ...
CheckLink(r, l) ==
  /\ req[r] = Idle
  /\ link[l] # Absent /\ link[l].usable
  /\ Goto(r, [pc |-> IF link[l].type = "PASSWORD_RESET" THEN "resetting" ELSE "verifying",
              link |-> l])
  /\ UNCHANGED <<accounts, session, link>>

\* Mutant: only the sessions opened by a login are revoked.
EndedLogins(u) ==
  [s \in Tokens |-> IF s \in SessionsOf(u) /\ session[s].from = "LOGIN"
                    THEN [session[s] EXCEPT !.live = FALSE] ELSE session[s]]

Ended(u) ==
  [s \in Tokens |-> IF s \in SessionsOf(u)
                    THEN [session[s] EXCEPT !.live = FALSE] ELSE session[s]]

\* ... hash the password, and in one batch store it, consume the token and
\* revoke the sessions ...
CommitReset(r) ==
  LET u == link[req[r].link].user IN
  /\ req[r].pc = "resetting"
  /\ password[u] < MaxVersion
  /\ password' = [password EXCEPT ![u] = @ + 1]
  /\ link' = [link EXCEPT ![req[r].link].usable = FALSE]
  /\ session' = Ended(u)
  /\ Goto(r, Idle)
  /\ UNCHANGED <<role, changes>>

\* ... or set isEmailVerified, which nothing reads, and consume the token.
CommitVerify(r) ==
  /\ req[r].pc = "verifying"
  /\ link' = [link EXCEPT ![req[r].link].usable = FALSE]
  /\ Goto(r, Idle)
  /\ UNCHANGED <<accounts, session>>

\* PATCH /users/:id/role, with the role the access token carries.
ChangeRole(a, u, new) ==
  /\ session[a] # Absent
  /\ Permits(session[a].role, "user.update")
  /\ password[u] # 0 /\ changes[u] < MaxChanges
  /\ Reaches(Tenant[session[a].user], "User", "update", Tenant[u])
  /\ role' = [role EXCEPT ![u] = new]
  /\ changes' = [changes EXCEPT ![u] = @ + 1]
  /\ UNCHANGED <<password, session, link, req>>

\* The process dies or the database fails: nothing more of the request happens.
Lose(r) ==
  /\ req[r] # Idle
  /\ Goto(r, Idle)
  /\ UNCHANGED <<accounts, session, link>>

Next ==
  \/ \E r \in Requests, u \in Users : BeginRegister(r, u) \/ CheckLogin(r, u) \/ Forget(r, u)
  \/ \E r \in Requests, s \in Tokens : InsertSession(r, s) \/ CheckRefresh(r, s)
  \/ \E r \in Requests, l \in Links : InsertWelcome(r, l) \/ InsertLink(r, l) \/ CheckLink(r, l)
  \/ \E r \in Requests :
       InsertUser(r) \/ RevokeOld(r) \/ CommitReset(r) \/ CommitVerify(r) \/ Lose(r)
  \/ \E a, s \in Tokens : Logout(a, s)
  \/ \E a \in Tokens, u \in Users, new \in NewRoles : ChangeRole(a, u, new)

Spec == Init /\ [][Next]_vars

-----------------------------------------------------------------------------
\* Types: rows and requests carry only what the code can store or read.
TypeOK ==
  /\ password \in [Users -> 0..MaxVersion]
  /\ role \in [Users -> Roles]
  /\ changes \in [Users -> 0..MaxChanges]
  /\ session \in [Tokens -> Session \cup {Absent}]
  /\ link \in [Links -> Link \cup {Absent}]
  /\ req \in [Requests -> Request]

Live == {s \in Tokens : session[s] # Absent /\ session[s].live}

\* A reset ends the sessions: a session that can still be refreshed goes back,
\* through any number of refreshes, to a login with the present password, unless
\* the reset fell between the check and the INSERT of one of the requests on that way.
ResetEndsSessions ==
  \A s \in Live : session[s].clean => session[s].proved = password[session[s].user]

\* Rotation: of the sessions that were refreshed from one token, all but one
\* come from requests that found another request at work on the same token.
RotationOverlaps ==
  \A s, t \in Tokens :
    s # t /\ session[s] # Absent /\ session[t] # Absent
          /\ session[s].from = session[t].from /\ session[s].from # "LOGIN"
      => ~session[s].alone \/ ~session[t].alone

\* A changed role reaches a user with the next login or refresh: a token whose
\* request began after the last change carries the present role.
RolesFollow ==
  \A s \in Tokens : session[s] # Absent =>
    LET u == session[s].user
    IN  session[s].change = changes[u] => session[s].role = role[u]

\* One reset link at a time: of the usable links of a user, at most one was made
\* by a request that met no other that was making one.
OneResetLink ==
  \A l, m \in Links :
    l # m /\ link[l] # Absent /\ link[m] # Absent /\ link[l].user = link[m].user
          /\ link[l].type = "PASSWORD_RESET" /\ link[m].type = "PASSWORD_RESET"
      => ~(link[l].usable /\ link[l].alone /\ link[m].usable /\ link[m].alone)
=============================================================================
