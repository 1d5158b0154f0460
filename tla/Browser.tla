------------------------------ MODULE Browser ------------------------------
(***************************************************************************)
(* The web client's side of a session: the tokens all tabs of a browser    *)
(* share in localStorage, the user every tab keeps in AuthProvider, and    *)
(* what the two response interceptors, that of api-client.ts first, do     *)
(* with a 401.  They see the refresh call too: one that is refused is      *)
(* refreshed in its turn if another tab stored tokens in between.          *)
(* A handler runs to its end, but localStorage has no lock: another tab    *)
(* may write it between two handlers.  Assigning window.location only      *)
(* begins a navigation; scripts run until the new page loads.  A tab has   *)
(* one call in flight, with the refresh calls made for it.  No component   *)
(* calls the logout that useAuth offers.                                   *)
(***************************************************************************)
EXTENDS Naturals, Sequences, FiniteSets

CONSTANTS Tabs,     \* tabs of one browser
          Accounts, \* people who use it
          Pairs     \* fresh pairs of an access and a refresh token

ASSUME NamesAssumption == "NONE" \notin Pairs \cup Accounts /\ "CLOSED" \notin Accounts

VARIABLES stored,   \* the pair in localStorage, or "NONE"
          owner,    \* pair -> whom the API issued it to, or "NONE"
          valid,    \* pairs whose access token has not expired
          alive,    \* pairs whose refresh token is accepted
          user,     \* tab -> AuthProvider's user, "NONE", or "CLOSED" before it loads
          leaving,  \* tab -> a navigation to /login has begun
          timer,    \* tab -> the pair register will log in with, or "NONE"
          call,     \* tab -> its API call
          foreign   \* history: tab -> another tab wrote since it looked

server == <<owner, valid, alive>>
tabs == <<user, leaving, timer>>
vars == <<stored, server, tabs, call, foreign>>

-----------------------------------------------------------------------------
Held == Pairs \cup {"NONE"}
Idle == [pc |-> "idle"]

\* The calls that log in, and all others.
Asked == {"LOGIN", "REGISTER", "WORK"}

\* as: the pair whose access token was sent; again: _retry; both: AuthProvider's
\* interceptor was registered when the call was sent; asks: the refresh tokens of
\* the refresh calls made for it, the one in flight first, each for the next one;
\* held: what localStorage held when the 401 came; sends: how often the call
\* itself was sent, a history.
Call == {Idle} \cup
  [pc: {"sent", "refused"}, asked: Asked, as: Held, again: BOOLEAN, both: BOOLEAN,
   asks: Seq(Pairs), held: Held, sends: Nat]

At(t, pc) == call[t].pc = pc
Goto(t, c) == call' = [call EXCEPT ![t] = c]

\* A refresh call is in flight, or it is the call itself.
Refreshing(t) == call[t].asks # <<>>
Plain(t) == At(t, "sent") /\ ~Refreshing(t)
OwnerOf(p) == IF p = "NONE" THEN "NONE" ELSE owner[p]

\* Tab t writes localStorage; the others do not notice.
Write(t, p) ==
  /\ stored' = p
  /\ foreign' = [u \in Tabs |-> u # t \/ foreign[u]]

\* A pair is written together with the user it belongs to.
SignIn(t, p, a) ==
  /\ stored' = p
  /\ foreign' = [u \in Tabs |-> u # t]
  /\ user' = [user EXCEPT ![t] = a]

Init ==
  /\ stored = "NONE"
  /\ owner = [p \in Pairs |-> "NONE"]
  /\ valid = {} /\ alive = {}
  /\ user = [t \in Tabs |-> "CLOSED"]
  /\ leaving = [t \in Tabs |-> FALSE]
  /\ timer = [t \in Tabs |-> "NONE"]
  /\ call = [t \in Tabs |-> Idle]
  /\ foreign = [t \in Tabs |-> FALSE]

\* initializeAuth: the payload of the stored access token, expired or not.
InitialUser == OwnerOf(stored)

\* The request interceptor adds the stored token, whoever the tab shows.
Sent(asked, p, both) ==
  [pc |-> "sent", asked |-> asked, as |-> p, again |-> FALSE, both |-> both,
   asks |-> <<>>, held |-> "NONE", sends |-> 1]

\* The page loads, again after a navigation; what ran in the tab is gone.  Effects
\* of children run first: the interceptor of AuthProvider misses the calls they send.
Load(t, c) ==
  /\ user[t] = "CLOSED" \/ leaving[t]
  /\ ~At(t, "refused")
  /\ user' = [user EXCEPT ![t] = InitialUser]
  /\ leaving' = [leaving EXCEPT ![t] = FALSE]
  /\ timer' = [timer EXCEPT ![t] = "NONE"]
  /\ foreign' = [foreign EXCEPT ![t] = FALSE]
  /\ Goto(t, c)
  /\ UNCHANGED <<stored, server>>

Send(t, asked) ==
  /\ user[t] # "CLOSED" /\ ~leaving[t]
  /\ At(t, "idle")
  /\ Goto(t, Sent(asked, stored, TRUE))
  /\ UNCHANGED <<stored, server, tabs, foreign>>

Issue(p, a) ==
  /\ owner[p] = "NONE"
  /\ owner' = [owner EXCEPT ![p] = a]
  /\ valid' = valid \cup {p}

\* Any other answer than a 401 or new tokens, and none at all, changes nothing here.
Answer(t) ==
  /\ Plain(t)
  /\ Goto(t, Idle)
  /\ UNCHANGED <<stored, server, tabs, foreign>>

\* login/page.tsx: the tokens of the answer are used at once.
AnswerLogin(t, p, a) ==
  /\ Plain(t) /\ call[t].asked = "LOGIN"
  /\ Issue(p, a)
  /\ alive' = alive \cup {p}
  /\ SignIn(t, p, a)
  /\ Goto(t, Idle)
  /\ UNCHANGED <<leaving, timer>>

\* register/page.tsx: they are used 1.5 s later, wherever the tab is then.
AnswerRegister(t, p, a) ==
  /\ Plain(t) /\ call[t].asked = "REGISTER"
  /\ timer[t] = "NONE"
  /\ Issue(p, a)
  /\ alive' = alive \cup {p}
  /\ timer' = [timer EXCEPT ![t] = p]
  /\ Goto(t, Idle)
  /\ UNCHANGED <<stored, user, leaving, foreign>>

\* Mutant: the tokens are stored without the user.
TimerUserKept(t) == user[t]

TimerUser(t) == owner[timer[t]]

Timer(t) ==
  /\ timer[t] # "NONE"
  /\ ~At(t, "refused")
  /\ SignIn(t, timer[t], TimerUser(t))
  /\ timer' = [timer EXCEPT ![t] = "NONE"]
  /\ UNCHANGED <<server, leaving, call>>

\* A 401 is for a refresh token that is not accepted, a wrong password, or an
\* access token that expired.
Unauthorized(t) ==
  \/ Refreshing(t) /\ Head(call[t].asks) \notin alive
  \/ ~Refreshing(t) /\ call[t].asked = "LOGIN"
  \/ ~Refreshing(t) /\ call[t].asked = "WORK" /\ call[t].as \notin valid

\* The interceptor of api-client.ts runs first: it empties localStorage and begins
\* to leave; a call the other one missed ends here.
Refuse(t) ==
  /\ At(t, "sent") /\ Unauthorized(t)
  /\ Write(t, "NONE")
  /\ leaving' = [leaving EXCEPT ![t] = TRUE]
  /\ \/ call[t].both /\ Goto(t, [call[t] EXCEPT !.pc = "refused", !.held = stored])
     \/ ~call[t].both /\ Goto(t, Idle)
  /\ UNCHANGED <<server, user, timer>>

\* Mutant: _retry is not looked at.
RetryableAlways(t) == TRUE

Retryable(t) == ~call[t].again

\* logout of AuthProvider.
SignOut(t) ==
  /\ stored' = "NONE"
  /\ foreign' = [u \in Tabs |-> u # t]
  /\ user' = [user EXCEPT ![t] = "NONE"]

\* The interceptor of AuthProvider: a call that was retried is rejected, which signs
\* out when it was to refresh another; one that finds no refresh token signs out too, ...
Reject(t) ==
  /\ At(t, "refused")
  /\ \/ ~Retryable(t) /\ ~Refreshing(t) /\ UNCHANGED <<stored, user, foreign>>
     \/ ~Retryable(t) /\ Refreshing(t) /\ SignOut(t)
     \/ Retryable(t) /\ stored = "NONE" /\ SignOut(t)
  /\ Goto(t, Idle)
  /\ UNCHANGED <<server, leaving, timer>>

\* ... and any other asks for new tokens, even if it is a refresh call itself, ...
AskRefresh(t) ==
  /\ At(t, "refused")
  /\ Retryable(t) /\ stored # "NONE"
  /\ Goto(t, [call[t] EXCEPT !.pc = "sent", !.as = "NONE", !.held = "NONE",
                             !.asks = <<stored>> \o @])
  /\ UNCHANGED <<stored, server, tabs, foreign>>

\* ... stores them and sends again, once, the call they were for, ...
Refreshed(t, p) ==
  /\ At(t, "sent") /\ Refreshing(t)
  /\ Head(call[t].asks) \in alive
  /\ Issue(p, owner[Head(call[t].asks)])
  /\ alive' = (alive \ {Head(call[t].asks)}) \cup {p}
  /\ Write(t, p)
  /\ LET rest == Tail(call[t].asks) IN
     \/ rest = <<>> /\ Goto(t, [call[t] EXCEPT !.asks = rest, !.again = TRUE,
                                              !.as = p, !.sends = @ + 1])
     \/ rest # <<>> /\ Goto(t, [call[t] EXCEPT !.asks = rest, !.again = TRUE])
  /\ UNCHANGED tabs

\* ... or signs out: there was no answer, or another error.
NotRefreshed(t) ==
  /\ At(t, "sent") /\ Refreshing(t)
  /\ SignOut(t)
  /\ Goto(t, Idle)
  /\ UNCHANGED <<server, leaving, timer>>

\* An access token expires; a refresh token expires or is revoked.
Expire(p) == p \in valid /\ valid' = valid \ {p}
          /\ UNCHANGED <<stored, owner, alive, tabs, call, foreign>>
Revoke(p) == p \in alive /\ alive' = alive \ {p}
          /\ UNCHANGED <<stored, owner, valid, tabs, call, foreign>>

Next ==
  \/ \E t \in Tabs : \/ Load(t, Idle) \/ Load(t, Sent("WORK", stored, FALSE)) \/ Answer(t) \/ Timer(t) \/ Refuse(t)
                     \/ Reject(t) \/ AskRefresh(t) \/ NotRefreshed(t)
  \/ \E t \in Tabs, asked \in Asked : Send(t, asked)
  \/ \E t \in Tabs, p \in Pairs, a \in Accounts :
       AnswerLogin(t, p, a) \/ AnswerRegister(t, p, a)
  \/ \E t \in Tabs, p \in Pairs : Refreshed(t, p)
  \/ \E p \in Pairs : Expire(p) \/ Revoke(p)

Spec == Init /\ [][Next]_vars

-----------------------------------------------------------------------------
\* Types: localStorage, tabs and calls hold only what the client can put there.
TypeOK ==
  /\ stored \in Held
  /\ owner \in [Pairs -> Accounts \cup {"NONE"}]
  /\ valid \subseteq Pairs /\ alive \subseteq Pairs
  /\ user \in [Tabs -> Accounts \cup {"NONE", "CLOSED"}]
  /\ leaving \in [Tabs -> BOOLEAN]
  /\ timer \in [Tabs -> Held]
  /\ call \in [Tabs -> Call]
  /\ foreign \in [Tabs -> BOOLEAN]

\* What a tab shows is what it sends: unless it is on its way to the login page
\* or another tab wrote meanwhile, its user is the owner of the stored tokens.
ShownIsStored ==
  \A t \in Tabs : user[t] # "CLOSED" /\ ~leaving[t] /\ ~foreign[t]
    => user[t] = OwnerOf(stored)

\* No endless loop of 401s: however often refreshing is itself refused and refreshed
\* with tokens other tabs stored, a call is sent twice at most, and once it was sent
\* again nothing is refreshed for it any more.
NoRetryLoop ==
  \A t \in Tabs : ~At(t, "idle") =>
    call[t].sends <= 2 /\ (Refreshing(t) => call[t].sends = 1)

\* Violated by the code: "If any API request returns 401, the interceptor ...
\* hits the /auth/refresh endpoint using the stored refresh token"
\* (docs/authentication.md).
RefreshesOn401 ==
  [][\A t \in Tabs : At(t, "refused") /\ ~call[t].again /\ call[t].held \in alive
       => call'[t] = call[t] \/ (At(t, "sent") /\ Refreshing(t))']_vars
=============================================================================
