--------------------------- MODULE BrowserProofs ---------------------------
(***************************************************************************)
(* For any number of tabs, people and tokens: a tab shows whom it acts     *)
(* for, and no call is sent a third time.                                  *)
(***************************************************************************)
EXTENDS Browser, TLAPS

\* The refresh tokens a call carries.
Asks(t) == {call[t].asks[i] : i \in DOMAIN call[t].asks}

\* Tokens that are kept anywhere were issued to somebody.
Issued ==
  /\ stored # "NONE" => owner[stored] # "NONE"
  /\ \A t \in Tabs :
       /\ timer[t] # "NONE" => owner[timer[t]] # "NONE"
       /\ ~At(t, "idle") => \A q \in Asks(t) : owner[q] # "NONE"

\* A tab whose call was refused has begun to leave, and stays so while it refreshes.
RefusedLeave == \A t \in Tabs :
  At(t, "refused") \/ (At(t, "sent") /\ Refreshing(t)) => leaving[t]

\* A call is sent a second time only with _retry, once nothing is refreshed.
SentOnce == \A t \in Tabs : ~At(t, "idle") =>
  /\ call[t].sends \in {1, 2}
  /\ ~call[t].again \/ Refreshing(t) => call[t].sends = 1

BrowserInv == TypeOK /\ Issued /\ RefusedLeave /\ SentOnce /\ ShownIsStored

-----------------------------------------------------------------------------
\* What a call carries.
LEMMA CallFields ==
  ASSUME TypeOK, NEW t \in Tabs, ~At(t, "idle")
  PROVE  /\ call[t].pc \in {"sent", "refused"} /\ call[t].asked \in Asked
         /\ call[t].as \in Held /\ call[t].held \in Held
         /\ call[t].again \in BOOLEAN /\ call[t].both \in BOOLEAN
         /\ call[t].asks \in Seq(Pairs) /\ call[t].sends \in Nat
         /\ call[t] \in [pc: {"sent", "refused"}, asked: Asked, as: Held, again: BOOLEAN,
                         both: BOOLEAN, asks: Seq(Pairs), held: Held, sends: Nat]
  BY DEF TypeOK, Call, Idle, At

\* A call that goes on leaves the others alone.
LEMMA CallSet ==
  ASSUME TypeOK, NEW t \in Tabs, NEW c \in Call, Goto(t, c)
  PROVE  /\ call' \in [Tabs -> Call]
         /\ call'[t] = c
         /\ \A u \in Tabs \ {t} : call'[u] = call[u]
  BY DEF TypeOK, Goto

\* What becomes of a call that goes on: it is refused, sent again for another refresh
\* call, sent again itself, or waits for a refresh call.
BeRefused(c, p) == [c EXCEPT !.pc = "refused", !.held = p]
RefreshAgain(c, q) == [c EXCEPT !.asks = q, !.again = TRUE]
SendAgain(c, p, q, n) == [c EXCEPT !.asks = q, !.again = TRUE, !.as = p, !.sends = n]
AwaitTokens(c, q) == [c EXCEPT !.pc = "sent", !.as = "NONE", !.held = "NONE", !.asks = q]

\* It is a call still, with the fields changed.
LEMMA CallChanges ==
  ASSUME NEW c \in [pc: {"sent", "refused"}, asked: Asked, as: Held, again: BOOLEAN,
                    both: BOOLEAN, asks: Seq(Pairs), held: Held, sends: Nat],
         NEW p \in Held, NEW q \in Seq(Pairs), NEW n \in Nat
  PROVE  /\ BeRefused(c, p) \in Call
         /\ BeRefused(c, p).pc = "refused" /\ BeRefused(c, p).again = c.again
         /\ BeRefused(c, p).asks = c.asks /\ BeRefused(c, p).sends = c.sends
         /\ RefreshAgain(c, q) \in Call
         /\ RefreshAgain(c, q).pc = c.pc /\ RefreshAgain(c, q).again
         /\ RefreshAgain(c, q).asks = q /\ RefreshAgain(c, q).sends = c.sends
         /\ SendAgain(c, p, q, n) \in Call
         /\ SendAgain(c, p, q, n).pc = c.pc /\ SendAgain(c, p, q, n).again
         /\ SendAgain(c, p, q, n).asks = q /\ SendAgain(c, p, q, n).sends = n
         /\ AwaitTokens(c, q) \in Call
         /\ AwaitTokens(c, q).pc = "sent" /\ AwaitTokens(c, q).again = c.again
         /\ AwaitTokens(c, q).asks = q /\ AwaitTokens(c, q).sends = c.sends
<1>0. "NONE" \in Held
  BY DEF Held
<1>1. /\ BeRefused(c, p) \in Call
      /\ BeRefused(c, p).pc = "refused" /\ BeRefused(c, p).again = c.again
      /\ BeRefused(c, p).asks = c.asks /\ BeRefused(c, p).sends = c.sends
  BY DEF BeRefused, Call
<1>2. /\ RefreshAgain(c, q) \in Call
      /\ RefreshAgain(c, q).pc = c.pc /\ RefreshAgain(c, q).again
      /\ RefreshAgain(c, q).asks = q /\ RefreshAgain(c, q).sends = c.sends
  BY DEF RefreshAgain, Call
<1>3. /\ SendAgain(c, p, q, n) \in Call
      /\ SendAgain(c, p, q, n).pc = c.pc /\ SendAgain(c, p, q, n).again
      /\ SendAgain(c, p, q, n).asks = q /\ SendAgain(c, p, q, n).sends = n
  BY DEF SendAgain, Call
<1>4. /\ AwaitTokens(c, q) \in Call
      /\ AwaitTokens(c, q).pc = "sent" /\ AwaitTokens(c, q).again = c.again
      /\ AwaitTokens(c, q).asks = q /\ AwaitTokens(c, q).sends = c.sends
  BY <1>0 DEF AwaitTokens, Call
<1> QED BY <1>1, <1>2, <1>3, <1>4

\* The forms a call can take.
LEMMA CallForms ==
  /\ Idle \in Call
  /\ \A asked \in Asked, as \in Held, both \in BOOLEAN : Sent(asked, as, both) \in Call
  /\ \A pc \in {"sent", "refused"}, asked \in Asked, as \in Held, held \in Held,
        again \in BOOLEAN, both \in BOOLEAN, asks \in Seq(Pairs), sends \in Nat :
       [pc |-> pc, asked |-> asked, as |-> as, again |-> again, both |-> both,
        asks |-> asks, held |-> held, sends |-> sends] \in Call
<1>1. <<>> \in Seq(Pairs) /\ "NONE" \in Held /\ 1 \in Nat
  BY DEF Held
<1> QED BY <1>1 DEF Call, Sent

\* The refresh call in flight and those below it were made with issued tokens.
LEMMA AskedTokens ==
  ASSUME TypeOK, NEW t \in Tabs, ~At(t, "idle"), Refreshing(t)
  PROVE  /\ Head(call[t].asks) \in Pairs /\ Head(call[t].asks) \in Asks(t)
         /\ Tail(call[t].asks) \in Seq(Pairs)
         /\ \A i \in DOMAIN Tail(call[t].asks) : Tail(call[t].asks)[i] \in Asks(t)
<1>1. call[t].asks \in Seq(Pairs) /\ call[t].asks # <<>>
  BY CallFields DEF Refreshing
<1>2. \A q \in Seq(Pairs) : q # <<>> =>
        /\ 1 \in DOMAIN q /\ Head(q) = q[1] /\ Head(q) \in Pairs /\ Tail(q) \in Seq(Pairs)
        /\ \A i \in DOMAIN Tail(q) : i + 1 \in DOMAIN q /\ Tail(q)[i] = q[i + 1]
  OBVIOUS
<1> QED BY <1>1, <1>2 DEF Asks

\* They are pairs.
LEMMA AsksIssued ==
  ASSUME TypeOK, NEW t \in Tabs, ~At(t, "idle")
  PROVE  Asks(t) \subseteq Pairs
<1>1. call[t].asks \in Seq(Pairs)
  BY CallFields
<1> QED BY <1>1 DEF Asks

\* A refresh call is made for those in flight.
LEMMA PushedTokens ==
  ASSUME NEW q \in Seq(Pairs), NEW p \in Pairs
  PROVE  /\ <<p>> \o q \in Seq(Pairs) /\ <<p>> \o q # <<>>
         /\ \A i \in DOMAIN (<<p>> \o q) :
              (<<p>> \o q)[i] = p \/ \E j \in DOMAIN q : (<<p>> \o q)[i] = q[j]
<1>1. \A i \in DOMAIN (<<p>> \o q) : i = 1 \/ (i - 1 \in DOMAIN q /\ (<<p>> \o q)[i] = q[i - 1])
  OBVIOUS
<1>2. (<<p>> \o q)[1] = p
  OBVIOUS
<1> QED BY <1>1, <1>2

\* What is known of a pair has an owner once it is issued, and keeps it.
LEMMA IssueKeeps ==
  ASSUME TypeOK, NEW p \in Pairs, NEW a \in Accounts, Issue(p, a)
  PROVE  /\ owner' \in [Pairs -> Accounts \cup {"NONE"}]
         /\ valid' \subseteq Pairs
         /\ owner'[p] = a /\ a # "NONE"
         /\ \A q \in Pairs : owner[q] # "NONE" => owner'[q] = owner[q]
  BY NamesAssumption DEF TypeOK, Issue

\* A step of the call of one tab that touches neither tokens nor users.
LEMMA CallStep ==
  ASSUME BrowserInv, UNCHANGED <<stored, server, tabs, foreign>>,
         NEW t \in Tabs, NEW c \in Call, Goto(t, c),
         c.pc = "idle" \/
           /\ c.pc = "refused" \/ c.asks # <<>> => leaving[t]
           /\ c.sends \in {1, 2} /\ (~c.again \/ c.asks # <<>> => c.sends = 1)
           /\ \A i \in DOMAIN c.asks : owner[c.asks[i]] # "NONE"
  PROVE  BrowserInv'
<1>1. /\ call' \in [Tabs -> Call] /\ call'[t] = c
      /\ \A u \in Tabs \ {t} : call'[u] = call[u]
  BY CallSet DEF BrowserInv
<1>2. TypeOK'
  BY <1>1 DEF BrowserInv, TypeOK, server, tabs
<1>3. Issued'
  BY <1>1 DEF BrowserInv, Issued, Asks, At, server, tabs
<1>4. RefusedLeave'
  BY <1>1 DEF BrowserInv, RefusedLeave, Refreshing, At, tabs
<1>5. SentOnce'
  BY <1>1 DEF BrowserInv, SentOnce, Refreshing, At
<1>6. ShownIsStored'
  BY DEF BrowserInv, ShownIsStored, OwnerOf, server, tabs
<1> QED BY <1>2, <1>3, <1>4, <1>5, <1>6 DEF BrowserInv

\* A tab that writes a pair with the user it belongs to shows that user, and
\* the others are told apart by foreign.
LEMMA SignInShows ==
  ASSUME BrowserInv, NEW t \in Tabs, NEW p \in Held, NEW a \in Accounts \cup {"NONE"},
         stored' = p, user' = [user EXCEPT ![t] = a],
         foreign' = [u \in Tabs |-> u # t],
         OwnerOf(p)' = a
  PROVE  /\ ShownIsStored' /\ user' \in [Tabs -> Accounts \cup {"NONE", "CLOSED"}]
         /\ stored' \in Held /\ foreign' \in [Tabs -> BOOLEAN]
<1>1. user'[t] = a /\ \A u \in Tabs \ {t} : foreign'[u]
  BY DEF BrowserInv, TypeOK
<1>2. ShownIsStored'
  BY <1>1 DEF ShownIsStored, OwnerOf
<1> QED BY <1>2 DEF BrowserInv, TypeOK

\* The page of a tab loads.
LEMMA LoadStep ==
  ASSUME BrowserInv, NEW t \in Tabs, NEW c \in {Idle, Sent("WORK", stored, FALSE)}, Load(t, c)
  PROVE  BrowserInv'
<1>0. TypeOK /\ UNCHANGED <<stored, owner, valid, alive>>
  BY DEF BrowserInv, Load, server
<1>1. c \in Call /\ (c.pc = "idle" \/ (c.pc = "sent" /\ c.asks = <<>> /\ c.sends = 1))
  <2>1. "WORK" \in Asked /\ stored \in Held /\ FALSE \in BOOLEAN
    BY <1>0 DEF Asked, TypeOK
  <2>2. Idle \in Call /\ Sent("WORK", stored, FALSE) \in Call
    BY <2>1, CallForms
  <2>3. /\ Idle.pc = "idle" /\ Sent("WORK", stored, FALSE).pc = "sent"
        /\ Sent("WORK", stored, FALSE).asks = <<>> /\ Sent("WORK", stored, FALSE).sends = 1
    BY DEF Idle, Sent
  <2> QED BY <2>2, <2>3
<1>2. /\ call' \in [Tabs -> Call] /\ call'[t] = c
      /\ \A u \in Tabs \ {t} : call'[u] = call[u]
  BY <1>0, <1>1, CallSet DEF Load
<1>3. InitialUser \in Accounts \cup {"NONE"}
  BY <1>0 DEF TypeOK, InitialUser, OwnerOf, Held
<1>4. TypeOK'
  BY <1>0, <1>2, <1>3 DEF Load, TypeOK, Held
<1>5. Issued'
  BY <1>0, <1>1, <1>2 DEF Load, BrowserInv, Issued, Asks, At, TypeOK
<1>6. RefusedLeave'
  BY <1>0, <1>1, <1>2 DEF Load, BrowserInv, RefusedLeave, Refreshing, At, TypeOK
<1>7. SentOnce'
  BY <1>1, <1>2 DEF BrowserInv, SentOnce, Refreshing, At
<1>8. ShownIsStored'
  BY <1>0 DEF Load, BrowserInv, ShownIsStored, OwnerOf, InitialUser, TypeOK
<1> QED BY <1>4, <1>5, <1>6, <1>7, <1>8 DEF BrowserInv

\* The tokens of a login are stored and shown at once.
LEMMA LoginStep ==
  ASSUME BrowserInv, NEW t \in Tabs, NEW p \in Pairs, NEW a \in Accounts, AnswerLogin(t, p, a)
  PROVE  BrowserInv'
<1>0. TypeOK /\ UNCHANGED <<leaving, timer>>
  BY DEF BrowserInv, AnswerLogin
<1>1. /\ call' \in [Tabs -> Call] /\ call'[t] = Idle
      /\ \A u \in Tabs \ {t} : call'[u] = call[u]
  BY <1>0, CallSet, CallForms DEF AnswerLogin
<1>2. /\ owner' \in [Pairs -> Accounts \cup {"NONE"}] /\ valid' \subseteq Pairs
      /\ owner'[p] = a /\ a # "NONE"
      /\ \A q \in Pairs : owner[q] # "NONE" => owner'[q] = owner[q]
  BY <1>0, IssueKeeps DEF AnswerLogin
<1>3. p \in Held /\ OwnerOf(p)' = a
  BY <1>2, NamesAssumption DEF OwnerOf, Held
<1>4. /\ ShownIsStored' /\ user' \in [Tabs -> Accounts \cup {"NONE", "CLOSED"}]
      /\ stored' \in Held /\ foreign' \in [Tabs -> BOOLEAN]
  BY <1>3, SignInShows DEF AnswerLogin, SignIn
<1>5. TypeOK'
  BY <1>0, <1>1, <1>2, <1>4 DEF TypeOK, AnswerLogin
<1>6. Issued'
  <2>1. stored' = p
    BY DEF AnswerLogin, SignIn
  <2>2. ASSUME NEW u \in Tabs
        PROVE  /\ timer'[u] # "NONE" => owner'[timer'[u]] # "NONE"
               /\ ~At(u, "idle")' => \A q \in Asks(u)' : owner'[q] # "NONE"
    <3>1. timer[u] \in Held
      BY <1>0 DEF TypeOK
    <3>2. timer[u] # "NONE" => owner'[timer[u]] # "NONE"
      BY <1>2, <3>1 DEF BrowserInv, Issued, Held
    <3>3. ~At(u, "idle")' => ~At(u, "idle") /\ Asks(u)' = Asks(u)
      BY <1>1 DEF At, Idle, Asks
    <3>4. ~At(u, "idle") => \A q \in Asks(u) : owner'[q] # "NONE"
      BY <1>0, <1>2, AsksIssued DEF BrowserInv, Issued
    <3> QED BY <1>0, <3>2, <3>3, <3>4
  <2> QED BY <1>2, <2>1, <2>2 DEF Issued
<1>7. RefusedLeave' /\ SentOnce'
  BY <1>0, <1>1 DEF BrowserInv, RefusedLeave, SentOnce, Refreshing, At, Idle
<1> QED BY <1>4, <1>5, <1>6, <1>7 DEF BrowserInv

\* The tokens of a registration wait for a timer.
LEMMA RegisterStep ==
  ASSUME BrowserInv, NEW t \in Tabs, NEW p \in Pairs, NEW a \in Accounts,
         AnswerRegister(t, p, a)
  PROVE  BrowserInv'
<1>0. TypeOK /\ UNCHANGED <<stored, user, leaving, foreign>>
  BY DEF BrowserInv, AnswerRegister
<1>1. /\ call' \in [Tabs -> Call] /\ call'[t] = Idle
      /\ \A u \in Tabs \ {t} : call'[u] = call[u]
  BY <1>0, CallSet, CallForms DEF AnswerRegister
<1>2. /\ owner' \in [Pairs -> Accounts \cup {"NONE"}] /\ valid' \subseteq Pairs
      /\ owner'[p] = a /\ a # "NONE"
      /\ \A q \in Pairs : owner[q] # "NONE" => owner'[q] = owner[q]
  BY <1>0, IssueKeeps DEF AnswerRegister
<1>3. timer' \in [Tabs -> Held] /\ timer'[t] = p /\ \A u \in Tabs \ {t} : timer'[u] = timer[u]
  BY <1>0 DEF AnswerRegister, TypeOK, Held
<1>4. TypeOK'
  BY <1>0, <1>1, <1>2, <1>3 DEF TypeOK, AnswerRegister
<1>5. stored # "NONE" => owner'[stored] = owner[stored] /\ owner'[stored] # "NONE"
  BY <1>0, <1>2 DEF BrowserInv, Issued, TypeOK, Held
<1>6. Issued'
  <2>1. ASSUME NEW u \in Tabs
        PROVE  /\ timer'[u] # "NONE" => owner'[timer'[u]] # "NONE"
               /\ ~At(u, "idle")' => \A q \in Asks(u)' : owner'[q] # "NONE"
    <3>1. timer[u] \in Held
      BY <1>0 DEF TypeOK
    <3>2. timer[u] # "NONE" => owner'[timer[u]] # "NONE"
      BY <1>2, <3>1 DEF BrowserInv, Issued, Held
    <3>3. ~At(u, "idle")' => ~At(u, "idle") /\ Asks(u)' = Asks(u)
      BY <1>1 DEF At, Idle, Asks
    <3>4. ~At(u, "idle") => \A q \in Asks(u) : owner'[q] # "NONE"
      BY <1>0, <1>2, AsksIssued DEF BrowserInv, Issued
    <3>5. timer'[u] # "NONE" => owner'[timer'[u]] # "NONE"
      BY <1>2, <1>3, <3>2
    <3> QED BY <3>3, <3>4, <3>5
  <2> QED BY <1>0, <1>5, <2>1 DEF Issued
<1>7. RefusedLeave' /\ SentOnce'
  BY <1>0, <1>1 DEF BrowserInv, RefusedLeave, SentOnce, Refreshing, At, Idle
<1>8. ShownIsStored'
  BY <1>0, <1>5 DEF BrowserInv, ShownIsStored, OwnerOf
<1> QED BY <1>4, <1>6, <1>7, <1>8 DEF BrowserInv

\* The timer of a registration signs its tab in.
LEMMA TimerStep ==
  ASSUME BrowserInv, NEW t \in Tabs, Timer(t)
  PROVE  BrowserInv'
<1>0. TypeOK /\ UNCHANGED <<owner, valid, alive, leaving, call>>
  BY DEF BrowserInv, Timer, server
<1>1. PICK p \in Pairs, a \in Accounts : p = timer[t] /\ a = owner[p]
  BY <1>0 DEF BrowserInv, Issued, TypeOK, Held, Timer
<1>2. p \in Held /\ OwnerOf(p)' = a
  BY <1>0, <1>1, NamesAssumption DEF OwnerOf, Held
<1>3. /\ ShownIsStored' /\ user' \in [Tabs -> Accounts \cup {"NONE", "CLOSED"}]
      /\ stored' \in Held /\ foreign' \in [Tabs -> BOOLEAN]
  BY <1>1, <1>2, SignInShows DEF Timer, SignIn, TimerUser
<1>4. timer' \in [Tabs -> Held] /\ timer'[t] = "NONE" /\ \A u \in Tabs \ {t} : timer'[u] = timer[u]
  BY <1>0 DEF Timer, TypeOK, Held
<1>5. TypeOK'
  BY <1>0, <1>3, <1>4 DEF TypeOK
<1>6. Issued'
  <2>1. stored' = p /\ owner'[p] # "NONE"
    BY <1>0, <1>1, NamesAssumption DEF Timer, SignIn
  <2> QED BY <1>0, <1>4, <2>1 DEF BrowserInv, Issued, Asks, At
<1>7. RefusedLeave' /\ SentOnce'
  BY <1>0 DEF BrowserInv, RefusedLeave, SentOnce, Refreshing, At
<1> QED BY <1>3, <1>5, <1>6, <1>7 DEF BrowserInv

\* A 401 empties localStorage and begins to leave.
LEMMA RefuseStep ==
  ASSUME BrowserInv, NEW t \in Tabs, Refuse(t)
  PROVE  BrowserInv'
<1>0. TypeOK /\ At(t, "sent") /\ stored' = "NONE" /\ UNCHANGED <<owner, valid, alive, user, timer>>
  BY DEF BrowserInv, Refuse, Write, server
<1>1. PICK c \in Call : /\ Goto(t, c)
                        /\ \/ c.pc = "idle"
                           \/ /\ c.pc = "refused" /\ c.again = call[t].again
                              /\ c.asks = call[t].asks /\ c.sends = call[t].sends
  <2>1. CASE Goto(t, Idle)
    BY <2>1, CallForms DEF Idle
  <2>2. CASE Goto(t, [call[t] EXCEPT !.pc = "refused", !.held = stored])
    <3>1. ~At(t, "idle") /\ stored \in Held
      BY <1>0 DEF At, TypeOK
    <3>2. Goto(t, BeRefused(call[t], stored))
      BY <2>2 DEF BeRefused
    <3> QED BY <1>0, <3>1, <3>2, CallFields, CallChanges
  <2> QED BY <2>1, <2>2 DEF Refuse
<1>2. ~At(t, "idle")
  BY <1>0 DEF At
<1>3. /\ call' \in [Tabs -> Call] /\ call'[t] = c
      /\ \A u \in Tabs \ {t} : call'[u] = call[u]
  BY <1>0, <1>1, CallSet
<1>4. /\ leaving' \in [Tabs -> BOOLEAN] /\ leaving'[t]
      /\ \A u \in Tabs \ {t} : leaving'[u] = leaving[u] /\ foreign'[u]
      /\ foreign' \in [Tabs -> BOOLEAN]
  BY <1>0 DEF Refuse, Write, TypeOK
<1>5. TypeOK'
  BY <1>0, <1>3, <1>4 DEF TypeOK, Held
<1>6. Issued'
  BY <1>0, <1>1, <1>2, <1>3 DEF BrowserInv, Issued, Asks, At
<1>7. RefusedLeave'
  BY <1>3, <1>4 DEF BrowserInv, RefusedLeave, Refreshing, At
<1>8. SentOnce'
  BY <1>1, <1>2, <1>3 DEF BrowserInv, SentOnce, Refreshing, At
<1>9. ShownIsStored'
  BY <1>4 DEF ShownIsStored
<1> QED BY <1>5, <1>6, <1>7, <1>8, <1>9 DEF BrowserInv

\* A tab that signs out shows nobody, and nothing is stored.
LEMMA SignOutStep ==
  ASSUME BrowserInv, NEW t \in Tabs, SignOut(t), Goto(t, Idle),
         UNCHANGED <<server, leaving, timer>>
  PROVE  BrowserInv'
<1>0. TypeOK /\ UNCHANGED <<owner, valid, alive>> /\ stored' = "NONE"
  BY DEF BrowserInv, SignOut, server
<1>1. /\ call' \in [Tabs -> Call] /\ call'[t] = Idle
      /\ \A u \in Tabs \ {t} : call'[u] = call[u]
  BY <1>0, CallSet, CallForms
<1>2. PICK p \in Held, a \in Accounts \cup {"NONE"} : p = "NONE" /\ a = "NONE"
  BY DEF Held
<1>3. OwnerOf(p)' = a
  BY <1>2 DEF OwnerOf
<1>4. /\ ShownIsStored' /\ user' \in [Tabs -> Accounts \cup {"NONE", "CLOSED"}]
      /\ stored' \in Held /\ foreign' \in [Tabs -> BOOLEAN]
  BY <1>2, <1>3, SignInShows DEF SignOut
<1>5. TypeOK'
  BY <1>0, <1>1, <1>4 DEF TypeOK
<1>6. Issued'
  BY <1>0, <1>1 DEF BrowserInv, Issued, Asks, At, Idle
<1>7. RefusedLeave' /\ SentOnce'
  BY <1>0, <1>1 DEF BrowserInv, RefusedLeave, SentOnce, Refreshing, At, Idle
<1> QED BY <1>4, <1>5, <1>6, <1>7 DEF BrowserInv

\* The refreshed tokens belong to whom the old ones did; the tab is leaving.
LEMMA RefreshedStep ==
  ASSUME BrowserInv, NEW t \in Tabs, NEW p \in Pairs, Refreshed(t, p)
  PROVE  BrowserInv'
<1> DEFINE old == Head(call[t].asks)
           rest == Tail(call[t].asks)
<1>0. /\ TypeOK /\ At(t, "sent") /\ ~At(t, "idle") /\ Refreshing(t) /\ stored' = p
      /\ UNCHANGED <<user, leaving, timer>>
  BY DEF BrowserInv, Refreshed, Write, tabs, At
<1>a. leaving[t] /\ call[t].sends = 1
  BY <1>0 DEF BrowserInv, RefusedLeave, SentOnce
<1>b. /\ old \in Pairs /\ rest \in Seq(Pairs)
      /\ owner[old] # "NONE" /\ \A i \in DOMAIN rest : rest[i] \in Asks(t)
  BY <1>0, AskedTokens DEF BrowserInv, Issued
<1>1. PICK a \in Accounts : a = owner[old]
  BY <1>0, <1>b DEF TypeOK
<1>2. /\ owner' \in [Pairs -> Accounts \cup {"NONE"}] /\ valid' \subseteq Pairs
      /\ owner'[p] = a /\ a # "NONE"
      /\ \A q \in Pairs : owner[q] # "NONE" => owner'[q] = owner[q]
  BY <1>0, <1>1, IssueKeeps DEF Refreshed
<1>3. PICK c \in Call : /\ Goto(t, c) /\ c.pc = "sent" /\ c.again /\ c.asks = rest
                        /\ c.sends \in {1, 2} /\ (rest # <<>> => c.sends = 1)
  <2> HIDE DEF rest
  <2>1. /\ call[t].pc = "sent" /\ p \in Held /\ call[t].sends + 1 = 2 /\ 2 \in Nat
        /\ rest \in Seq(Pairs)
    BY <1>0, <1>a, <1>b DEF At, Held
  <2>2. /\ RefreshAgain(call[t], rest) \in Call /\ RefreshAgain(call[t], rest).pc = "sent"
        /\ RefreshAgain(call[t], rest).again /\ RefreshAgain(call[t], rest).asks = rest
        /\ RefreshAgain(call[t], rest).sends = 1
    BY <1>0, <1>a, <2>1, CallFields, CallChanges
  <2>3. /\ SendAgain(call[t], p, rest, 2) \in Call /\ SendAgain(call[t], p, rest, 2).pc = "sent"
        /\ SendAgain(call[t], p, rest, 2).again /\ SendAgain(call[t], p, rest, 2).asks = rest
        /\ SendAgain(call[t], p, rest, 2).sends = 2
    BY <1>0, <2>1, CallFields, CallChanges
  <2>4. \/ rest = <<>> /\ Goto(t, SendAgain(call[t], p, rest, 2))
        \/ rest # <<>> /\ Goto(t, RefreshAgain(call[t], rest))
    BY <2>1 DEF Refreshed, SendAgain, RefreshAgain, rest
  <2> QED BY <2>2, <2>3, <2>4
<1> HIDE DEF rest, old
<1>4. /\ call' \in [Tabs -> Call] /\ call'[t] = c
      /\ \A u \in Tabs \ {t} : call'[u] = call[u]
  BY <1>0, <1>3, CallSet
<1>5. /\ foreign' \in [Tabs -> BOOLEAN]
      /\ \A u \in Tabs \ {t} : foreign'[u]
  BY <1>0 DEF Refreshed, Write, TypeOK
<1>6. TypeOK'
  <2>1. alive' \subseteq Pairs
    BY <1>0 DEF Refreshed, TypeOK
  <2> QED BY <1>0, <1>2, <1>4, <1>5, <2>1 DEF TypeOK, Held
<1>7. Issued'
  <2>1. ASSUME NEW u \in Tabs
        PROVE  /\ timer'[u] # "NONE" => owner'[timer'[u]] # "NONE"
               /\ ~At(u, "idle")' => \A q \in Asks(u)' : owner'[q] # "NONE"
    <3>1. timer[u] \in Held
      BY <1>0 DEF TypeOK
    <3>2. timer[u] # "NONE" => owner'[timer[u]] # "NONE"
      BY <1>2, <3>1 DEF BrowserInv, Issued, Held
    <3>3. ~At(u, "idle")' => ~At(u, "idle") /\ Asks(u)' \subseteq Asks(u)
      BY <1>0, <1>b, <1>3, <1>4 DEF At, Asks
    <3>4. ~At(u, "idle") => \A q \in Asks(u) : owner'[q] # "NONE"
      BY <1>0, <1>2, AsksIssued DEF BrowserInv, Issued
    <3> QED BY <1>0, <3>2, <3>3, <3>4
  <2> QED BY <1>0, <1>2, <2>1 DEF Issued
<1>8. RefusedLeave'
  BY <1>0, <1>a, <1>4 DEF BrowserInv, RefusedLeave, Refreshing, At
<1>9. SentOnce'
  BY <1>3, <1>4 DEF BrowserInv, SentOnce, Refreshing, At
<1>10. ShownIsStored'
  BY <1>0, <1>a, <1>5 DEF ShownIsStored
<1> QED BY <1>6, <1>7, <1>8, <1>9, <1>10 DEF BrowserInv

-----------------------------------------------------------------------------
\* Nobody has loaded the page and nothing was issued initially.
LEMMA BrowserInit == Init => BrowserInv
<1> SUFFICES ASSUME Init PROVE BrowserInv
  OBVIOUS
<1>1. TypeOK
  BY CallForms DEF Init, TypeOK, Held
<1>2. Issued
  BY DEF Init, Issued, At, Idle
<1>3. RefusedLeave /\ SentOnce
  BY DEF Init, RefusedLeave, SentOnce, At, Idle
<1>4. ShownIsStored
  BY DEF Init, ShownIsStored
<1> QED BY <1>1, <1>2, <1>3, <1>4 DEF BrowserInv

\* Every step of every tab keeps the invariant.
LEMMA BrowserStep == BrowserInv /\ [Next]_vars => BrowserInv'
<1> SUFFICES ASSUME BrowserInv, [Next]_vars PROVE BrowserInv'
  OBVIOUS
<1>0. TypeOK
  BY DEF BrowserInv
<1>1. ASSUME NEW t \in Tabs, NEW asked \in Asked, Send(t, asked) PROVE BrowserInv'
  <2>1. Sent(asked, stored, TRUE) \in Call
    BY <1>0, CallForms DEF TypeOK
  <2> QED BY <1>1, <2>1, CallStep DEF Send, Sent
<1>2. ASSUME NEW t \in Tabs, Answer(t) PROVE BrowserInv'
  BY <1>2, CallStep, CallForms DEF Answer, Idle
<1>3. ASSUME NEW t \in Tabs, Reject(t) PROVE BrowserInv'
  <2>1. CASE UNCHANGED <<stored, user, foreign>>
    BY <1>3, <2>1, CallStep, CallForms DEF Reject, Idle, tabs
  <2>2. CASE SignOut(t)
    BY <1>3, <2>2, SignOutStep DEF Reject
  <2> QED BY <1>3, <2>1, <2>2 DEF Reject
<1>4. ASSUME NEW t \in Tabs, AskRefresh(t) PROVE BrowserInv'
  <2> DEFINE asks == <<stored>> \o call[t].asks
             c == AwaitTokens(call[t], asks)
  <2>1. At(t, "refused") /\ ~At(t, "idle") /\ leaving[t] /\ ~call[t].again /\ stored # "NONE"
    BY <1>4 DEF AskRefresh, Retryable, BrowserInv, RefusedLeave, At
  <2>2. stored \in Pairs /\ call[t].asks \in Seq(Pairs) /\ call[t].sends = 1
    BY <1>0, <2>1, CallFields DEF TypeOK, Held, BrowserInv, SentOnce
  <2>3. /\ asks \in Seq(Pairs) /\ asks # <<>>
        /\ \A i \in DOMAIN asks : asks[i] = stored \/ asks[i] \in Asks(t)
    BY <2>2, PushedTokens DEF Asks
  <2>4. Goto(t, c) /\ UNCHANGED <<stored, server, tabs, foreign>>
    BY <1>4 DEF AskRefresh, AwaitTokens
  <2> HIDE DEF asks
  <2>5. \A i \in DOMAIN asks : owner[asks[i]] # "NONE"
    BY <2>1, <2>3 DEF BrowserInv, Issued
  <2>6. c \in Call /\ c.asks = asks /\ c.sends = 1 /\ c.pc = "sent"
    BY <1>0, <2>1, <2>2, <2>3, CallFields, CallChanges
  <2> HIDE DEF c
  <2> QED BY <2>1, <2>4, <2>5, <2>6, CallStep
<1>5. ASSUME NEW t \in Tabs, NotRefreshed(t) PROVE BrowserInv'
  BY <1>5, SignOutStep DEF NotRefreshed
<1>6. ASSUME NEW p \in Pairs, Expire(p) \/ Revoke(p) PROVE BrowserInv'
  BY <1>6 DEF Expire, Revoke, tabs, BrowserInv, TypeOK, Issued, RefusedLeave, SentOnce,
              ShownIsStored, OwnerOf, At, Asks, Refreshing
<1>7. CASE UNCHANGED vars
  BY <1>7 DEF vars, server, tabs, BrowserInv, TypeOK, Issued, RefusedLeave, SentOnce,
              ShownIsStored, OwnerOf, At, Asks, Refreshing
<1> QED
  BY <1>1, <1>2, <1>3, <1>4, <1>5, <1>6, <1>7, LoadStep, LoginStep, RegisterStep, TimerStep,
     RefuseStep, RefreshedStep DEF Next

\* The invariant of every browser.
LEMMA BrowserInvariant == Spec => []BrowserInv
  BY BrowserInit, BrowserStep, PTL DEF Spec

\* The types of storage, tabs and calls.
THEOREM BrowserTypeCorrect == Spec => []TypeOK
<1>1. BrowserInv => TypeOK
  BY DEF BrowserInv
<1> QED BY <1>1, BrowserInvariant, PTL

\* In any number of tabs: one that shows somebody acts for them, unless another
\* tab wrote since it looked, or it is on its way to the login page.
THEOREM TabsActForWhomTheyShow == Spec => []ShownIsStored
<1>1. BrowserInv => ShownIsStored
  BY DEF BrowserInv
<1> QED BY <1>1, BrowserInvariant, PTL

\* However often refreshing is itself refused and whatever other tabs store, a call
\* is sent twice at most and nothing is refreshed for it afterwards.
THEOREM CallsRetryOnce == Spec => []NoRetryLoop
<1>1. BrowserInv => NoRetryLoop
  BY DEF BrowserInv, SentOnce, NoRetryLoop
<1> QED BY <1>1, BrowserInvariant, PTL
=============================================================================
