------------------------------ MODULE Sessions ------------------------------
(***************************************************************************)
(* Logging in, refreshing, logging out and opening WebSockets with the     *)
(* tokens of simplejwt, as the URLs, LoginView, LogoutView, the settings   *)
(* SIMPLE_JWT and JWTAuthMiddleware use it.  Every query is a step of its  *)
(* own, in autocommit mode; between two of them the clock goes on, other   *)
(* requests run, accounts are deactivated, activated again, or deleted.    *)
(*                                                                         *)
(* A login or a refresh makes one access and one refresh token, both       *)
(* stamped with the moment at which it looked at the clock.  They are      *)
(* known by the request that made them: uuid4() makes every jti new.       *)
(***************************************************************************)
EXTENDS Naturals

CONSTANTS
  Logins, Refreshes,  \* requests
  Callers,      \* logouts and handshakes: those that come with a bearer token
  Users,
  UserOf,       \* Logins -> Users
  AccessLife,   \* ACCESS_TOKEN_LIFETIME
  RefreshLife,  \* REFRESH_TOKEN_LIFETIME
  MaxTime,      \* bound: the clock stops here
  Faults,       \* subset of AllFaults
  None

AllFaults == {"kill", "deactivate", "delete"}
Issuers == Logins \cup Refreshes
Requests == Issuers \cup Callers
Times == 0..MaxTime

ASSUME SessionsAssumption ==
  /\ Logins \cap Refreshes = {} /\ Logins \cap Callers = {} /\ Refreshes \cap Callers = {}
  /\ UserOf \in [Logins -> Users]
  /\ AccessLife \in Nat /\ RefreshLife \in Nat /\ MaxTime \in Nat
  /\ Faults \subseteq AllFaults
  /\ None \notin Requests \cup Users

VARIABLES
  standing,  \* standing[u]: "active", "inactive" or "gone"
  now,       \* the clock
  pc,        \* pc[r]: where the request is; its status
  who,       \* who[r]: the account it acts for
  bearer,    \* bearer[r]: the token it authenticates with
  cred,      \* cred[r]: whose refresh token it presents
  at,        \* at[r]: current_time of the token it reads or makes
  black,     \* blacklisted refresh tokens
  \* History
  blackAt,   \* blackAt[p]: when the refresh token of p was blacklisted
  late,      \* requests begun when their refresh token was blacklisted
  outcast    \* requests to which their account has been closed all the time

dbVars == <<standing, black, blackAt>>
inputs == <<who, bearer, cred, late, outcast>>
vars == <<standing, now, pc, who, bearer, cred, at, black, blackAt, late, outcast>>

Tokens == [kind : {"access", "refresh"}, of : Issuers]
Ended == {"200", "205", "400", "401", "500", "open", "closed", "killed"}

Init ==
  /\ standing = [u \in Users |-> "active"]
  /\ now = 0
  /\ pc = [r \in Requests |-> "idle"]
  /\ who = [r \in Requests |-> None]
  /\ bearer = [r \in Requests |-> None]
  /\ cred = [r \in Requests |-> None]
  /\ at = [r \in Requests |-> 0]
  /\ black = {}
  /\ blackAt = [p \in Issuers |-> 0]
  /\ late = {}
  /\ outcast = {}

Goto(r, from, to) == pc[r] = from /\ pc' = [pc EXCEPT ![r] = to]

\* The tokens clients have been given.
Handed == {p \in Issuers : pc[p] = "200"}
Life(kind) == IF kind = "access" THEN AccessLife ELSE RefreshLife
Expiry(token) == at[token.of] + Life(token.kind)
Expired(token) == Expiry(token) <= now

\* A handshake presents no refresh token next to its bearer.
IsHandshake(r, p) == r \in Callers /\ p = None
Handshake(r) == IsHandshake(r, cred[r])

\* Django's authentication wants an active account, _get_user any.
Closed(handshake, u) ==
  IF handshake THEN standing[u] = "gone" ELSE standing[u] # "active"
Refused(r) == Closed(Handshake(r), who[r])

(***************************************************************************)
(* A client sends a request with tokens it has been given: again and       *)
(* again with the same one if it likes.  A handshake takes a token of      *)
(* either kind, the REST API access tokens.                                *)
(***************************************************************************)
Begin(r, first, u, token, p) ==
  /\ Goto(r, "idle", first)
  /\ who' = [who EXCEPT ![r] = u]
  /\ bearer' = [bearer EXCEPT ![r] = token]
  /\ cred' = [cred EXCEPT ![r] = p]
  /\ late' = IF p \in black THEN late \cup {r} ELSE late
  /\ outcast' = IF Closed(IsHandshake(r, p), u) THEN outcast \cup {r} ELSE outcast
  /\ UNCHANGED <<dbVars, now, at>>

BeginLogin(r) == r \in Logins /\ Begin(r, "password", UserOf[r], None, None)
BeginRefresh(r) ==
  r \in Refreshes /\ \E p \in Handed : Begin(r, "stamp", who[p], None, p)
BeginLogout(r) ==
  /\ r \in Callers
  /\ \E p, q \in Handed : Begin(r, "bearer", who[p], [kind |-> "access", of |-> p], q)
BeginHandshake(r) ==
  /\ r \in Callers
  /\ \E token \in Tokens :
       token.of \in Handed /\ Begin(r, "bearer", who[token.of], token, None)

(***************************************************************************)
(* Login: authenticate() and for_user(), which stores the new refresh      *)
(* token as outstanding, a row that refers to the account.                 *)
(***************************************************************************)
CheckPassword(r) ==
  /\ \E right \in BOOLEAN :
       Goto(r, "password", IF right /\ standing[who[r]] = "active" THEN "issue" ELSE "401")
  /\ UNCHANGED <<dbVars, now, inputs, at>>

Issue(r) ==
  /\ Goto(r, "issue", IF standing[who[r]] = "gone" THEN "500" ELSE "200")
  /\ at' = [at EXCEPT ![r] = now]
  /\ UNCHANGED <<dbVars, now, inputs>>

(***************************************************************************)
(* The bearer of a logout or a handshake: the token is looked at, then its *)
(* account is fetched.  Nobody asks whether it has been blacklisted.       *)
(***************************************************************************)
NoBearer(r) == IF Handshake(r) THEN "closed" ELSE "401"

CheckBearer(r) ==
  /\ Goto(r, "bearer", IF Expired(bearer[r]) THEN NoBearer(r) ELSE "caller")
  /\ UNCHANGED <<dbVars, now, inputs, at>>

\* Slip: the user_id of the token is believed.
FindNobody(r) ==
  /\ Goto(r, "caller", IF Handshake(r) THEN "open" ELSE "stamp")
  /\ UNCHANGED <<dbVars, now, inputs, at>>

\* A handshake is through; LogoutView goes on to its serializer.
FindCaller(r) ==
  /\ pc[r] = "caller"
  /\ \/ Refused(r) /\ Goto(r, "caller", NoBearer(r))
     \/ ~Refused(r) /\ Handshake(r) /\ Goto(r, "caller", "open")
     \/ /\ ~Refused(r) /\ ~Handshake(r)
        /\ \E valid \in BOOLEAN : Goto(r, "caller", IF valid THEN "stamp" ELSE "400")
  /\ UNCHANGED <<dbVars, now, inputs, at>>

(***************************************************************************)
(* The refresh token of a refresh or a logout: RefreshToken(...) takes the *)
(* time, checks the expiry and asks for the blacklist.                     *)
(***************************************************************************)
NoToken(r) == IF r \in Callers THEN "400" ELSE "401"

Stamp(r) ==
  /\ Goto(r, "stamp", IF Expired([kind |-> "refresh", of |-> cred[r]]) THEN NoToken(r)
                      ELSE "check")
  /\ at' = [at EXCEPT ![r] = now]
  /\ UNCHANGED <<dbVars, now, inputs>>

AfterCheck(r) == IF r \in Callers THEN "spend" ELSE "user"

\* Slip: only the expiry is checked.
CheckNothing(r) ==
  /\ Goto(r, "check", AfterCheck(r))
  /\ UNCHANGED <<dbVars, now, inputs, at>>

CheckBlacklist(r) ==
  /\ Goto(r, "check", IF cred[r] \in black THEN NoToken(r) ELSE AfterCheck(r))
  /\ UNCHANGED <<dbVars, now, inputs, at>>

Spend(r) ==
  /\ black' = black \cup {cred[r]}
  /\ blackAt' = IF cred[r] \in black THEN blackAt ELSE [blackAt EXCEPT ![cred[r]] = now]

\* Slip: the old token is blacklisted before the account is looked up.
FindUserLate(r) ==
  /\ Goto(r, "user", IF Refused(r) THEN "401" ELSE "spend")
  /\ Spend(r)
  /\ UNCHANGED <<standing, now, inputs, at>>

\* A refresh is refused if its account is no longer active.
FindUser(r) ==
  /\ Goto(r, "user", IF Refused(r) THEN "401" ELSE "spend")
  /\ UNCHANGED <<dbVars, now, inputs, at>>

AfterSpend(r) == IF r \in Callers THEN "205" ELSE "rotate"

\* blacklist(): the row of the outstanding token is there; who comes second
\* finds the one of the blacklist.
SpendToken(r) ==
  /\ Goto(r, "spend", AfterSpend(r))
  /\ Spend(r)
  /\ UNCHANGED <<standing, now, inputs, at>>

\* Slip: the tokens of the answer are stamped when they are made.
RotateNow(r) ==
  /\ Goto(r, "rotate", "200")
  /\ at' = [at EXCEPT ![r] = now]
  /\ UNCHANGED <<dbVars, now, inputs>>

\* set_jti(), set_exp() and outstand(): the INSERT fails if the account goes
\* away after outstand() has fetched it.
Rotate(r) ==
  /\ \/ Goto(r, "rotate", "200")
     \/ Goto(r, "rotate", "500") /\ standing[who[r]] = "gone"
  /\ UNCHANGED <<dbVars, now, inputs, at>>

(***************************************************************************)
(* The clock, the admin, kills.                                            *)
(***************************************************************************)
Tick ==
  /\ now < MaxTime /\ now' = now + 1
  /\ UNCHANGED <<dbVars, pc, inputs, at>>

\* An account is switched off in the admin or deleted for good.
Close(u) ==
  /\ \/ /\ "deactivate" \in Faults /\ standing[u] = "active"
        /\ standing' = [standing EXCEPT ![u] = "inactive"]
     \/ /\ "delete" \in Faults /\ standing[u] # "gone"
        /\ standing' = [standing EXCEPT ![u] = "gone"]
  /\ UNCHANGED <<black, blackAt, now, pc, inputs, at>>

\* An account is switched on again, and its tokens are good again.
Reopen(u) ==
  /\ "deactivate" \in Faults /\ standing[u] = "inactive"
  /\ standing' = [standing EXCEPT ![u] = "active"]
  /\ outcast' = {r \in outcast : who[r] # u}
  /\ UNCHANGED <<black, blackAt, now, pc, who, bearer, cred, late, at>>

Kill(r) ==
  /\ "kill" \in Faults
  /\ pc[r] \notin Ended \cup {"idle"}
  /\ pc' = [pc EXCEPT ![r] = "killed"]
  /\ UNCHANGED <<dbVars, now, inputs, at>>

-----------------------------------------------------------------------------
Start(r) == BeginLogin(r) \/ BeginRefresh(r) \/ BeginLogout(r) \/ BeginHandshake(r)
Serve(r) ==
  \/ CheckPassword(r) \/ Issue(r) \/ CheckBearer(r) \/ FindCaller(r)
  \/ Stamp(r) \/ CheckBlacklist(r) \/ FindUser(r) \/ SpendToken(r) \/ Rotate(r)

Next ==
  \/ \E r \in Requests : Start(r) \/ Serve(r) \/ Kill(r)
  \/ Tick
  \/ \E u \in Users : Close(u) \/ Reopen(u)

Spec == Init /\ [][Next]_vars

(***************************************************************************)
(* Properties.                                                             *)
(***************************************************************************)
Steps == {"idle", "password", "issue", "bearer", "caller", "stamp", "check",
          "user", "spend", "rotate"}

TypeOK ==
  /\ standing \in [Users -> {"active", "inactive", "gone"}]
  /\ now \in Times
  /\ pc \in [Requests -> Steps \cup Ended]
  /\ who \in [Requests -> Users \cup {None}]
  /\ bearer \in [Requests -> Tokens \cup {None}]
  /\ cred \in [Requests -> Issuers \cup {None}]
  /\ at \in [Requests -> Times]
  /\ black \subseteq Issuers
  /\ blackAt \in [Issuers -> Times]
  /\ late \subseteq Requests
  /\ outcast \subseteq Requests

\* A refresh or a logout that begins after its refresh token was blacklisted,
\* by whichever of several overlapping requests, is refused.
SpentTokensAreRefused == \A r \in late : pc[r] \notin {"200", "205"}

\* Whatever tokens are left: who begins after the account was switched off or
\* deleted gets no tokens and logs nobody out, unless the account has been
\* switched on again; who begins after it was deleted opens no WebSocket
\* either.  Being switched off does not keep an account from a WebSocket, since
\* _get_user asks only whether there is such an account (see Closed).
ClosedAccountsAreOut == \A r \in outcast : pc[r] \notin {"200", "205", "open"}

\* The access tokens made with a refresh token are used up one lifetime after
\* it was blacklisted, even those of a refresh that overlaps with the logout.
AccessEndsWithItsToken ==
  \A t \in black : \A p \in Handed :
    p = t \/ cred[p] = t => Expiry([kind |-> "access", of |-> p]) <= blackAt[t] + AccessLife

\* A token is spent only for a logout that is confirmed or for a refresh that
\* gets its successor, unless the process dies or the account goes away.
TokensAreSpentForSomething ==
  \A t \in black : \E r \in Requests :
    /\ cred[r] = t
    /\ \/ pc[r] \in {"205", "rotate", "200", "killed"}
       \/ pc[r] = "500" /\ standing[who[r]] = "gone"

\* A refresh replaces its token: when it has succeeded the old token is spent,
\* and no token is spent without its owner getting something for it.
RefreshReplaces ==
  /\ \A p \in Refreshes : pc[p] = "200" => cred[p] \in black
  /\ TokensAreSpentForSomething

(***************************************************************************)
(* The inductive invariant.                                                *)
(***************************************************************************)
\* Who goes through which steps, and with what.
Fits(r) ==
  /\ pc[r] # "idle" => who[r] \in Users
  /\ r \in Logins =>
       /\ pc[r] \in {"idle", "password", "issue", "200", "401", "500", "killed"}
       /\ cred[r] = None
  /\ r \in Refreshes =>
       /\ pc[r] \in {"idle", "stamp", "check", "user", "spend", "rotate",
                     "200", "401", "500", "killed"}
       /\ pc[r] # "idle" => cred[r] \in Handed
  /\ r \in Callers =>
       /\ pc[r] \in {"idle", "bearer", "caller", "stamp", "check", "spend",
                     "205", "400", "401", "open", "closed", "killed"}
       /\ pc[r] \in {"stamp", "check", "spend", "205"} => cred[r] \in Handed
       /\ pc[r] \in {"bearer", "caller"} => cred[r] \in Handed \cup {None}
       /\ pc[r] = "open" => Handshake(r)
StepsFit == \A r \in Requests : Fits(r)

\* Only what the blacklist is asked about stands between a late request and
\* success, only the query for the account between an outcast and success.
LateAreStopped ==
  \A r \in late :
    cred[r] \in black /\ pc[r] \notin {"idle", "user", "spend", "rotate", "200", "205"}
OutcastsAreStopped ==
  \A r \in outcast :
    /\ pc[r] \notin {"idle", "issue", "rotate", "200", "205", "open"}
    /\ Refused(r)
    /\ r \in Refreshes => pc[r] # "spend"
    /\ r \in Callers => pc[r] \notin {"stamp", "check", "spend"}

\* A token that is read in time is stamped before it is blacklisted.
StampsComeFirst ==
  /\ \A r \in Requests : at[r] <= now
  /\ \A t \in black :
       /\ t \in Handed /\ at[t] <= blackAt[t]
       /\ \A r \in Refreshes :
            cred[r] = t /\ pc[r] \in {"user", "spend", "rotate", "200"} => at[r] <= blackAt[t]

RotationsHaveSpent ==
  \A r \in Refreshes : pc[r] \in {"rotate", "200"} => cred[r] \in black

IInv ==
  /\ TypeOK
  /\ StepsFit
  /\ LateAreStopped
  /\ OutcastsAreStopped
  /\ StampsComeFirst
  /\ RotationsHaveSpent
  /\ TokensAreSpentForSomething

=============================================================================
