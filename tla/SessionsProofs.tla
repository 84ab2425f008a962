--------------------------- MODULE SessionsProofs ---------------------------
(***************************************************************************)
(* The invariant of Sessions for any number of requests, accounts and      *)
(* moments, and what follows from it.                                      *)
(***************************************************************************)
EXTENDS Sessions, TLAPS

Points == Steps \cup Ended

LEMMA InitInv == Init => IInv
<1> SUFFICES ASSUME Init PROVE IInv
  OBVIOUS
<1>1. TypeOK
  BY SessionsAssumption DEF Init, TypeOK, Times, Steps
<1>2. StepsFit
  BY SessionsAssumption DEF Init, StepsFit, Fits, Requests, Issuers
<1>3. LateAreStopped /\ OutcastsAreStopped /\ RotationsHaveSpent /\ TokensAreSpentForSomething
  BY DEF Init, LateAreStopped, OutcastsAreStopped, RotationsHaveSpent,
         TokensAreSpentForSomething, Requests, Issuers
<1>4. StampsComeFirst
  BY DEF Init, StampsComeFirst
<1> QED BY <1>1, <1>2, <1>3, <1>4 DEF IInv

(***************************************************************************)
(* Types.                                                                  *)
(***************************************************************************)
LEMMA GotoType ==
  ASSUME TypeOK, NEW r \in Requests, NEW from, NEW to \in Points, Goto(r, from, to)
  PROVE  /\ pc' \in [Requests -> Points]
         /\ pc[r] = from /\ pc'[r] = to
         /\ \A q \in Requests : q # r => pc'[q] = pc[q]
BY DEF TypeOK, Goto, Points

LEMMA BeginType ==
  ASSUME TypeOK, NEW r \in Requests, NEW first \in Steps, NEW u \in Users \cup {None},
         NEW token \in Tokens \cup {None}, NEW p \in Issuers \cup {None},
         Begin(r, first, u, token, p)
  PROVE  TypeOK'
<1>1. pc' \in [Requests -> Points]
  BY GotoType DEF Begin, Points
<1> QED BY <1>1 DEF TypeOK, Begin, dbVars, Points

LEMMA StartType ==
  ASSUME TypeOK, NEW r \in Requests, Start(r)
  PROVE  TypeOK'
<1> USE DEF Steps
<1>1. CASE BeginLogin(r)
  BY <1>1, BeginType, SessionsAssumption DEF BeginLogin
<1>2. CASE BeginRefresh(r)
  BY <1>2, BeginType DEF BeginRefresh, Handed, TypeOK, Requests
<1>3. CASE BeginLogout(r)
  BY <1>3, BeginType DEF BeginLogout, Handed, TypeOK, Requests, Tokens
<1>4. CASE BeginHandshake(r)
  <2>1. PICK token \in Tokens :
          token.of \in Handed /\ Begin(r, "bearer", who[token.of], token, None)
    BY <1>4 DEF BeginHandshake
  <2>2. who[token.of] \in Users \cup {None}
    BY <2>1 DEF Handed, TypeOK, Requests
  <2> QED BY <2>1, <2>2, BeginType
<1> QED BY <1>1, <1>2, <1>3, <1>4 DEF Start

\* Who is past the checks presents a token that somebody has been given.
LEMMA SpenderHasToken ==
  ASSUME TypeOK, StepsFit, NEW r \in Requests,
         pc[r] \in {"stamp", "check", "user", "spend", "rotate"}
  PROVE  cred[r] \in Handed /\ cred[r] \in Issuers /\ pc[cred[r]] = "200" /\ cred[r] # r
<1>1. r \notin Logins
  BY DEF StepsFit, Fits
<1>2. cred[r] \in Handed
  BY <1>1 DEF StepsFit, Fits, Requests, Issuers
<1> QED BY <1>2 DEF Handed

LEMMA ServeType ==
  ASSUME TypeOK, StepsFit, NEW r \in Requests, Serve(r)
  PROVE  TypeOK'
<1>1. \A from, to : to \in Points /\ Goto(r, from, to) => pc' \in [Requests -> Points]
  BY GotoType
<1>2. pc' \in [Requests -> Points]
  <2> USE DEF Points, Steps, Ended
  <2>1. CASE CheckPassword(r) \/ Issue(r)
    BY <2>1, <1>1 DEF CheckPassword, Issue
  <2>2. CASE CheckBearer(r) \/ FindCaller(r)
    BY <2>2, <1>1 DEF CheckBearer, FindCaller, NoBearer
  <2>3. CASE Stamp(r) \/ CheckBlacklist(r)
    BY <2>3, <1>1 DEF Stamp, CheckBlacklist, NoToken, AfterCheck
  <2>4. CASE FindUser(r) \/ SpendToken(r) \/ Rotate(r)
    BY <2>4, <1>1 DEF FindUser, SpendToken, AfterSpend, Rotate
  <2> QED BY <2>1, <2>2, <2>3, <2>4 DEF Serve
<1>3. at' \in [Requests -> Times] /\ UNCHANGED <<now, standing, inputs>>
  BY DEF TypeOK, Serve, CheckPassword, Issue, CheckBearer, FindCaller, Stamp,
         CheckBlacklist, FindUser, SpendToken, Rotate, dbVars
<1>4. black' \subseteq Issuers /\ blackAt' \in [Issuers -> Times]
  <2>1. CASE SpendToken(r)
    <3>1. cred[r] \in Issuers
      BY <2>1, SpenderHasToken DEF SpendToken, Goto
    <3> QED BY <3>1, <2>1 DEF TypeOK, SpendToken, Spend
  <2> QED BY <2>1 DEF TypeOK, Serve, CheckPassword, Issue, CheckBearer, FindCaller, Stamp,
         CheckBlacklist, FindUser, Rotate, dbVars
<1> QED BY <1>2, <1>3, <1>4 DEF TypeOK, Points, inputs

LEMMA TypeStep == TypeOK /\ StepsFit /\ [Next]_vars => TypeOK'
<1> SUFFICES ASSUME TypeOK, StepsFit, [Next]_vars PROVE TypeOK'
  OBVIOUS
<1>1. CASE Tick
  BY <1>1, SessionsAssumption DEF Tick, TypeOK, dbVars, inputs, Times
<1>2. ASSUME NEW u \in Users, Close(u) \/ Reopen(u) PROVE TypeOK'
  BY <1>2 DEF Close, Reopen, TypeOK, inputs
<1>3. ASSUME NEW r \in Requests, Kill(r) PROVE TypeOK'
  BY <1>3 DEF Kill, TypeOK, dbVars, inputs, Ended
<1>4. CASE UNCHANGED vars
  BY <1>4 DEF vars, TypeOK
<1> QED BY <1>1, <1>2, <1>3, <1>4, StartType, ServeType DEF Next

(***************************************************************************)
(* What the steps of a request leave alone.                                *)
(***************************************************************************)
LEMMA OthersStay ==
  ASSUME TypeOK, NEW r \in Requests, Start(r) \/ Serve(r) \/ Kill(r),
         NEW q \in Requests, q # r
  PROVE  /\ pc'[q] = pc[q] /\ who'[q] = who[q] /\ cred'[q] = cred[q]
         /\ at'[q] = at[q]
<1>1. CASE Start(r)
  BY <1>1 DEF Start, BeginLogin, BeginRefresh, BeginLogout, BeginHandshake, Begin, Goto, TypeOK
<1>2. CASE Serve(r)
  BY <1>2 DEF Serve, CheckPassword, Issue, CheckBearer, FindCaller, Stamp, CheckBlacklist,
       FindUser, SpendToken, Rotate, Goto, TypeOK, inputs
<1>3. CASE Kill(r)
  BY <1>3 DEF Kill, TypeOK, inputs
<1> QED BY <1>1, <1>2, <1>3

LEMMA ServeKeeps ==
  ASSUME NEW r \in Requests, Serve(r) \/ Kill(r)
  PROVE  /\ UNCHANGED <<standing, now, who, bearer, cred, late, outcast>>
         /\ pc[r] \notin Ended \cup {"idle"}
<1>1. CASE Serve(r)
  BY <1>1 DEF Serve, CheckPassword, Issue, CheckBearer, FindCaller, Stamp, CheckBlacklist,
       FindUser, SpendToken, Rotate, Goto, inputs, dbVars, Ended
<1>2. CASE Kill(r)
  BY <1>2 DEF Kill, inputs, dbVars
<1> QED BY <1>1, <1>2

LEMMA StartKeeps ==
  ASSUME NEW r \in Requests, Start(r)
  PROVE  /\ UNCHANGED <<standing, now, at, black, blackAt>>
         /\ pc[r] = "idle"
BY DEF Start, BeginLogin, BeginRefresh, BeginLogout, BeginHandshake, Begin, Goto, dbVars

\* Tokens that have been given away stay.
LEMMA HandedGrows ==
  ASSUME TypeOK, NEW r \in Requests, Start(r) \/ Serve(r) \/ Kill(r)
  PROVE  Handed \subseteq Handed'
<1>1. pc[r] # "200"
  BY StartKeeps, ServeKeeps DEF Ended
<1> QED BY <1>1, OthersStay DEF Handed, Requests

Environment == Tick \/ (\E u \in Users : Close(u) \/ Reopen(u)) \/ UNCHANGED vars

\* The clock and the admin leave requests and tokens alone, and no account is
\* opened to a request that counts as an outcast's.
LEMMA EnvironmentKeeps ==
  ASSUME TypeOK, Environment
  PROVE  /\ UNCHANGED <<pc, who, bearer, cred, at, black, blackAt, late>>
         /\ now <= now'
         /\ \A u \in Users : standing[u] = "gone" => standing'[u] = "gone"
         /\ outcast' \subseteq outcast
         /\ \A u \in Users, r \in outcast' :
              who[r] = u /\ standing[u] # "active" => standing'[u] # "active"
<1>1. CASE Tick
  BY <1>1, SessionsAssumption DEF Tick, TypeOK, dbVars, inputs, Times
<1>2. ASSUME NEW u \in Users, Close(u) \/ Reopen(u)
      PROVE  /\ UNCHANGED <<pc, who, bearer, cred, at, black, blackAt, late>>
             /\ now <= now'
             /\ \A v \in Users : standing[v] = "gone" => standing'[v] = "gone"
             /\ outcast' \subseteq outcast
             /\ \A v \in Users, r \in outcast' :
                  who[r] = v /\ standing[v] # "active" => standing'[v] # "active"
  <2>1. now <= now' /\ UNCHANGED <<pc, who, bearer, cred, at, black, blackAt, late>>
    BY <1>2, SessionsAssumption DEF Close, Reopen, inputs, TypeOK, Times
  <2>2. CASE Close(u)
    BY <2>1, <2>2 DEF Close, TypeOK, inputs
  <2>3. CASE Reopen(u)
    BY <2>1, <2>3 DEF Reopen, TypeOK
  <2> QED BY <1>2, <2>2, <2>3
<1>3. CASE UNCHANGED vars
  BY <1>3, SessionsAssumption DEF vars, TypeOK, Times
<1> QED BY <1>1, <1>2, <1>3 DEF Environment

(***************************************************************************)
(* Each step keeps each part of the invariant.                             *)
(***************************************************************************)
LEMMA StartFits ==
  ASSUME TypeOK, StepsFit, NEW r \in Requests, Start(r)
  PROVE  Fits(r)'
<1>1. \A p \in Handed : p \in Handed' /\ p \in Issuers /\ who[p] \in Users
  BY HandedGrows DEF Handed, StepsFit, Fits, Requests
<1>2. who' = [who EXCEPT ![r] = who'[r]] /\ pc' = [pc EXCEPT ![r] = pc'[r]]
  BY DEF Start, BeginLogin, BeginRefresh, BeginLogout, BeginHandshake, Begin, Goto, TypeOK
<1> USE SessionsAssumption DEF Begin, Goto, TypeOK, Fits
<1>3. CASE BeginLogin(r)
  BY <1>3 DEF BeginLogin
<1>4. CASE BeginRefresh(r)
  BY <1>4, <1>1 DEF BeginRefresh
<1>5. CASE BeginLogout(r)
  BY <1>5, <1>1 DEF BeginLogout
<1>6. CASE BeginHandshake(r)
  BY <1>6, <1>1 DEF BeginHandshake
<1> QED BY <1>3, <1>4, <1>5, <1>6 DEF Start

LEMMA ServeFits ==
  ASSUME TypeOK, StepsFit, NEW r \in Requests, Serve(r) \/ Kill(r)
  PROVE  Fits(r)'
<1>1. Handed \subseteq Handed' /\ UNCHANGED <<who, cred>> /\ pc[r] \notin Ended \cup {"idle"}
  BY HandedGrows, ServeKeeps
<1>2. Fits(r) /\ pc \in [Requests -> Points]
  BY DEF StepsFit, TypeOK, Points
<1>3. r \in Refreshes \/ r \in Callers \/ r \in Logins
  BY DEF Requests, Issuers
<1> USE <1>1, <1>2, <1>3, SessionsAssumption DEF Goto, Fits, Handshake, IsHandshake
<1>4. CASE CheckPassword(r) \/ Issue(r)
  BY <1>4 DEF CheckPassword, Issue
<1>5. CASE CheckBearer(r)
  BY <1>5 DEF CheckBearer, NoBearer
<1>6. CASE FindCaller(r)
  BY <1>6 DEF FindCaller, NoBearer
<1>7. CASE Stamp(r) \/ CheckBlacklist(r)
  BY <1>7 DEF Stamp, CheckBlacklist, NoToken, AfterCheck
<1>8. CASE FindUser(r) \/ SpendToken(r) \/ Rotate(r)
  BY <1>8 DEF FindUser, SpendToken, Rotate, AfterSpend
<1>9. CASE Kill(r)
  BY <1>9 DEF Kill
<1> QED BY <1>4, <1>5, <1>6, <1>7, <1>8, <1>9 DEF Serve

LEMMA StepsFitStep == TypeOK /\ StepsFit /\ [Next]_vars => StepsFit'
<1> SUFFICES ASSUME TypeOK, StepsFit, [Next]_vars, NEW q \in Requests PROVE Fits(q)'
  BY DEF StepsFit
<1>1. Fits(q)
  BY DEF StepsFit
<1>2. ASSUME NEW r \in Requests, Start(r) \/ Serve(r) \/ Kill(r) PROVE Fits(q)'
  <2>1. CASE q = r
    BY <1>2, <2>1, StartFits, ServeFits
  <2>2. CASE q # r
    <3>1. pc'[q] = pc[q] /\ who'[q] = who[q] /\ cred'[q] = cred[q] /\ Handed \subseteq Handed'
      BY <1>2, <2>2, OthersStay, HandedGrows
    <3> QED BY <3>1, <1>1 DEF Fits, Handshake, IsHandshake
  <2> QED BY <2>1, <2>2
<1>3. CASE Environment
  <2>1. UNCHANGED <<pc, who, cred>>
    BY <1>3, EnvironmentKeeps
  <2> QED BY <2>1, <1>1 DEF Fits, Handed, Handshake, IsHandshake
<1> QED BY <1>2, <1>3 DEF Next, Environment

LEMMA LateStep == IInv /\ [Next]_vars => LateAreStopped'
<1> SUFFICES ASSUME IInv, [Next]_vars PROVE LateAreStopped'
  OBVIOUS
<1>0. TypeOK /\ StepsFit /\ LateAreStopped
  BY DEF IInv
<1>1. ASSUME NEW r \in Requests, Start(r) PROVE LateAreStopped'
  <2>1. /\ UNCHANGED black
        /\ late' \subseteq late \cup {r}
        /\ r \in late' => r \in late \/ cred'[r] \in black
        /\ pc'[r] \in {"password", "stamp", "bearer"}
    <3> USE SessionsAssumption DEF TypeOK, Begin, Goto, dbVars
    <3>1. CASE BeginLogin(r)
      BY <1>0, <3>1 DEF BeginLogin
    <3>2. CASE BeginRefresh(r)
      BY <1>0, <3>2 DEF BeginRefresh
    <3>3. CASE BeginLogout(r)
      BY <1>0, <3>3 DEF BeginLogout
    <3>4. CASE BeginHandshake(r)
      BY <1>0, <3>4 DEF BeginHandshake
    <3> QED BY <1>1, <3>1, <3>2, <3>3, <3>4 DEF Start
  <2>2. r \notin late
    BY <1>0, <1>1, StartKeeps DEF LateAreStopped
  <2>3. \A q \in late' : q # r => q \in late /\ q \in Requests
    BY <1>0, <2>1 DEF TypeOK
  <2> QED BY <1>0, <1>1, <2>1, <2>2, <2>3, OthersStay DEF LateAreStopped
<1>2. ASSUME NEW r \in Requests, Serve(r) \/ Kill(r) PROVE LateAreStopped'
  <2>1. black \subseteq black' /\ UNCHANGED <<late, cred>>
    BY <1>2, ServeKeeps DEF Serve, CheckPassword, Issue, CheckBearer, FindCaller, Stamp,
      CheckBlacklist, FindUser, SpendToken, Spend, Rotate, Kill, dbVars
  <2>2. ASSUME r \in late
        PROVE  pc'[r] \notin {"idle", "user", "spend", "rotate", "200", "205"}
    <3>1. /\ cred[r] \in black
          /\ pc[r] \notin {"idle", "user", "spend", "rotate", "200", "205"}
          /\ cred[r] # None /\ Fits(r)
          /\ r \in Refreshes \/ r \in Callers \/ r \in Logins
          /\ pc \in [Requests -> Points]
      BY <1>0, <2>2, SessionsAssumption
      DEF LateAreStopped, TypeOK, StepsFit, Points, Requests, Issuers
    <3>2. CASE CheckPassword(r) \/ Issue(r)
      BY <3>1, <3>2 DEF CheckPassword, Issue, Fits, Goto
    <3>3. CASE CheckBearer(r) \/ FindCaller(r)
      BY <3>1, <3>3 DEF CheckBearer, FindCaller, NoBearer, Goto
    <3>4. CASE Stamp(r) \/ CheckBlacklist(r) \/ Kill(r)
      BY <3>1, <3>4 DEF Stamp, CheckBlacklist, NoToken, Goto, Kill
    <3>5. CASE FindUser(r) \/ SpendToken(r) \/ Rotate(r)
      BY <3>1, <3>5 DEF FindUser, SpendToken, Rotate, Goto
    <3> QED BY <1>2, <3>1, <3>2, <3>3, <3>4, <3>5 DEF Serve, Fits
  <2> QED BY <1>0, <1>2, <2>1, <2>2, OthersStay DEF LateAreStopped, TypeOK
<1>3. CASE Environment
  BY <1>0, <1>3, EnvironmentKeeps DEF LateAreStopped
<1> QED BY <1>1, <1>2, <1>3 DEF Next, Environment

LEMMA OutcastStep == IInv /\ [Next]_vars => OutcastsAreStopped'
<1> SUFFICES ASSUME IInv, [Next]_vars PROVE OutcastsAreStopped'
  OBVIOUS
<1> DEFINE Stopped(r) ==
      /\ pc[r] \notin {"idle", "issue", "rotate", "200", "205", "open"}
      /\ Refused(r)
      /\ r \in Refreshes => pc[r] # "spend"
      /\ r \in Callers => pc[r] \notin {"stamp", "check", "spend"}
<1>0. TypeOK /\ StepsFit /\ \A r \in outcast : Stopped(r)
  BY DEF IInv, OutcastsAreStopped
<1>1. ASSUME NEW r \in Requests, Start(r) PROVE OutcastsAreStopped'
  <2>1. /\ UNCHANGED standing
        /\ outcast' \subseteq outcast \cup {r}
        /\ r \in outcast' => r \in outcast \/ Closed(IsHandshake(r, cred'[r]), who'[r])
        /\ pc'[r] \in {"password", "stamp", "bearer"}
        /\ r \in Callers => pc'[r] = "bearer"
    <3> USE SessionsAssumption DEF TypeOK, Begin, Goto, dbVars, Requests, Issuers
    <3>1. CASE BeginLogin(r)
      BY <1>0, <3>1 DEF BeginLogin
    <3>2. CASE BeginRefresh(r)
      BY <1>0, <3>2 DEF BeginRefresh
    <3>3. CASE BeginLogout(r)
      BY <1>0, <3>3 DEF BeginLogout
    <3>4. CASE BeginHandshake(r)
      BY <1>0, <3>4 DEF BeginHandshake
    <3> QED BY <1>1, <3>1, <3>2, <3>3, <3>4 DEF Start
  <2>2. r \notin outcast
    BY <1>0, <1>1, StartKeeps
  <2>3. r \in outcast' => Stopped(r)'
    BY <2>1, <2>2 DEF Refused, Handshake, IsHandshake, Closed
  <2>4. ASSUME NEW q \in outcast', q # r PROVE Stopped(q)'
    <3>1. q \in outcast /\ q \in Requests
      BY <1>0, <2>1, <2>4 DEF TypeOK
    <3>2. pc'[q] = pc[q] /\ who'[q] = who[q] /\ cred'[q] = cred[q]
      BY <1>0, <1>1, <2>4, <3>1, OthersStay
    <3> QED BY <1>0, <2>1, <3>1, <3>2 DEF Refused, Handshake, IsHandshake, Closed
  <2> QED BY <2>3, <2>4 DEF OutcastsAreStopped
<1>2. ASSUME NEW r \in Requests, Serve(r) \/ Kill(r) PROVE OutcastsAreStopped'
  <2>1. UNCHANGED <<outcast, cred, who, standing>> /\ pc[r] \notin Ended \cup {"idle"}
    BY <1>2, ServeKeeps
  <2>2. ASSUME r \in outcast PROVE Stopped(r)'
    <3>1. Stopped(r) /\ Fits(r) /\ pc \in [Requests -> Points]
      BY <1>0, <2>2 DEF StepsFit, TypeOK, Points
    <3>2. Refused(r)' /\ Refused(r) /\ standing[who[r]] # "active"
      BY <2>1, <3>1 DEF Refused, Handshake, IsHandshake, Closed
    <3>3. r \in Refreshes \/ r \in Callers \/ r \in Logins
      BY DEF Requests, Issuers
    <3> USE SessionsAssumption, <3>1, <3>2, <3>3 DEF Goto, Fits
    <3>4. CASE CheckPassword(r) \/ Issue(r)
      BY <3>4 DEF CheckPassword, Issue
    <3>5. CASE CheckBearer(r) \/ FindCaller(r)
      BY <3>5 DEF CheckBearer, FindCaller, NoBearer
    <3>6. CASE Stamp(r) \/ CheckBlacklist(r) \/ Kill(r)
      BY <3>6 DEF Stamp, CheckBlacklist, NoToken, AfterCheck, Kill
    <3>7. CASE FindUser(r) \/ SpendToken(r) \/ Rotate(r)
      BY <3>7 DEF FindUser, SpendToken, Rotate
    <3> QED BY <1>2, <3>4, <3>5, <3>6, <3>7 DEF Serve
  <2>3. ASSUME NEW q \in outcast, q # r PROVE Stopped(q)'
    <3>1. q \in Requests
      BY <1>0 DEF TypeOK
    <3>2. pc'[q] = pc[q]
      BY <1>0, <1>2, <2>3, <3>1, OthersStay
    <3> QED BY <1>0, <2>1, <3>1, <3>2 DEF Refused, Handshake, IsHandshake, Closed
  <2> QED BY <2>1, <2>2, <2>3 DEF OutcastsAreStopped
<1>3. CASE Environment
  <2>1. /\ UNCHANGED <<pc, who, cred>> /\ outcast' \subseteq outcast
        /\ \A u \in Users : standing[u] = "gone" => standing'[u] = "gone"
        /\ \A u \in Users, r \in outcast' :
             who[r] = u /\ standing[u] # "active" => standing'[u] # "active"
    BY <1>0, <1>3, EnvironmentKeeps
  <2>2. \A r \in outcast : who[r] \in Users
    BY <1>0 DEF StepsFit, Fits, TypeOK
  <2>3. \A r \in outcast' : Refused(r)'
    BY <1>0, <2>1, <2>2 DEF Refused, Handshake, IsHandshake, Closed
  <2> QED BY <1>0, <2>1, <2>3 DEF OutcastsAreStopped
<1> QED BY <1>1, <1>2, <1>3 DEF Next, Environment

LEMMA RotationsStep == IInv /\ [Next]_vars => RotationsHaveSpent'
<1> SUFFICES ASSUME IInv, [Next]_vars, NEW q \in Refreshes, pc'[q] \in {"rotate", "200"}
    PROVE  cred'[q] \in black'
  BY DEF RotationsHaveSpent
<1>0. TypeOK /\ StepsFit /\ RotationsHaveSpent /\ q \in Requests
  BY DEF IInv, Requests, Issuers
<1>1. ASSUME NEW r \in Requests, Start(r) PROVE cred'[q] \in black'
  <2>1. CASE q = r
    <3>1. pc'[r] \in {"password", "stamp", "bearer"}
      BY <1>0, <1>1 DEF Start, BeginLogin, BeginRefresh, BeginLogout, BeginHandshake, Begin,
        Goto, TypeOK
    <3> QED BY <2>1, <3>1
  <2>2. CASE q # r
    BY <1>0, <1>1, <2>2, OthersStay, StartKeeps DEF RotationsHaveSpent
  <2> QED BY <2>1, <2>2
<1>2. ASSUME NEW r \in Requests, Serve(r) \/ Kill(r) PROVE cred'[q] \in black'
  <2>1. black \subseteq black' /\ UNCHANGED cred
    BY <1>2, ServeKeeps DEF Serve, CheckPassword, Issue, CheckBearer, FindCaller, Stamp,
      CheckBlacklist, FindUser, SpendToken, Spend, Rotate, Kill, dbVars
  <2>2. CASE q = r
    <3>1. Fits(r) /\ pc \in [Requests -> Points] /\ q \notin Logins /\ q \notin Callers
      BY <1>0, <2>2, SessionsAssumption DEF StepsFit, TypeOK, Points
    <3>2. SpendToken(r) \/ Rotate(r)
      BY <1>2, <2>2, <3>1 DEF Serve, CheckPassword, Issue, CheckBearer, FindCaller, Stamp,
        CheckBlacklist, FindUser, Kill, Goto, NoBearer, NoToken, AfterCheck, Fits
    <3>3. CASE SpendToken(r)
      BY <2>1, <2>2, <3>3 DEF SpendToken, Spend
    <3>4. CASE Rotate(r)
      BY <1>0, <2>1, <2>2, <3>4 DEF Rotate, Goto, RotationsHaveSpent
    <3> QED BY <3>2, <3>3, <3>4
  <2>3. CASE q # r
    BY <1>0, <1>2, <2>1, <2>3, OthersStay DEF RotationsHaveSpent
  <2> QED BY <2>2, <2>3
<1>3. CASE Environment
  BY <1>0, <1>3, EnvironmentKeeps DEF RotationsHaveSpent
<1> QED BY <1>1, <1>2, <1>3 DEF Next, Environment

\* The blacklist is written by one step, and only new entries get a time.
LEMMA BlackStep ==
  ASSUME TypeOK, NEW r \in Requests, Serve(r) \/ Kill(r)
  PROVE  \/ UNCHANGED <<black, blackAt>>
         \/ /\ pc[r] = "spend" /\ UNCHANGED at
            /\ black' = black \cup {cred[r]}
            /\ cred[r] \in black => UNCHANGED blackAt
            /\ cred[r] \notin black => blackAt' = [blackAt EXCEPT ![cred[r]] = now]
BY DEF Serve, CheckPassword, Issue, CheckBearer, FindCaller, Stamp, CheckBlacklist,
       FindUser, SpendToken, Spend, Rotate, Kill, dbVars, Goto

\* Only who is to be stamped is stamped, with the time it is.
LEMMA StampStep ==
  ASSUME TypeOK, NEW r \in Requests, Serve(r) \/ Kill(r)
  PROVE  UNCHANGED at \/ /\ pc[r] \in {"issue", "stamp"}
                          /\ at' = [at EXCEPT ![r] = now]
                          /\ pc'[r] \in {"check", "200", "500", "400", "401"}
BY DEF Serve, CheckPassword, Issue, CheckBearer, FindCaller, Stamp, CheckBlacklist,
       FindUser, SpendToken, Rotate, Kill, Goto, NoToken, TypeOK

LEMMA StampsStep == IInv /\ [Next]_vars => StampsComeFirst'
<1> SUFFICES ASSUME IInv, [Next]_vars PROVE StampsComeFirst'
  OBVIOUS
<1>0. TypeOK /\ StepsFit /\ StampsComeFirst
  BY DEF IInv
<1>n. /\ now \in Nat /\ \A r \in Requests : at[r] \in Nat
      /\ \A t \in black : t \in Issuers /\ blackAt[t] \in Nat
  BY <1>0, SessionsAssumption DEF TypeOK, Times
<1>1. ASSUME NEW r \in Requests, Start(r) PROVE StampsComeFirst'
  <2>1. UNCHANGED <<now, at, black, blackAt>> /\ Handed \subseteq Handed'
    BY <1>0, <1>1, StartKeeps, HandedGrows
  <2>2. pc'[r] \in {"password", "stamp", "bearer"}
    BY <1>0, <1>1 DEF Start, BeginLogin, BeginRefresh, BeginLogout, BeginHandshake, Begin,
      Goto, TypeOK
  <2>3. \A q \in Refreshes : q # r => pc'[q] = pc[q] /\ cred'[q] = cred[q]
    BY <1>0, <1>1, OthersStay DEF Requests, Issuers
  <2> QED BY <1>0, <2>1, <2>2, <2>3 DEF StampsComeFirst
<1>2. ASSUME NEW r \in Requests, Serve(r) \/ Kill(r) PROVE StampsComeFirst'
  <2>1. UNCHANGED <<now, cred>> /\ Handed \subseteq Handed' /\ pc[r] \notin Ended
    BY <1>0, <1>2, ServeKeeps, HandedGrows
  <2>2. \A q \in Requests : q # r => at'[q] = at[q] /\ pc'[q] = pc[q]
    BY <1>0, <1>2, OthersStay
  <2>3. at'[r] = at[r] \/ at'[r] = now
    BY <1>0, <1>2, StampStep DEF TypeOK
  <2>4. \A q \in Requests : at'[q] <= now
    BY <1>0, <1>n, <2>2, <2>3 DEF StampsComeFirst
  <2>5. \A t \in black : t # r /\ t \in Handed' /\ at'[t] = at[t]
    BY <1>0, <1>n, <2>1, <2>2 DEF StampsComeFirst, Handed, Ended, Requests
  <2>6. \A t \in black : blackAt'[t] = blackAt[t]
    BY <1>0, <1>2, <1>n, BlackStep DEF TypeOK
  <2>7. ASSUME NEW t \in black, NEW q \in Refreshes, cred[q] = t,
               pc'[q] \in {"user", "spend", "rotate", "200"}
        PROVE  at'[q] <= blackAt[t]
    <3>0. q \in Requests /\ q \notin Logins /\ q \notin Callers /\ Fits(q)
      BY <1>0, SessionsAssumption DEF Requests, Issuers, StepsFit
    <3>1. CASE q # r
      BY <1>0, <2>2, <2>7, <3>0, <3>1 DEF StampsComeFirst
    <3>2. CASE q = r
      <4>1. pc[r] \in {"user", "spend", "rotate"} /\ at'[r] = at[r]
        BY <1>2, <2>7, <3>0, <3>2, <1>0 DEF Serve, CheckPassword, Issue, CheckBearer, FindCaller,
          Stamp, CheckBlacklist, FindUser, SpendToken, Rotate, Kill, Goto, NoBearer, NoToken,
          AfterCheck, Fits, TypeOK
      <4> QED BY <1>0, <2>7, <3>2, <4>1 DEF StampsComeFirst
    <3> QED BY <3>1, <3>2
  <2>8. CASE UNCHANGED <<black, blackAt>>
    BY <1>0, <2>1, <2>4, <2>5, <2>7, <2>8 DEF StampsComeFirst
  <2>9. CASE pc[r] = "spend" /\ UNCHANGED at /\ black' = black \cup {cred[r]}
    <3>1. CASE cred[r] \in black
      <4>1. black' = black
        BY <2>9, <3>1
      <4> QED BY <1>0, <2>1, <2>4, <2>5, <2>6, <2>7, <4>1 DEF StampsComeFirst
    <3>2. CASE cred[r] \notin black
      <4>1. cred[r] \in Handed /\ cred[r] \in Issuers
        BY <1>0, <2>9, SpenderHasToken
      <4>2. blackAt'[cred[r]] = now
        BY <1>0, <1>2, <2>9, <3>2, <4>1, BlackStep DEF TypeOK
      <4>3. cred[r] \in Handed' /\ at'[cred[r]] <= now
        BY <2>1, <2>4, <4>1 DEF Requests
      <4>4. \A q \in Refreshes : at'[q] <= now
        BY <2>4 DEF Requests, Issuers
      <4> QED BY <1>0, <2>1, <2>4, <2>5, <2>6, <2>7, <2>9, <4>2, <4>3, <4>4 DEF StampsComeFirst
    <3> QED BY <3>1, <3>2
  <2> QED BY <1>0, <1>2, <2>8, <2>9, BlackStep
<1>3. CASE Environment
  <2>1. UNCHANGED <<pc, cred, at, black, blackAt>> /\ now <= now'
    BY <1>0, <1>3, EnvironmentKeeps
  <2>2. now' \in Nat
    BY <1>0, TypeStep, SessionsAssumption DEF TypeOK, Times
  <2>3. \A r \in Requests : at[r] <= now'
    BY <1>0, <1>n, <2>1, <2>2 DEF StampsComeFirst
  <2> QED BY <1>0, <2>1, <2>3 DEF StampsComeFirst, Handed
<1> QED BY <1>1, <1>2, <1>3 DEF Next, Environment

\* What a token has been spent for.
LEMMA SpendingStep == IInv /\ [Next]_vars => TokensAreSpentForSomething'
<1> SUFFICES ASSUME IInv, [Next]_vars, NEW t \in black'
    PROVE  (\E r \in Requests :
              /\ cred[r] = t
              /\ \/ pc[r] \in {"205", "rotate", "200", "killed"}
                 \/ pc[r] = "500" /\ standing[who[r]] = "gone")'
  BY DEF TokensAreSpentForSomething
<1> DEFINE Reason(r) ==
      /\ cred[r] = t
      /\ \/ pc[r] \in {"205", "rotate", "200", "killed"}
         \/ pc[r] = "500" /\ standing[who[r]] = "gone"
<1>0. TypeOK /\ StepsFit /\ TokensAreSpentForSomething
  BY DEF IInv
<1>h. SUFFICES \E q \in Requests : Reason(q)'
  OBVIOUS
<1>r. t \in black => \E q \in Requests : Reason(q)
  BY <1>0 DEF TokensAreSpentForSomething
<1>1. ASSUME NEW r \in Requests, Start(r) PROVE \E q \in Requests : Reason(q)'
  <2>1. t \in black /\ UNCHANGED standing /\ pc[r] = "idle"
    BY <1>1, StartKeeps
  <2>2. PICK q \in Requests : Reason(q)
    BY <1>r, <2>1
  <2> QED BY <1>0, <1>1, <2>1, <2>2, OthersStay
<1>2. ASSUME NEW r \in Requests, Serve(r) \/ Kill(r) PROVE \E q \in Requests : Reason(q)'
  <2>1. UNCHANGED <<standing, cred, who>> /\ pc[r] \notin Ended
    BY <1>2, ServeKeeps
  <2>2. CASE t \in black
    <3>1. PICK q \in Requests : Reason(q)
      BY <1>r, <2>2
    <3>2. CASE q # r
      BY <1>0, <1>2, <2>1, <3>1, <3>2, OthersStay
    <3>3. CASE q = r
      <4>1. pc[r] = "rotate"
        BY <2>1, <3>1, <3>3 DEF Ended
      <4>2. Rotate(r) \/ Kill(r)
        BY <1>2, <4>1 DEF Serve, CheckPassword, Issue, CheckBearer, FindCaller, Stamp,
          CheckBlacklist, FindUser, SpendToken, Goto
      <4>3. pc'[r] \in {"200", "killed"} \/ (pc'[r] = "500" /\ standing[who[r]] = "gone")
        BY <1>0, <4>2 DEF Rotate, Kill, Goto, TypeOK
      <4> QED BY <2>1, <3>1, <3>3, <4>3
    <3> QED BY <3>2, <3>3
  <2>3. CASE t \notin black
    <3>1. pc[r] = "spend" /\ cred[r] = t
      BY <1>0, <1>2, <2>3, BlackStep
    <3>2. SpendToken(r)
      BY <1>2, <2>3, <3>1 DEF Serve, CheckPassword, Issue, CheckBearer, FindCaller, Stamp,
        CheckBlacklist, FindUser, Rotate, Goto, Kill, dbVars
    <3>3. pc'[r] \in {"205", "rotate"}
      BY <1>0, <3>2 DEF SpendToken, AfterSpend, Goto, TypeOK
    <3> QED BY <2>1, <3>1, <3>3
  <2> QED BY <2>2, <2>3
<1>3. CASE Environment
  <2>1. /\ UNCHANGED <<pc, who, cred, black>>
        /\ \A u \in Users : standing[u] = "gone" => standing'[u] = "gone"
    BY <1>0, <1>3, EnvironmentKeeps
  <2>2. PICK q \in Requests : Reason(q)
    BY <1>r, <2>1
  <2>3. pc[q] = "500" => who[q] \in Users
    BY <1>0 DEF StepsFit, Fits
  <2> QED BY <2>1, <2>2, <2>3
<1> QED BY <1>1, <1>2, <1>3 DEF Next, Environment

(***************************************************************************)
(* The theorems.                                                           *)
(***************************************************************************)
\* In every behaviour requests go through the steps of their views with
\* tokens that have been given away, and the blacklist keeps up with them.
THEOREM SessionsInvariant == Spec => []IInv
<1>1. IInv /\ [Next]_vars => IInv'
  BY TypeStep, StepsFitStep, LateStep, OutcastStep, StampsStep, RotationsStep, SpendingStep
  DEF IInv
<1> QED BY InitInv, <1>1, PTL DEF Spec

\* However many requests overlap: one that begins when its refresh token is
\* on the blacklist gets neither tokens nor a confirmed logout.
THEOREM SpentIsRefused == Spec => []SpentTokensAreRefused
<1>1. IInv => SpentTokensAreRefused
  BY DEF IInv, LateAreStopped, SpentTokensAreRefused
<1> QED BY SessionsInvariant, <1>1, PTL

\* The REST API refuses whoever comes after an account was switched off or
\* deleted, until it is switched on again, and the WebSocket handshake whoever
\* comes after it was deleted; one that is only switched off passes it.
THEOREM ClosedIsOut == Spec => []ClosedAccountsAreOut
<1>1. IInv => ClosedAccountsAreOut
  BY DEF IInv, OutcastsAreStopped, ClosedAccountsAreOut
<1> QED BY SessionsInvariant, <1>1, PTL

\* One access lifetime after a refresh token is blacklisted the last access
\* token made with it has expired, whatever overlapped.
THEOREM AccessEnds == Spec => []AccessEndsWithItsToken
<1>1. ASSUME IInv PROVE AccessEndsWithItsToken
  <2> SUFFICES ASSUME NEW t \in black, NEW p \in Handed, p = t \/ cred[p] = t
      PROVE  at[p] + AccessLife <= blackAt[t] + AccessLife
    BY DEF AccessEndsWithItsToken, Expiry, Life
  <2>1. TypeOK /\ StampsComeFirst /\ StepsFit
    BY <1>1 DEF IInv
  <2>2. p \in Requests /\ t \in Issuers /\ t # None
    BY <2>1, SessionsAssumption DEF Handed, Requests, TypeOK
  <2>3. p = t \/ p \in Refreshes
    BY <2>1, <2>2 DEF StepsFit, Fits, Handed, Issuers
  <2>4. at[p] <= blackAt[t]
    BY <2>1, <2>3 DEF StampsComeFirst, Handed
  <2>5. at[p] \in Nat /\ blackAt[t] \in Nat /\ AccessLife \in Nat
    BY <2>1, <2>2, SessionsAssumption DEF TypeOK, Times
  <2> QED BY <2>4, <2>5
<1> QED BY SessionsInvariant, <1>1, PTL

\* A refresh that has succeeded has spent its token, and no token is spent
\* without a logout or a successor, as long as nothing dies and no account is
\* deleted.
THEOREM RefreshKeepsOneToken == Spec => []RefreshReplaces
<1>1. IInv => RefreshReplaces
  BY DEF IInv, RotationsHaveSpent, StampsComeFirst, TokensAreSpentForSomething, RefreshReplaces
<1> QED BY SessionsInvariant, <1>1, PTL

=============================================================================
