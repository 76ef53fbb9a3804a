------------------------- MODULE AuthSessions_proofs -------------------------
(***************************************************************************)
(* Proofs about AuthSessions and Personnel, for any people, any number of  *)
(* synchronisations and requests, and any limit of attempts.               *)
(***************************************************************************)
EXTENDS AuthSessions, FiniteSetTheorems, TLAPS

USE PeopleAssumption, MeAssumption, TokensAssumption, CodesAssumption

LEMMA TypeInit == Init => TypeOK
  BY DEF Init, SyncInit, TypeOK, SyncTypeOK, Stages

LEMMA SyncTypeNext == SyncTypeOK /\ SyncNext => SyncTypeOK'
<1> SUFFICES ASSUME SyncTypeOK, SyncNext PROVE SyncTypeOK'
  OBVIOUS
<1>1. ASSUME NEW a \in People, Enroll(a) PROVE SyncTypeOK'
  BY <1>1 DEF Enroll, SyncTypeOK
<1>2. ASSUME NEW a \in People, NEW state \in {"active", "inactive"},
             SetActive(a, state)
      PROVE SyncTypeOK'
  BY <1>2 DEF SetActive, SyncTypeOK
<1>3. ASSUME NEW y \in Syncs, NEW list \in SUBSET People, Fetch(y, list)
      PROVE SyncTypeOK'
  BY <1>3 DEF Fetch, SyncTypeOK
<1>4. ASSUME NEW y \in Syncs, NEW p \in People, Look(y, p) PROVE SyncTypeOK'
  BY <1>4 DEF Look, SyncTypeOK
<1>5. ASSUME NEW y \in Syncs, Write(y) PROVE SyncTypeOK'
  BY <1>5 DEF Write, NextRecord, SyncTypeOK
<1>6. ASSUME NEW y \in Syncs, WriteFails(y) PROVE SyncTypeOK'
  BY <1>6 DEF WriteFails, NextRecord, SyncTypeOK
<1>7. ASSUME NEW y \in Syncs, Finish(y) PROVE SyncTypeOK'
  BY <1>7 DEF Finish, Ends, SyncTypeOK
<1>8. ASSUME NEW y \in Syncs, FinishFails(y) PROVE SyncTypeOK'
  BY <1>8 DEF FinishFails, Ends, SyncTypeOK
<1> QED BY <1>1, <1>2, <1>3, <1>4, <1>5, <1>6, <1>7, <1>8 DEF SyncNext, SyncStep

LEMMA SyncTypeSame == SyncTypeOK /\ UNCHANGED syncVars => SyncTypeOK'
  BY DEF SyncTypeOK, syncVars

(* Everything TypeOK says of the requests and what they change. *)
AuthTypeOK ==
    /\ live \subseteq Tokens
    /\ stage \in [Requests -> Stages]
    /\ match \in [Requests -> Tokens \cup {None}]
    /\ otp \in [Codes -> {"none", "open", "consumed", "expired"}]
    /\ attempts \in [Codes -> Nat]
    /\ picked \in [Requests -> Codes \cup {None}]
    /\ alone \subseteq Requests
    /\ calm \in BOOLEAN

LEMMA TypeSplits == TypeOK <=> SyncTypeOK /\ AuthTypeOK
  BY DEF TypeOK, AuthTypeOK

(* What the two halves of a request do to the types. *)
LEMMA BeginsType ==
    ASSUME AuthTypeOK, NEW r \in Requests, NEW next \in Stages, Begins(r, next)
    PROVE  /\ stage' \in [Requests -> Stages]
           /\ alone' \subseteq Requests
           /\ calm' \in BOOLEAN
<1>1. stage' \in [Requests -> Stages]
  BY DEF Begins, AuthTypeOK
<1>2. alone' \subseteq Requests
  BY DEF Begins, AuthTypeOK
<1>3. calm' \in BOOLEAN
  BY DEF Begins, AuthTypeOK
<1> QED BY <1>1, <1>2, <1>3

LEMMA OverType ==
    ASSUME AuthTypeOK, NEW r \in Requests, Over(r)
    PROVE  /\ stage' \in [Requests -> Stages]
           /\ match' \in [Requests -> Tokens \cup {None}]
           /\ picked' \in [Requests -> Codes \cup {None}]
           /\ alone' \subseteq Requests
           /\ calm' \in BOOLEAN
<1>1. calm' \in BOOLEAN
  BY DEF Over, AuthTypeOK
<1> QED BY <1>1 DEF Over, AuthTypeOK, Stages

LEMMA TypeNext == TypeOK /\ [Next]_vars => TypeOK'
<1> SUFFICES ASSUME TypeOK, [Next]_vars PROVE TypeOK'
  OBVIOUS
<1>0. SyncTypeOK /\ AuthTypeOK
  BY TypeSplits
<1>1. CASE SyncNext /\ UNCHANGED authVars
  <2>1. SyncTypeOK'
    BY <1>0, <1>1, SyncTypeNext
  <2>2. AuthTypeOK'
    BY <1>0, <1>1, Zenon DEF AuthTypeOK, authVars
  <2> QED BY <2>1, <2>2 DEF TypeOK, AuthTypeOK
<1>2. CASE Logout
  BY <1>0, <1>2, SyncTypeSame DEF Logout, TypeOK, AuthTypeOK
<1>3. ASSUME NEW c \in Codes, IssueCode(c) \/ Expire(c) PROVE TypeOK'
  BY <1>0, <1>3, SyncTypeSame DEF IssueCode, Expire, TypeOK, AuthTypeOK
<1>4. ASSUME NEW r \in Requests, RequestStep(r) PROVE TypeOK'
  <2>1. CASE Register(r)
    <3>1. SyncTypeOK'
      BY <1>0, <2>1 DEF Register, Enroll, SyncTypeOK
    <3>2. Begins(r, "session") /\ "session" \in Stages
      BY <2>1 DEF Register, Stages
    <3> QED BY <1>0, <2>1, <3>1, <3>2, BeginsType DEF Register, TypeOK, AuthTypeOK
  <2>2. CASE Login(r)
    <3>2. Begins(r, "revoke") /\ "revoke" \in Stages
      BY <2>2 DEF Login, Stages
    <3> QED BY <1>0, <2>2, <3>2, BeginsType, SyncTypeSame
            DEF Login, TypeOK, AuthTypeOK
  <2>3. CASE LoginRevokes(r)
    BY <1>0, <2>3, SyncTypeSame DEF LoginRevokes, TypeOK, AuthTypeOK, Stages
  <2>4. CASE SessionMade(r)
    <3>1. Over(r)
      BY <2>4 DEF SessionMade
    <3> QED BY <1>0, <2>4, <3>1, OverType, SyncTypeSame
            DEF SessionMade, TypeOK, AuthTypeOK
  <2>5. CASE Refresh(r)
    <3>2. Begins(r, "rotate") /\ "rotate" \in Stages
      BY <2>5 DEF Refresh, Stages
    <3>3. match' \in [Requests -> Tokens \cup {None}]
      BY <1>0, <2>5 DEF Refresh, AuthTypeOK
    <3> QED BY <1>0, <2>5, <3>2, <3>3, BeginsType, SyncTypeSame
            DEF Refresh, TypeOK, AuthTypeOK
  <2>6. CASE Rotate(r)
    BY <1>0, <2>6, SyncTypeSame DEF Rotate, TypeOK, AuthTypeOK, Stages
  <2>7. ASSUME NEW c \in Codes, NEW next \in {"verify", "reset"}, Pick(r, c, next)
        PROVE TypeOK'
    <3>2. Begins(r, next) /\ next \in Stages
      BY <2>7 DEF Pick, Stages
    <3> QED BY <1>0, <2>7, <3>2, BeginsType, SyncTypeSame
            DEF Pick, TypeOK, AuthTypeOK
  <2>8. CASE WrongCode(r)
    <3>1. Over(r)
      BY <2>8 DEF WrongCode
    <3>2. attempts' \in [Codes -> Nat]
      <4>1. attempts' = [attempts EXCEPT ![picked[r]] = attempts[picked[r]] + 1]
        BY <2>8 DEF WrongCode
      <4>2. attempts \in [Codes -> Nat] /\ picked[r] \in Codes \cup {None}
        BY <1>0 DEF AuthTypeOK
      <4>3. CASE picked[r] \in Codes
        <5>1. PICK n \in Nat : n = attempts[picked[r]]
          BY <4>2, <4>3, Zenon
        <5>2. attempts' = [attempts EXCEPT ![picked[r]] = n + 1]
          BY <4>1, <5>1, Zenon
        <5>3. n + 1 \in Nat
          OBVIOUS
        <5> QED BY <4>2, <4>3, <5>2, <5>3, Zenon
      <4>4. CASE picked[r] = None
        <5>1. picked[r] \notin Codes
          BY <4>4
        <5> QED BY <4>1, <4>2, <5>1
      <4> QED BY <4>2, <4>3, <4>4
    <3> QED BY <1>0, <2>8, <3>1, <3>2, OverType, SyncTypeSame
            DEF WrongCode, TypeOK, AuthTypeOK
  <2>9. CASE Verified(r) \/ ResetDone(r) \/ Fails(r)
    <3>1. Over(r)
      BY <2>9 DEF Verified, ResetDone, Fails
    <3> QED BY <1>0, <2>9, <3>1, OverType, SyncTypeSame
            DEF Verified, ResetDone, Fails, TypeOK, AuthTypeOK
  <2>10. CASE Consume(r)
    BY <1>0, <2>10, SyncTypeSame DEF Consume, TypeOK, AuthTypeOK, Stages
  <2> QED BY <1>4, <2>1, <2>2, <2>3, <2>4, <2>5, <2>6, <2>7, <2>8, <2>9, <2>10
          DEF RequestStep
<1>5. CASE UNCHANGED vars
  <2>1. UNCHANGED syncVars /\ UNCHANGED authVars
    BY <1>5 DEF vars
  <2> QED BY <1>0, <2>1, SyncTypeSame, Zenon DEF TypeOK, AuthTypeOK, authVars
<1> QED BY <1>1, <1>2, <1>3, <1>4, <1>5 DEF Next

(* The type invariant of accounts, sessions and codes. *)
THEOREM AuthTypes == Spec => []TypeOK
  BY TypeInit, TypeNext, PTL DEF Spec

-----------------------------------------------------------------------------
(* The codes a synchronisation has noted are those of its list it has dealt*)
(* with; while it is clean, their accounts are active.                     *)
SyncInv ==
    \A y \in Syncs :
        /\ todo[y] \subseteq listed[y]
        /\ noted[y] \subseteq listed[y]
        /\ listed[y] \ todo[y] \subseteq noted[y]
        /\ record[y] # None => record[y] \in todo[y] \cap noted[y]
        /\ y \notin syncing => listed[y] = {} /\ record[y] = None
        /\ y \in clean =>
               y \in syncing /\ \A p \in listed[y] \ todo[y] : account[p] = "active"

LEMMA SyncInvNext == SyncTypeOK /\ SyncInv /\ SyncNext => SyncInv'
<1> SUFFICES ASSUME SyncTypeOK, SyncInv, SyncNext PROVE SyncInv'
  OBVIOUS
<1>1. ASSUME NEW a \in People, Enroll(a) PROVE SyncInv'
  BY <1>1 DEF Enroll, SyncTypeOK, SyncInv
<1>2. ASSUME NEW a \in People, NEW state \in {"active", "inactive"},
             SetActive(a, state)
      PROVE SyncInv'
  BY <1>2 DEF SetActive, SyncTypeOK, SyncInv
<1>3. ASSUME NEW y \in Syncs, NEW list \in SUBSET People, Fetch(y, list)
      PROVE SyncInv'
  BY <1>3 DEF Fetch, SyncTypeOK, SyncInv
<1>4. ASSUME NEW y \in Syncs, NEW p \in People, Look(y, p) PROVE SyncInv'
  BY <1>4 DEF Look, SyncTypeOK, SyncInv
<1>5. ASSUME NEW y \in Syncs, Write(y) PROVE SyncInv'
  BY <1>5 DEF Write, NextRecord, SyncTypeOK, SyncInv
<1>6. ASSUME NEW y \in Syncs, WriteFails(y) PROVE SyncInv'
  BY <1>6 DEF WriteFails, NextRecord, SyncTypeOK, SyncInv
<1>7. ASSUME NEW y \in Syncs, Finish(y) PROVE SyncInv'
  BY <1>7 DEF Finish, Ends, SyncTypeOK, SyncInv
<1>8. ASSUME NEW y \in Syncs, FinishFails(y) PROVE SyncInv'
  BY <1>8 DEF FinishFails, Ends, SyncTypeOK, SyncInv
<1> QED BY <1>1, <1>2, <1>3, <1>4, <1>5, <1>6, <1>7, <1>8 DEF SyncNext, SyncStep

(* The steps of requests that are not an enrolment leave synchronisations  *)
(* alone.                                                                  *)
LEMMA SyncOrSame ==
    ASSUME TypeOK, [Next]_vars
    PROVE  \/ SyncNext /\ UNCHANGED authVars
           \/ \E r \in Requests : Register(r)
           \/ UNCHANGED syncVars
  BY DEF Next, RequestStep, vars, Logout, IssueCode, Expire, Login, LoginRevokes,
         SessionMade, Refresh, Rotate, Pick, WrongCode, Verified, Consume,
         ResetDone, Fails

LEMMA SyncInvariance == Spec => [](TypeOK /\ SyncInv)
<1>1. Init => TypeOK /\ SyncInv
  BY TypeInit DEF Init, SyncInit, SyncInv
<1>2. TypeOK /\ SyncInv /\ [Next]_vars => (TypeOK /\ SyncInv)'
  <2> SUFFICES ASSUME TypeOK, SyncInv, [Next]_vars PROVE (TypeOK /\ SyncInv)'
    OBVIOUS
  <2>1. TypeOK' /\ SyncTypeOK
    BY TypeNext DEF TypeOK
  <2>2. CASE SyncNext
    BY <2>1, <2>2, SyncInvNext
  <2>3. ASSUME NEW r \in Requests, Register(r) PROVE SyncInv'
    <3>1. SyncNext
      BY <2>3 DEF Register, SyncNext
    <3> QED BY <2>1, <3>1, SyncInvNext
  <2>4. CASE UNCHANGED syncVars
    <3>1. SyncInv'
      BY <2>4 DEF syncVars, SyncInv
    <3> QED BY <2>1, <3>1
  <2> QED BY <2>1, <2>2, <2>3, <2>4, SyncOrSame
<1> QED BY <1>1, <1>2, PTL DEF Spec

(* No synchronisation deactivates the people it was given.                 *)
THEOREM ListedStayActive == Spec => ListedAreSpared
<1>1. TypeOK /\ SyncInv /\ [Next]_vars =>
          [\A y \in Syncs : Finish(y) =>
              \A p \in listed[y] : account'[p] = account[p]]_account
  <2> SUFFICES ASSUME TypeOK, SyncInv, NEW y \in Syncs, Finish(y),
                      NEW p \in listed[y]
               PROVE  account'[p] = account[p]
    OBVIOUS
  <2>1. p \in noted[y] /\ p \in DOMAIN account
    BY DEF Finish, Ends, SyncInv, TypeOK, SyncTypeOK
  <2> QED BY <2>1 DEF Finish, Absent
<1> QED BY <1>1, SyncInvariance, PTL DEF Spec, ListedAreSpared

(* However many synchronisations there are, one that is clean leaves active*)
(* exactly the people of its list.                                         *)
THEOREM CleanSyncMirrors == Spec => SyncMirrors
<1>1. TypeOK /\ SyncInv /\ [Next]_vars =>
          [\A y \in Syncs : Finish(y) =>
              /\ listed[y] = {} => account' = account
              /\ y \in clean /\ listed[y] # {} =>
                     \A p \in People :
                         account'[p] = "active" <=> p \in listed[y]]_syncVars
  <2> SUFFICES ASSUME TypeOK, SyncInv, NEW y \in Syncs, Finish(y)
               PROVE  /\ listed[y] = {} => account' = account
                      /\ y \in clean /\ listed[y] # {} =>
                             \A p \in People :
                                 account'[p] = "active" <=> p \in listed[y]
    OBVIOUS
  <2>1. noted[y] = listed[y] /\ account \in [People -> {"none", "active", "inactive"}]
    <3>1. noted[y] \subseteq listed[y] /\ listed[y] \ todo[y] \subseteq noted[y]
      BY DEF SyncInv
    <3>2. todo[y] = {}
      BY DEF Finish, Ends
    <3> QED BY <3>1, <3>2 DEF TypeOK, SyncTypeOK
  <2>2. account' = [a \in People |->
                       IF a \in Absent(y) THEN "inactive" ELSE account[a]]
    BY <2>1 DEF Finish
  <2>3. listed[y] = {} => account' = account
    <3>1. listed[y] = {} => Absent(y) = {}
      BY <2>1 DEF Absent
    <3> QED BY <2>1, <2>2, <3>1
  <2>4. ASSUME y \in clean, listed[y] # {}, NEW p \in People
        PROVE  account'[p] = "active" <=> p \in listed[y]
    <3>1. p \in listed[y] => account[p] = "active"
      BY <2>4 DEF SyncInv, Finish, Ends
    <3> QED BY <2>1, <2>2, <2>4, <3>1 DEF Absent
  <2> QED BY <2>3, <2>4
<1> QED BY <1>1, SyncInvariance, PTL DEF Spec, SyncMirrors

-----------------------------------------------------------------------------
(* An account that does not exist has neither sessions nor requests nor    *)
(* codes.  A request alone is the only one, and as long as all is calm     *)
(* every request is alone; then there is one session at most, none when    *)
(* one is about to be made, and none but the one about to be revoked.      *)
Unborn ==
    account[Me] = "none" =>
        /\ live = {}
        /\ \A r \in Requests : stage[r] = "idle"
        /\ \A c \in Codes : otp[c] = "none"

Alone ==
    /\ \A r \in alone : stage[r] # "idle"
    /\ \A r \in alone, q \in Requests : q # r => stage[q] = "idle"
    /\ calm => \A r \in Requests : stage[r] # "idle" => r \in alone

Sessions ==
    /\ \A r \in Requests :
           /\ stage[r] = "rotate" => match[r] # None
           /\ stage[r] \in {"idle", "revoke"} => match[r] = None
           /\ calm /\ stage[r] = "session" => live = {}
           /\ calm /\ stage[r] = "rotate" => live \subseteq {match[r]}
    /\ CalmIsSingle
    /\ LoginIsAlone

(* A request that compares a code has picked one.                          *)
Picks ==
    \A r \in Requests : stage[r] \in {"verify", "reset"} => picked[r] \in Codes

AuthInv == Unborn /\ Alone /\ Sessions /\ Picks /\ CodeSpentOnce

(* A request that begins is alone, or nobody is.                           *)
LEMMA BeginsAlone ==
    ASSUME AuthTypeOK, Alone, NEW r \in Requests, NEW next \in Stages \ {"idle"},
           Begins(r, next)
    PROVE  /\ Alone'
           /\ \A q \in alone' : q = r
           /\ calm' => calm
           /\ stage[r] = "idle"
           /\ stage' = [stage EXCEPT ![r] = next]
<1>1. /\ \A q \in alone' : q = r
      /\ calm' => calm /\ alone' = {r}
      /\ alone' # {} => \A q \in Requests : stage[q] = "idle"
      /\ stage[r] = "idle"
      /\ stage' = [stage EXCEPT ![r] = next]
  BY DEF Begins
<1>2. \A q \in Requests : stage'[q] = IF q = r THEN next ELSE stage[q]
  BY <1>1 DEF AuthTypeOK
<1>3. Alone'
  BY <1>1, <1>2 DEF Alone
<1> QED BY <1>1, <1>3

(* Accounts are not removed. *)
LEMMA SyncKeepsAccounts ==
    ASSUME SyncTypeOK, SyncNext, account'[Me] = "none"
    PROVE  account[Me] = "none"
  BY DEF SyncNext, SyncStep, Enroll, SetActive, Fetch, Look, Write, WriteFails,
         NextRecord, Finish, FinishFails, Ends, SyncTypeOK

LEMMA AuthInvNext == TypeOK /\ AuthInv /\ [Next]_vars => AuthInv'
<1> SUFFICES ASSUME TypeOK, AuthInv, [Next]_vars PROVE AuthInv'
  OBVIOUS
<1> USE DEF AuthInv
<1>0. SyncTypeOK /\ AuthTypeOK
  BY TypeSplits
<1>1. CASE SyncNext /\ UNCHANGED authVars
  <2>1. Unborn'
    BY <1>0, <1>1, SyncKeepsAccounts DEF Unborn, authVars
  <2>2. (Alone /\ Sessions /\ CodeSpentOnce)'
    BY <1>1 DEF Alone, Sessions, CalmIsSingle, LoginIsAlone, CodeSpentOnce, authVars
  <2>3. Picks'
    BY <1>1 DEF Picks, authVars
  <2> QED BY <2>1, <2>2, <2>3
<1>2. CASE Logout
  BY <1>2 DEF Logout, Unborn, Alone, Sessions, CalmIsSingle, LoginIsAlone,
              Picks, CodeSpentOnce, syncVars
<1>3. ASSUME NEW c \in Codes, IssueCode(c) \/ Expire(c) PROVE AuthInv'
  <2>1. Unborn'
    BY <1>0, <1>3 DEF IssueCode, Expire, Unborn, syncVars, AuthTypeOK
  <2>2. (Alone /\ Sessions /\ Picks)'
    BY <1>3 DEF IssueCode, Expire, Alone, Sessions, CalmIsSingle, LoginIsAlone, Picks
  <2>3. CodeSpentOnce'
    <3>1. \A r \in alone : stage[r] = "reset" => picked[r] \in Codes
      BY <1>0 DEF Picks, AuthTypeOK
    <3>2. \A d \in Codes : otp'[d] = "consumed" => otp[d] = "consumed"
      BY <1>0, <1>3 DEF IssueCode, Expire, AuthTypeOK
    <3> QED BY <1>3, <3>1, <3>2 DEF IssueCode, Expire, CodeSpentOnce
  <2> QED BY <2>1, <2>2, <2>3
<1>4. ASSUME NEW r \in Requests, RequestStep(r) PROVE AuthInv'
  <2>1. CASE Register(r)
    <3>1. Unborn'
      BY <1>0, <2>1 DEF Register, Enroll, Unborn, SyncTypeOK
    <3>2. /\ Alone' /\ (\A q \in alone' : q = r) /\ (calm' => calm)
          /\ stage[r] = "idle" /\ stage' = [stage EXCEPT ![r] = "session"]
      <4>1. Begins(r, "session") /\ "session" \in Stages \ {"idle"}
        BY <2>1 DEF Register, Stages
      <4> QED BY <1>0, <4>1, BeginsAlone
    <3>3. live = {} /\ live' = {}
      BY <2>1 DEF Register, Enroll, Unborn
    <3>4. \A q \in Requests : stage[q] = "idle"
      BY <2>1 DEF Register, Enroll, Unborn
    <3>5. Sessions'
      BY <1>0, <2>1, <3>2, <3>3, <3>4
         DEF Register, Sessions, CalmIsSingle, LoginIsAlone, AuthTypeOK
    <3>6. (Picks /\ CodeSpentOnce)'
      BY <1>0, <2>1, <3>2, <3>4 DEF Register, Picks, CodeSpentOnce, AuthTypeOK
    <3> QED BY <3>1, <3>2, <3>5, <3>6
  <2>2. CASE Login(r)
    <3>1. Unborn'
      BY <2>2 DEF Login, Unborn, syncVars
    <3>2. /\ Alone' /\ (\A q \in alone' : q = r) /\ (calm' => calm)
          /\ stage[r] = "idle" /\ stage' = [stage EXCEPT ![r] = "revoke"]
      <4>1. Begins(r, "revoke") /\ "revoke" \in Stages \ {"idle"}
        BY <2>2 DEF Login, Stages
      <4> QED BY <1>0, <4>1, BeginsAlone
    <3>3. Sessions'
      BY <1>0, <2>2, <3>2 DEF Login, Sessions, CalmIsSingle, LoginIsAlone,
                              AuthTypeOK
    <3>4. (Picks /\ CodeSpentOnce)'
      BY <1>0, <2>2, <3>2 DEF Login, Picks, CodeSpentOnce, AuthTypeOK
    <3> QED BY <3>1, <3>2, <3>3, <3>4
  <2>3. CASE LoginRevokes(r)
    <3>1. (Unborn /\ Alone /\ Picks)'
      BY <1>0, <2>3 DEF LoginRevokes, Unborn, Alone, Picks, syncVars, AuthTypeOK
    <3>2. Sessions'
      BY <1>0, <2>3 DEF LoginRevokes, Sessions, CalmIsSingle, LoginIsAlone,
                        AuthTypeOK
    <3>3. CodeSpentOnce'
      BY <1>0, <2>3 DEF LoginRevokes, CodeSpentOnce, AuthTypeOK
    <3> QED BY <3>1, <3>2, <3>3
  <2>4. CASE SessionMade(r)
    <3>0. stage[r] = "session" /\ Over(r)
      BY <2>4 DEF SessionMade
    <3>1. Unborn'
      BY <2>4, <3>0 DEF SessionMade, Unborn, syncVars
    <3>2. Alone'
      BY <1>0, <3>0 DEF Over, Alone, AuthTypeOK
    <3>3. calm => live = {} /\ \A q \in Requests : q # r => stage[q] = "idle"
      BY <3>0 DEF Alone, Sessions
    <3>4. alone' = {}
      BY <1>0, <3>0 DEF Over, Alone, AuthTypeOK
    <3>5. Sessions'
      BY <1>0, <2>4, <3>0, <3>3, <3>4
         DEF SessionMade, Over, Sessions, CalmIsSingle, LoginIsAlone, AuthTypeOK
    <3>6. (Picks /\ CodeSpentOnce)'
      BY <1>0, <3>0, <3>4 DEF Over, Picks, CodeSpentOnce, AuthTypeOK
    <3> QED BY <3>1, <3>2, <3>5, <3>6
  <2>5. CASE Refresh(r)
    <3>1. Unborn'
      BY <2>5 DEF Refresh, Unborn, syncVars
    <3>2. /\ Alone' /\ (\A q \in alone' : q = r) /\ (calm' => calm)
          /\ stage[r] = "idle" /\ stage' = [stage EXCEPT ![r] = "rotate"]
      <4>1. Begins(r, "rotate") /\ "rotate" \in Stages \ {"idle"}
        BY <2>5 DEF Refresh, Stages
      <4> QED BY <1>0, <4>1, BeginsAlone
    <3>3. PICK k \in live : match' = [match EXCEPT ![r] = k]
      BY <2>5 DEF Refresh
    <3>4. k \in Tokens /\ (calm => live = {k})
      BY <1>0 DEF AuthTypeOK, Sessions, CalmIsSingle
    <3>5. Sessions'
      BY <1>0, <2>5, <3>2, <3>3, <3>4
         DEF Refresh, Sessions, CalmIsSingle, LoginIsAlone, AuthTypeOK
    <3>6. (Picks /\ CodeSpentOnce)'
      BY <1>0, <2>5, <3>2 DEF Refresh, Picks, CodeSpentOnce, AuthTypeOK
    <3> QED BY <3>1, <3>2, <3>5, <3>6
  <2>6. CASE Rotate(r)
    <3>1. (Unborn /\ Alone /\ Picks)'
      BY <1>0, <2>6 DEF Rotate, Unborn, Alone, Picks, syncVars, AuthTypeOK
    <3>2. Sessions'
      BY <1>0, <2>6 DEF Rotate, Sessions, CalmIsSingle, LoginIsAlone, AuthTypeOK,
                        Alone
    <3>3. CodeSpentOnce'
      BY <1>0, <2>6 DEF Rotate, CodeSpentOnce, AuthTypeOK
    <3> QED BY <3>1, <3>2, <3>3
  <2>7. ASSUME NEW c \in Codes, NEW next \in {"verify", "reset"}, Pick(r, c, next)
        PROVE AuthInv'
    <3>0. /\ Begins(r, next)
          /\ picked' = [picked EXCEPT ![r] = c]
          /\ otp[c] = "open" /\ attempts[c] < MaxAttempts
          /\ UNCHANGED <<live, match, otp, attempts>>
          /\ account' = account
      BY <2>7 DEF Pick, Latest, syncVars
    <3>1. Unborn'
      BY <3>0 DEF Unborn
    <3>2. /\ Alone' /\ (\A q \in alone' : q = r) /\ (calm' => calm)
          /\ stage[r] = "idle" /\ stage' = [stage EXCEPT ![r] = next]
      <4>1. next \in Stages \ {"idle"}
        BY DEF Stages
      <4> QED BY <1>0, <3>0, <4>1, BeginsAlone
    <3>3. Sessions'
      BY <1>0, <3>0, <3>2 DEF Sessions, CalmIsSingle, LoginIsAlone, AuthTypeOK
    <3>4. Picks'
      BY <1>0, <3>0, <3>2 DEF Picks, AuthTypeOK
    <3>5. CodeSpentOnce'
      BY <1>0, <3>0, <3>2 DEF CodeSpentOnce, AuthTypeOK
    <3> QED BY <3>1, <3>2, <3>3, <3>4, <3>5
  <2>8. CASE WrongCode(r) \/ Verified(r) \/ ResetDone(r) \/ Fails(r)
    <3>0. stage[r] # "idle" /\ Over(r) /\ account' = account /\ otp' = otp
      BY <2>8 DEF WrongCode, Verified, ResetDone, Fails, syncVars
    <3>1. live' \subseteq live
      BY <2>8 DEF WrongCode, Verified, ResetDone, Fails
    <3>2. Unborn'
      BY <3>0 DEF Unborn
    <3>3. Alone'
      BY <1>0, <3>0 DEF Over, Alone, AuthTypeOK
    <3>4. alone' = {}
      BY <1>0, <3>0 DEF Over, Alone, AuthTypeOK
    <3>5. Sessions'
      BY <1>0, <3>0, <3>1, <3>4
         DEF Over, Sessions, CalmIsSingle, LoginIsAlone, AuthTypeOK
    <3>6. (Picks /\ CodeSpentOnce)'
      BY <1>0, <3>0, <3>4 DEF Over, Picks, CodeSpentOnce, AuthTypeOK
    <3> QED BY <3>2, <3>3, <3>5, <3>6
  <2>9. CASE Consume(r)
    <3>1. (Unborn /\ Alone /\ Picks)'
      BY <1>0, <2>9 DEF Consume, Unborn, Alone, Picks, syncVars, AuthTypeOK
    <3>2. Sessions'
      BY <1>0, <2>9 DEF Consume, Sessions, CalmIsSingle, LoginIsAlone, AuthTypeOK
    <3>3. \A q \in alone : q = r
      BY <1>0, <2>9 DEF Consume, Alone, AuthTypeOK
    <3>4. CodeSpentOnce'
      BY <1>0, <2>9, <3>3 DEF Consume, CodeSpentOnce, AuthTypeOK
    <3> QED BY <3>1, <3>2, <3>4
  <2> QED BY <1>4, <2>1, <2>2, <2>3, <2>4, <2>5, <2>6, <2>7, <2>8, <2>9
          DEF RequestStep
<1>5. CASE UNCHANGED vars
  BY <1>5 DEF vars, syncVars, authVars, Unborn, Alone, Sessions, CalmIsSingle,
              LoginIsAlone, Picks, CodeSpentOnce
<1> QED BY <1>1, <1>2, <1>3, <1>4, <1>5 DEF Next

LEMMA AuthInvariance == Spec => [](TypeOK /\ AuthInv)
<1>1. Init => AuthInv
  BY DEF Init, SyncInit, AuthInv, Unborn, Alone, Sessions, CalmIsSingle,
         LoginIsAlone, Picks, CodeSpentOnce
<1>2. TypeOK /\ AuthInv /\ [Next]_vars => (TypeOK /\ AuthInv)'
  BY TypeNext, AuthInvNext
<1> QED BY <1>1, <1>2, TypeInit, PTL DEF Spec

(* As long as requests do not overlap there is one session, and a login    *)
(* nobody overlaps ends with one session whatever was before.              *)
THEOREM SingleSession == Spec => []OneSession
<1>1. AuthInv => OneSession
  BY DEF AuthInv, Sessions, OneSession
<1> QED BY <1>1, AuthInvariance, PTL

(* An unoverlapped reset never goes by a code that was consumed or worn    *)
(* out.                                                                    *)
THEOREM CodesAreSpentOnce == Spec => []CodeSpentOnce
<1>1. AuthInv => CodeSpentOnce
  BY DEF AuthInv
<1> QED BY <1>1, AuthInvariance, PTL

-----------------------------------------------------------------------------
(* The requests that compare with a code: each may still count one attempt.*)
Comparing(c) ==
    {r \in Requests : stage[r] \in {"verify", "reset"} /\ picked[r] = c}

Counts ==
    \A c \in Codes :
        attempts[c] + Cardinality(Comparing(c))
            <= MaxAttempts + Cardinality(Requests) - 1

LEMMA ComparingFinite ==
    ASSUME NEW c
    PROVE  /\ IsFiniteSet(Comparing(c))
           /\ Cardinality(Comparing(c)) \in Nat
           /\ Cardinality(Requests) \in Nat
           /\ Cardinality(Comparing(c)) <= Cardinality(Requests)
<1>1. Comparing(c) \subseteq Requests
  BY DEF Comparing
<1> QED BY <1>1, RequestsAssumption, FS_Subset, FS_CardinalityType

(* Where a code gains neither attempts nor comparisons, the bound is kept. *)
LEMMA CountsKept ==
    ASSUME AuthTypeOK, AuthTypeOK', Counts, NEW c \in Codes,
           attempts'[c] = attempts[c],
           Comparing(c)' \subseteq Comparing(c)
    PROVE  attempts'[c] + Cardinality(Comparing(c)')
               <= MaxAttempts + Cardinality(Requests) - 1
<1>1. /\ Cardinality(Comparing(c)') <= Cardinality(Comparing(c))
      /\ Cardinality(Comparing(c)') \in Nat
  BY ComparingFinite, FS_Subset, FS_CardinalityType
<1>2. attempts[c] \in Nat
  BY DEF AuthTypeOK
<1>3. attempts[c] + Cardinality(Comparing(c))
          <= MaxAttempts + Cardinality(Requests) - 1
  BY DEF Counts
<1> QED BY <1>1, <1>2, <1>3, ComparingFinite

LEMMA CountsNext ==
    ASSUME TypeOK, TypeOK', AuthInv, Counts, [Next]_vars
    PROVE  Counts'
<1>0. AuthTypeOK /\ AuthTypeOK' /\ Picks
  BY TypeSplits DEF TypeOK, AuthTypeOK, AuthInv
<1> SUFFICES ASSUME NEW c \in Codes
             PROVE  attempts'[c] + Cardinality(Comparing(c)')
                        <= MaxAttempts + Cardinality(Requests) - 1
  BY DEF Counts
<1>1. CASE UNCHANGED <<attempts, stage, picked>>
  BY <1>0, <1>1, CountsKept DEF Comparing
<1>2. ASSUME NEW r \in Requests, Begins(r, "session") \/ Begins(r, "revoke")
                                     \/ Begins(r, "rotate"),
             UNCHANGED <<attempts, picked>>
      PROVE  Comparing(c)' \subseteq Comparing(c)
  BY <1>0, <1>2 DEF Begins, Comparing, AuthTypeOK
<1>3. ASSUME NEW r \in Requests, Register(r) \/ Login(r) \/ Refresh(r)
      PROVE  attempts'[c] = attempts[c] /\ Comparing(c)' \subseteq Comparing(c)
  BY <1>2, <1>3 DEF Register, Login, Refresh
<1>4. ASSUME NEW r \in Requests, LoginRevokes(r) \/ Rotate(r) \/ Consume(r)
      PROVE  attempts'[c] = attempts[c] /\ Comparing(c)' \subseteq Comparing(c)
  BY <1>0, <1>4 DEF LoginRevokes, Rotate, Consume, Comparing, AuthTypeOK
<1>5. ASSUME NEW r \in Requests, Over(r)
      PROVE  Comparing(c)' \subseteq Comparing(c) \ {r}
  BY <1>0, <1>5 DEF Over, Comparing, AuthTypeOK
<1>6. ASSUME NEW r \in Requests,
             SessionMade(r) \/ Verified(r) \/ ResetDone(r) \/ Fails(r)
      PROVE  attempts'[c] = attempts[c] /\ Comparing(c)' \subseteq Comparing(c)
  BY <1>5, <1>6 DEF SessionMade, Verified, ResetDone, Fails
<1>7. ASSUME NEW r \in Requests, WrongCode(r)
      PROVE  attempts'[c] + Cardinality(Comparing(c)')
                 <= MaxAttempts + Cardinality(Requests) - 1
  <2>1. /\ stage[r] \in {"verify", "reset"} /\ picked[r] \in Codes
        /\ attempts' = [attempts EXCEPT ![picked[r]] = @ + 1]
        /\ Over(r)
    BY <1>0, <1>7 DEF WrongCode, Picks
  <2>2. CASE picked[r] = c
    <3>1. r \in Comparing(c)
      BY <2>1, <2>2 DEF Comparing
    <3>2. Cardinality(Comparing(c) \ {r}) = Cardinality(Comparing(c)) - 1
      BY <3>1, ComparingFinite, FS_RemoveElement
    <3>3. IsFiniteSet(Comparing(c) \ {r})
      BY ComparingFinite, FS_Subset
    <3>4. /\ Cardinality(Comparing(c)') <= Cardinality(Comparing(c)) - 1
          /\ Cardinality(Comparing(c)') \in Nat
      BY <1>5, <2>1, <3>2, <3>3, FS_Subset, FS_CardinalityType
    <3>5. PICK n \in Nat : n = attempts[c]
      BY <1>0, Zenon DEF AuthTypeOK
    <3>6. attempts'[c] = n + 1
      BY <1>0, <2>1, <2>2, <3>5 DEF AuthTypeOK
    <3>7. n + Cardinality(Comparing(c)) <= MaxAttempts + Cardinality(Requests) - 1
      BY <3>5 DEF Counts
    <3> QED BY <3>4, <3>6, <3>7, ComparingFinite
  <2>3. CASE picked[r] # c
    <3>1. attempts'[c] = attempts[c]
      BY <1>0, <2>1, <2>3 DEF AuthTypeOK
    <3> QED BY <1>0, <1>5, <2>1, <3>1, CountsKept
  <2> QED BY <2>2, <2>3
<1>8. ASSUME NEW r \in Requests, NEW d \in Codes, NEW next \in {"verify", "reset"},
             Pick(r, d, next)
      PROVE  attempts'[c] + Cardinality(Comparing(c)')
                 <= MaxAttempts + Cardinality(Requests) - 1
  <2>1. /\ attempts[d] < MaxAttempts /\ attempts' = attempts
        /\ picked' = [picked EXCEPT ![r] = d]
        /\ stage[r] = "idle" /\ stage' = [stage EXCEPT ![r] = next]
    BY <1>8 DEF Pick, Begins
  <2>2. CASE d = c
    <3>1. Comparing(c)' \subseteq Requests
      BY DEF Comparing
    <3>2. /\ Cardinality(Comparing(c)') <= Cardinality(Requests)
          /\ Cardinality(Comparing(c)') \in Nat
      BY <3>1, RequestsAssumption, FS_Subset, FS_CardinalityType
    <3>3. PICK n \in Nat : n = attempts[c]
      BY <1>0, Zenon DEF AuthTypeOK
    <3>4. attempts'[c] = n /\ n < MaxAttempts
      BY <2>1, <2>2, <3>3
    <3>5. MaxAttempts \in Nat /\ Cardinality(Requests) \in Nat
      BY ComparingFinite
    <3>6. PICK k \in Nat : k = Cardinality(Comparing(c)')
      BY <3>2
    <3>7. n + k <= MaxAttempts + Cardinality(Requests) - 1
      BY <3>2, <3>4, <3>5, <3>6
    <3> QED BY <3>4, <3>6, <3>7
  <2>3. CASE d # c
    <3>1. Comparing(c)' \subseteq Comparing(c)
      BY <1>0, <2>1, <2>3 DEF Comparing, AuthTypeOK
    <3> QED BY <1>0, <2>1, <3>1, CountsKept
  <2> QED BY <2>2, <2>3
<1>9. ASSUME NEW r \in Requests, RequestStep(r)
      PROVE  attempts'[c] + Cardinality(Comparing(c)')
                 <= MaxAttempts + Cardinality(Requests) - 1
  BY <1>0, <1>3, <1>4, <1>6, <1>7, <1>8, <1>9, CountsKept DEF RequestStep
<1> QED BY <1>1, <1>9 DEF Next, Logout, IssueCode, Expire, vars, authVars

(* However many requests compare codes at once, the attempts at one exceed *)
(* the limit by less than their number.                                    *)
THEOREM AttemptsAreBounded == Spec => []AttemptsBounded
<1>1. Init => Counts
  <2> SUFFICES ASSUME Init, NEW c \in Codes
               PROVE  attempts[c] + Cardinality(Comparing(c))
                          <= MaxAttempts + Cardinality(Requests) - 1
    BY DEF Counts
  <2>1. attempts[c] = 0 /\ Comparing(c) = {}
    BY DEF Init, Comparing
  <2>2. Cardinality(Comparing(c)) = 0
    BY <2>1, FS_EmptySet
  <2>3. Cardinality(Requests) \in Nat
    BY ComparingFinite
  <2> QED BY <2>1, <2>2, <2>3
<1>2. TypeOK /\ TypeOK' /\ AuthInv /\ Counts /\ [Next]_vars => Counts'
  BY CountsNext
<1>3. TypeOK /\ Counts => AttemptsBounded
  <2> SUFFICES ASSUME TypeOK, Counts, NEW c \in Codes
               PROVE  attempts[c] <= MaxAttempts + Cardinality(Requests) - 1
    BY DEF AttemptsBounded
  <2>1. PICK n \in Nat : n = attempts[c]
    BY Zenon DEF TypeOK
  <2>2. n + Cardinality(Comparing(c)) <= MaxAttempts + Cardinality(Requests) - 1
    BY <2>1 DEF Counts
  <2> QED BY <2>1, <2>2, ComparingFinite
<1> QED BY <1>1, <1>2, <1>3, AuthInvariance, PTL DEF Spec
(* A code is consumed once, and its attempts are bounded.                  *)
THEOREM CodesAreProtected == Spec => []CodesProtect
<1>1. CodeSpentOnce /\ AttemptsBounded => CodesProtect
  BY DEF CodesProtect
<1> QED BY <1>1, CodesAreSpentOnce, AttemptsAreBounded, PTL
=============================================================================
