--------------------------- MODULE AccountsProofs ---------------------------
(***************************************************************************)
(* Proofs about Accounts, for every number of visitors, addresses,         *)
(* requests, sessions and comments, and for every limit.                   *)
(*                                                                         *)
(* The limit on logins is the one that needs an argument: a login that     *)
(* passed the limit and has not been answered yet is a failure to come, so *)
(* that the failures of a window and those logins are bounded together.    *)
(***************************************************************************)
EXTENDS Accounts, FiniteSetTheorems, TLAPS

-----------------------------------------------------------------------------
(***************************************************************************)
(* What a request holds, and what the limiter makes of a window.           *)
(***************************************************************************)

LEMMA RequestHas ==
  ASSUME NEW q \in Requests
  PROVE  /\ q.step = "claim" => q.person \in Person
         /\ q.step = "verify" => q.client \in Client /\ q.person \in Person
         /\ q.step = "session" => q.client \in Client \cup {NoClient} /\ q.person \in Person
         /\ q.step \in {"check", "find", "insert"} => q.document \in Document
         /\ q.step = "act" => q.token \in Token
  BY DEF Requests, Idle

LEMMA RequestMade ==
  /\ Idle \in Requests
  /\ \A p \in Person : [step |-> "claim", person |-> p] \in Requests
  /\ \A c \in Client, p \in Person :
       [step |-> "verify", client |-> c, person |-> p] \in Requests
  /\ \A c \in Client \cup {NoClient}, p \in Person :
       [step |-> "session", person |-> p, client |-> c] \in Requests
  /\ \A d \in Document, s \in {"check", "find", "insert"} : [step |-> s, document |-> d] \in Requests
  /\ \A t \in Token : [step |-> "act", token |-> t] \in Requests
  BY DEF Requests

LEMMA WindowKept ==
  ASSUME NEW max \in Nat \ {0}, NEW w \in Window(max)
  PROVE  /\ NewWindow \in Window(max)
         /\ Current(w) \in Window(max)
         /\ Recorded(w, max) \in Window(max)
         /\ ~Current(w).over
  BY DEF Window, NewWindow, Current, Recorded

-----------------------------------------------------------------------------
(***************************************************************************)
(* Each property, step by step.                                            *)
(***************************************************************************)

\* Every step keeps the types.
LEMMA TypesNext ==
  ASSUME TypeOK, [Next]_vars
  PROVE  TypeOK'
<1> USE LimitsAssumption DEF vars, accountVars, limitVars, siteVars, TypeOK
<1>1. ASSUME NEW r \in Request, NEW p \in Person, BeginSetup(r, p) PROVE TypeOK'
  BY <1>1, RequestMade DEF BeginSetup, Go
<1>2. ASSUME NEW r \in Request, Claim(r) PROVE TypeOK'
  <2>1. requests[r].person \in Person
    BY <1>2, RequestHas DEF Claim, At
  <2>2. requests' \in [Request -> Requests]
    BY <1>2, <2>1, RequestMade DEF Claim, Go
  <2>3. users' \subseteq Person /\ claimed' \in BOOLEAN
    BY <1>2, <2>1 DEF Claim, Claimable
  <2> QED BY <1>2, <2>2, <2>3 DEF Claim
<1>3. ASSUME NEW r \in Request, NEW c \in Client, NEW p \in Person, BeginLogin(r, c, p)
      PROVE TypeOK'
  <2> DEFINE k == <<c, p>>
  <2>1. k \in Key
    BY DEF Key
  <2>2. Current(logins[k]) \in Window(MaxLogins) /\ FailuresNow(k) \in Nat
    BY <2>1, WindowKept DEF FailuresNow
  <2>3. requests' \in [Request -> Requests]
    BY <1>3, RequestMade DEF BeginLogin, Go
  <2> QED BY <1>3, <2>1, <2>2, <2>3 DEF BeginLogin
<1>4. ASSUME NEW r \in Request, Verify(r) PROVE TypeOK'
  BY <1>4, RequestHas, RequestMade DEF Verify, At, Go
<1>5. ASSUME NEW r \in Request, FailLogin(r) PROVE TypeOK'
  <2> DEFINE k == <<requests[r].client, requests[r].person>>
  <2>1. k \in Key
    BY <1>5, RequestHas DEF FailLogin, At, Key
  <2>2. Recorded(LoginWindow(k), MaxLogins) \in Window(MaxLogins) /\ FailuresNow(k) + 1 \in Nat
    BY <2>1, WindowKept DEF FailuresNow, LoginWindow
  <2>3. requests' \in [Request -> Requests]
    BY <1>5, RequestMade DEF FailLogin, Go
  <2> QED BY <1>5, <2>1, <2>2, <2>3 DEF FailLogin
<1>6. ASSUME NEW r \in Request, IssueSession(r) PROVE TypeOK'
  BY <1>6, RequestHas, RequestMade DEF IssueSession, At, Go
<1>7. ASSUME NEW r \in Request, NEW t \in Token, Authenticate(r, t) PROVE TypeOK'
  BY <1>7, RequestHas, RequestMade DEF Authenticate, At, Go
<1>8. ASSUME NEW r \in Request, Logout(r) PROVE TypeOK'
  BY <1>8, RequestHas, RequestMade DEF Logout, At, Go
<1>9. ASSUME NEW r \in Request, SwitchComments(r) PROVE TypeOK'
  BY <1>9, RequestHas, RequestMade DEF SwitchComments, At, Go
<1>10. ASSUME NEW r \in Request, NEW m \in Comment, Approve(r, m) PROVE TypeOK'
  BY <1>10, RequestHas, RequestMade DEF Approve, At, Go, CommentRow
<1>11. ASSUME NEW r \in Request, NEW d \in Document, Publish(r, d) PROVE TypeOK'
  BY <1>11, RequestHas, RequestMade DEF Publish, At, Go
<1>12. ASSUME NEW r \in Request, NEW d \in Document, DeleteDocument(r, d) PROVE TypeOK'
  BY <1>12, RequestHas, RequestMade DEF DeleteDocument, At, Go, CommentRow
<1>13. ASSUME NEW r \in Request, NEW c \in Client, NEW d \in Document, BeginComment(r, c, d)
      PROVE TypeOK'
  <2> DEFINE w == Current(posts[c])
  <2>1. w \in Window(MaxComments) /\ Recorded(w, MaxComments) \in Window(MaxComments)
    BY WindowKept
  <2>2. requests' \in [Request -> Requests]
    BY <1>13, RequestMade DEF BeginComment, Go
  <2> QED BY <1>13, <2>1, <2>2 DEF BeginComment
<1>14. ASSUME NEW r \in Request, CheckEnabled(r) PROVE TypeOK'
  <2>1. [requests[r] EXCEPT !.step = "find"] \in Requests
    BY <1>14 DEF CheckEnabled, At, Requests, Idle
  <2> QED BY <1>14, <2>1, RequestMade DEF CheckEnabled, Continue, Go
<1>15. ASSUME NEW r \in Request, FindArticle(r) PROVE TypeOK'
  <2>1. [requests[r] EXCEPT !.step = "insert"] \in Requests
    BY <1>15 DEF FindArticle, At, Requests, Idle
  <2> QED BY <1>15, <2>1, RequestMade DEF FindArticle, Continue, Go
<1>16. ASSUME NEW r \in Request, InsertComment(r) PROVE TypeOK'
  BY <1>16, RequestHas, RequestMade DEF InsertComment, Insertable, At, Go, CommentRow
<1>17. ASSUME NEW r \in Request, Drop(r) PROVE TypeOK'
  BY <1>17, RequestHas, RequestMade DEF Drop, At, Go
<1>18. ASSUME NEW t \in Token, Expire(t) PROVE TypeOK'
  BY <1>18, RequestHas, RequestMade DEF Expire
<1>19. ASSUME NEW k \in Key, EndLoginWindow(k) PROVE TypeOK'
  <2>1. [logins[k] EXCEPT !.over = TRUE] \in Window(MaxLogins)
    BY DEF Window
  <2> QED BY <1>19, <2>1 DEF EndLoginWindow
<1>20. ASSUME NEW c \in Client, EndPostWindow(c) PROVE TypeOK'
  <2>1. [posts[c] EXCEPT !.over = TRUE] \in Window(MaxComments)
    BY DEF Window
  <2> QED BY <1>20, <2>1 DEF EndPostWindow
<1>21. CASE Restart
  BY <1>21, RequestMade, WindowKept DEF Restart, NewWindow, Window
<1>22. CASE UNCHANGED vars
  BY <1>22
<1> QED BY <1>1, <1>2, <1>3, <1>4, <1>5, <1>6, <1>7, <1>8, <1>9, <1>10, <1>11, <1>12,
           <1>13, <1>14, <1>15, <1>16, <1>17, <1>18, <1>19, <1>20, <1>21, <1>22 DEF
           Next, SetupStep, LoginStep, OwnerStep, CommentStep, TimeStep

\* Only a claim of an unclaimed installation adds a user.
LEMMA OwnerNext ==
  ASSUME TypeOK, OneOwner, [Next]_vars
  PROVE  OneOwner'
<1> USE DEF vars, accountVars, limitVars, siteVars, OneOwner, TypeOK, Requests
<1>1. ASSUME NEW r \in Request, NEW p \in Person, BeginSetup(r, p) PROVE OneOwner'
  BY <1>1 DEF BeginSetup, At, Go, Idle
<1>2. ASSUME NEW r \in Request, Claim(r) PROVE OneOwner'
  BY <1>2 DEF Claim, Claimable, At, Go, Idle
<1>3. ASSUME NEW r \in Request, NEW c \in Client, NEW p \in Person, BeginLogin(r, c, p)
           PROVE OneOwner'
  BY <1>3 DEF BeginLogin, Headroom, LoginWindow, Current, NewWindow, FailuresNow, At, Go
<1>4. ASSUME NEW r \in Request, Verify(r) PROVE OneOwner'
  BY <1>4 DEF Verify, At, Go
<1>5. ASSUME NEW r \in Request, FailLogin(r) PROVE OneOwner'
  BY <1>5 DEF FailLogin, Recorded, LoginWindow, Current, NewWindow, FailuresNow, At, Go, Idle
<1>6. ASSUME NEW r \in Request, IssueSession(r) PROVE OneOwner'
  BY <1>6 DEF IssueSession, At, Go, Idle
<1>7. ASSUME NEW r \in Request, NEW t \in Token, Authenticate(r, t) PROVE OneOwner'
  BY <1>7 DEF Authenticate, At, Go
<1>8. ASSUME NEW r \in Request, Logout(r) PROVE OneOwner'
  BY <1>8 DEF Logout, At, Go, Idle
<1>9. ASSUME NEW r \in Request, SwitchComments(r) PROVE OneOwner'
  BY <1>9 DEF SwitchComments, At, Go, Idle
<1>10. ASSUME NEW r \in Request, NEW m \in Comment, Approve(r, m) PROVE OneOwner'
  BY <1>10 DEF Approve, At, Go, Idle
<1>11. ASSUME NEW r \in Request, NEW d \in Document, Publish(r, d) PROVE OneOwner'
  BY <1>11 DEF Publish, At, Go, Idle
<1>12. ASSUME NEW r \in Request, NEW d \in Document, DeleteDocument(r, d) PROVE
           OneOwner'
  BY <1>12 DEF DeleteDocument, At, Go, Idle
<1>13. ASSUME NEW r \in Request, NEW c \in Client, NEW d \in Document, BeginComment(r,
           c, d) PROVE OneOwner'
  BY <1>13 DEF BeginComment, Headroom, Recorded, Current, NewWindow, At, Go
<1>14. ASSUME NEW r \in Request, CheckEnabled(r) PROVE OneOwner'
  BY <1>14 DEF CheckEnabled, Continue, At, Go, Idle
<1>15. ASSUME NEW r \in Request, FindArticle(r) PROVE OneOwner'
  BY <1>15 DEF FindArticle, Continue, At, Go, Idle
<1>16. ASSUME NEW r \in Request, InsertComment(r) PROVE OneOwner'
  BY <1>16 DEF InsertComment, Insertable, At, Go, Idle
<1>17. ASSUME NEW r \in Request, Drop(r) PROVE OneOwner'
  BY <1>17 DEF Drop, At, Go, Idle
<1>18. ASSUME NEW t \in Token, Expire(t) PROVE OneOwner'
  BY <1>18 DEF Expire
<1>19. ASSUME NEW k \in Key, EndLoginWindow(k) PROVE OneOwner'
  BY <1>19 DEF EndLoginWindow
<1>20. ASSUME NEW c \in Client, EndPostWindow(c) PROVE OneOwner'
  BY <1>20 DEF EndPostWindow
<1>21. CASE Restart
  BY <1>21 DEF Restart, Idle, NewWindow
<1>22. CASE UNCHANGED vars
  BY <1>22
<1> QED BY <1>1, <1>2, <1>3, <1>4, <1>5, <1>6, <1>7, <1>8, <1>9, <1>10, <1>11, <1>12,
           <1>13, <1>14, <1>15, <1>16, <1>17, <1>18, <1>19, <1>20, <1>21, <1>22 DEF
           Next, SetupStep, LoginStep, OwnerStep, CommentStep, TimeStep

\* A comment is inserted, or its article deleted, in one step.
LEMMA ResolveNext ==
  ASSUME TypeOK, CommentsResolve, [Next]_vars
  PROVE  CommentsResolve'
<1> USE DEF vars, accountVars, limitVars, siteVars, CommentsResolve, TypeOK, CommentRow
<1>1. ASSUME NEW r \in Request, NEW p \in Person, BeginSetup(r, p) PROVE
           CommentsResolve'
  BY <1>1 DEF BeginSetup, At, Go, Idle
<1>2. ASSUME NEW r \in Request, Claim(r) PROVE CommentsResolve'
  BY <1>2 DEF Claim, Claimable, At, Go, Idle
<1>3. ASSUME NEW r \in Request, NEW c \in Client, NEW p \in Person, BeginLogin(r, c, p)
           PROVE CommentsResolve'
  BY <1>3 DEF BeginLogin, Headroom, LoginWindow, Current, NewWindow, FailuresNow, At, Go
<1>4. ASSUME NEW r \in Request, Verify(r) PROVE CommentsResolve'
  BY <1>4 DEF Verify, At, Go
<1>5. ASSUME NEW r \in Request, FailLogin(r) PROVE CommentsResolve'
  BY <1>5 DEF FailLogin, Recorded, LoginWindow, Current, NewWindow, FailuresNow, At, Go, Idle
<1>6. ASSUME NEW r \in Request, IssueSession(r) PROVE CommentsResolve'
  BY <1>6 DEF IssueSession, At, Go, Idle
<1>7. ASSUME NEW r \in Request, NEW t \in Token, Authenticate(r, t) PROVE
           CommentsResolve'
  BY <1>7 DEF Authenticate, At, Go
<1>8. ASSUME NEW r \in Request, Logout(r) PROVE CommentsResolve'
  BY <1>8 DEF Logout, At, Go, Idle
<1>9. ASSUME NEW r \in Request, SwitchComments(r) PROVE CommentsResolve'
  BY <1>9 DEF SwitchComments, At, Go, Idle
<1>10. ASSUME NEW r \in Request, NEW m \in Comment, Approve(r, m) PROVE CommentsResolve'
  BY <1>10 DEF Approve, At, Go, Idle
<1>11. ASSUME NEW r \in Request, NEW d \in Document, Publish(r, d) PROVE
           CommentsResolve'
  BY <1>11 DEF Publish, At, Go, Idle
<1>12. ASSUME NEW r \in Request, NEW d \in Document, DeleteDocument(r, d) PROVE
           CommentsResolve'
  BY <1>12 DEF DeleteDocument, At, Go, Idle
<1>13. ASSUME NEW r \in Request, NEW c \in Client, NEW d \in Document, BeginComment(r,
           c, d) PROVE CommentsResolve'
  BY <1>13 DEF BeginComment, Headroom, Recorded, Current, NewWindow, At, Go
<1>14. ASSUME NEW r \in Request, CheckEnabled(r) PROVE CommentsResolve'
  BY <1>14 DEF CheckEnabled, Continue, At, Go, Idle
<1>15. ASSUME NEW r \in Request, FindArticle(r) PROVE CommentsResolve'
  BY <1>15 DEF FindArticle, Continue, At, Go, Idle
<1>16. ASSUME NEW r \in Request, InsertComment(r) PROVE CommentsResolve'
  <2>1. requests[r].document \in Document
    BY <1>16, RequestHas DEF InsertComment, At
  <2>2. CASE Insertable(requests[r].document)
    BY <1>16, <2>1, <2>2 DEF InsertComment, Insertable
  <2>3. CASE ~Insertable(requests[r].document)
    BY <1>16, <2>3 DEF InsertComment
  <2> QED BY <2>2, <2>3
<1>17. ASSUME NEW r \in Request, Drop(r) PROVE CommentsResolve'
  BY <1>17 DEF Drop, At, Go, Idle
<1>18. ASSUME NEW t \in Token, Expire(t) PROVE CommentsResolve'
  BY <1>18 DEF Expire
<1>19. ASSUME NEW k \in Key, EndLoginWindow(k) PROVE CommentsResolve'
  BY <1>19 DEF EndLoginWindow
<1>20. ASSUME NEW c \in Client, EndPostWindow(c) PROVE CommentsResolve'
  BY <1>20 DEF EndPostWindow
<1>21. CASE Restart
  BY <1>21 DEF Restart, Idle, NewWindow
<1>22. CASE UNCHANGED vars
  BY <1>22
<1> QED BY <1>1, <1>2, <1>3, <1>4, <1>5, <1>6, <1>7, <1>8, <1>9, <1>10, <1>11, <1>12,
           <1>13, <1>14, <1>15, <1>16, <1>17, <1>18, <1>19, <1>20, <1>21, <1>22 DEF
           Next, SetupStep, LoginStep, OwnerStep, CommentStep, TimeStep

-----------------------------------------------------------------------------
(***************************************************************************)
(* The limit on logins.                                                    *)
(***************************************************************************)

\* The request has passed the limit and may still fail.
Admitted(q, k) ==
  /\ q.step = "verify" \/ (q.step = "session" /\ q.client # NoClient)
  /\ <<q.client, q.person>> = k

Pending(k) == {r \in Request : Admitted(requests[r], k)}

\* What is counted, and what may yet be.
CountIsExact ==
  \A k \in Key : logins[k].count = IF failures[k] < MaxLogins THEN failures[k] ELSE MaxLogins

PendingIsBounded ==
  \A k \in Key : failures[k] + Cardinality(Pending(k)) < MaxLogins + Cardinality(Request)

LEMMA PendingFinite ==
  ASSUME NEW k
  PROVE  /\ IsFiniteSet(Pending(k)) /\ Cardinality(Pending(k)) \in Nat
         /\ Cardinality(Pending(k)) <= Cardinality(Request) /\ Cardinality(Request) \in Nat
<1>1. Pending(k) \subseteq Request
  BY DEF Pending
<1> QED BY <1>1, RequestAssumption, FS_Subset, FS_CardinalityType

\* A request that does not become a pending login for k leaves no more of them.
LEMMA NoneAdded ==
  ASSUME NEW k, NEW r \in Request, NEW q, requests \in [Request -> Requests],
         Go(r, q), Admitted(q, k) => Admitted(requests[r], k)
  PROVE  Cardinality(Pending(k)') <= Cardinality(Pending(k)) /\ Cardinality(Pending(k)') \in Nat
<1>1. Pending(k)' \subseteq Pending(k)
  BY DEF Pending, Go
<1> QED BY <1>1, PendingFinite, FS_Subset, FS_CardinalityType

\* One request makes at most one more.
LEMMA OneAdded ==
  ASSUME NEW k, NEW r \in Request, NEW q, requests \in [Request -> Requests],
         Go(r, q), ~Admitted(requests[r], k)
  PROVE  /\ Cardinality(Pending(k)') <= Cardinality(Pending(k)) + 1
         /\ Cardinality(Pending(k)') \in Nat
         /\ Cardinality(Pending(k)) < Cardinality(Request)
<1>1. Pending(k)' \subseteq Pending(k) \cup {r} /\ r \notin Pending(k)
  BY DEF Pending, Go
<1>2. Cardinality(Pending(k) \cup {r}) = Cardinality(Pending(k)) + 1
  BY <1>1, PendingFinite, FS_AddElement
<1>3. IsFiniteSet(Pending(k) \cup {r})
  BY PendingFinite, FS_AddElement
<1>4. Pending(k) \cup {r} \subseteq Request
  BY DEF Pending
<1>5. Cardinality(Pending(k) \cup {r}) <= Cardinality(Request)
  BY <1>4, RequestAssumption, FS_Subset
<1> QED BY <1>1, <1>2, <1>3, <1>5, PendingFinite, FS_Subset, FS_CardinalityType

\* One that ends was one of them.
LEMMA OneRemoved ==
  ASSUME NEW k, NEW r \in Request, requests \in [Request -> Requests],
         Go(r, Idle), Admitted(requests[r], k)
  PROVE  /\ Cardinality(Pending(k)') = Cardinality(Pending(k)) - 1
         /\ Cardinality(Pending(k)') \in Nat
         /\ Cardinality(Pending(k)) \in Nat \ {0}
<1>1. Pending(k)' = Pending(k) \ {r} /\ r \in Pending(k)
  BY DEF Pending, Go, Admitted, Idle
<1>2. Cardinality(Pending(k) \ {r}) = Cardinality(Pending(k)) - 1 /\ IsFiniteSet(Pending(k) \ {r})
  BY <1>1, PendingFinite, FS_RemoveElement
<1>3. Cardinality(Pending(k)) # 0
  BY <1>1, PendingFinite, FS_EmptySet
<1> QED BY <1>1, <1>2, <1>3, PendingFinite, FS_CardinalityType

\* The steps that neither count a failure nor admit a login.
LEMMA OtherSteps ==
  ASSUME TypeOK, PendingIsBounded, CountIsExact,
         UNCHANGED <<logins, failures>>,
         UNCHANGED requests
           \/ \E r \in Request : \E q : Go(r, q) /\ \A k \in Key : Admitted(q, k) => Admitted(requests[r], k)
  PROVE  PendingIsBounded' /\ CountIsExact'
<1>1. CountIsExact'
  BY DEF CountIsExact
<1>2. ASSUME NEW k \in Key
      PROVE failures'[k] + Cardinality(Pending(k)') < MaxLogins + Cardinality(Request)
  <2>1. Cardinality(Pending(k)') <= Cardinality(Pending(k)) /\ Cardinality(Pending(k)') \in Nat
    <3>1. CASE UNCHANGED requests
      BY <3>1, PendingFinite DEF Pending
    <3>2. CASE \E r \in Request : \E q : Go(r, q) /\ \A l \in Key : Admitted(q, l) => Admitted(requests[r], l)
      BY <3>2, NoneAdded DEF TypeOK
    <3> QED BY <3>1, <3>2
  <2>2. failures[k] + Cardinality(Pending(k)) < MaxLogins + Cardinality(Request)
    BY DEF PendingIsBounded
  <2>3. failures[k] \in Nat
    BY DEF TypeOK
  <2> QED BY <2>1, <2>2, <2>3, PendingFinite, LimitsAssumption
<1> QED BY <1>1, <1>2 DEF PendingIsBounded

LEMMA LimiterNext ==
  ASSUME TypeOK, PendingIsBounded, CountIsExact, [Next]_vars
  PROVE  PendingIsBounded' /\ CountIsExact'
<1> USE DEF vars, accountVars, limitVars, siteVars
<1>1. ASSUME NEW r \in Request, NEW c \in Client, NEW p \in Person, BeginLogin(r, c, p)
      PROVE PendingIsBounded' /\ CountIsExact'
  <2> DEFINE k == <<c, p>>
  <2>1. k \in Key /\ logins[k] \in Window(MaxLogins) /\ failures[k] \in Nat /\ FailuresNow(k) \in Nat
    BY DEF Key, TypeOK, FailuresNow
  <2>2. CountIsExact'
    BY <1>1, <2>1, LimitsAssumption
       DEF BeginLogin, CountIsExact, TypeOK, Current, NewWindow, FailuresNow
  <2>3. ASSUME NEW l \in Key
        PROVE failures'[l] + Cardinality(Pending(l)') < MaxLogins + Cardinality(Request)
    <3>1. failures[l] + Cardinality(Pending(l)) < MaxLogins + Cardinality(Request)
      BY DEF PendingIsBounded
    <3>2. failures'[l] \in Nat /\ failures'[l] <= failures[l] /\ failures[l] \in Nat
      BY <1>1, <2>1 DEF BeginLogin, FailuresNow, TypeOK
    <3>3. CASE UNCHANGED requests
      <4>1. Pending(l)' = Pending(l)
        BY <3>3 DEF Pending
      <4>2. Cardinality(Pending(l)') = Cardinality(Pending(l))
        BY <4>1
      <4> QED BY <3>1, <3>2, <4>2, PendingFinite, LimitsAssumption
    <3>4. CASE /\ Headroom(LoginWindow(k), MaxLogins)
               /\ Go(r, [step |-> "verify", client |-> c, person |-> p])
      <4> DEFINE q == [step |-> "verify", client |-> c, person |-> p]
      <4>1. ~Admitted(requests[r], l)
        BY <1>1 DEF BeginLogin, At, Admitted
      <4>2. CASE l = k
        <5>1. failures'[k] < MaxLogins
          BY <1>1, <2>1, <3>4, LimitsAssumption
             DEF BeginLogin, Headroom, LoginWindow, Current, FailuresNow, CountIsExact, TypeOK
        <5>2. /\ Cardinality(Pending(l)') <= Cardinality(Pending(l)) + 1
              /\ Cardinality(Pending(l)') \in Nat
              /\ Cardinality(Pending(l)) < Cardinality(Request)
          BY <3>4, <4>1, OneAdded DEF TypeOK
        <5> QED BY <3>2, <4>2, <5>1, <5>2, PendingFinite, LimitsAssumption
      <4>3. CASE l # k
        <5>1. Cardinality(Pending(l)') <= Cardinality(Pending(l)) /\ Cardinality(Pending(l)') \in Nat
          <6>1. ~Admitted(q, l)
            BY <4>3 DEF Admitted
          <6> QED BY <3>4, <6>1, NoneAdded DEF TypeOK
        <5> QED BY <3>1, <3>2, <5>1, PendingFinite, LimitsAssumption
      <4> QED BY <4>2, <4>3
    <3> QED BY <1>1, <3>3, <3>4 DEF BeginLogin
  <2> QED BY <2>2, <2>3 DEF PendingIsBounded
<1>2. ASSUME NEW r \in Request, FailLogin(r) PROVE PendingIsBounded' /\ CountIsExact'
  <2> DEFINE k == <<requests[r].client, requests[r].person>>
  <2>1. k \in Key /\ Admitted(requests[r], k)
    BY <1>2, RequestHas DEF FailLogin, At, Key, TypeOK, Admitted
  <2>2. logins[k] \in Window(MaxLogins) /\ failures[k] \in Nat
    BY <2>1 DEF TypeOK
  <2>3. CountIsExact'
    BY <1>2, <2>1, <2>2, LimitsAssumption
       DEF FailLogin, CountIsExact, TypeOK, Recorded, LoginWindow, Current, NewWindow, FailuresNow, Window
  <2>4. ASSUME NEW l \in Key
        PROVE failures'[l] + Cardinality(Pending(l)') < MaxLogins + Cardinality(Request)
    <3>1. failures[l] + Cardinality(Pending(l)) < MaxLogins + Cardinality(Request)
      BY DEF PendingIsBounded
    <3>2. Go(r, Idle) /\ failures[l] \in Nat
      BY <1>2 DEF FailLogin, TypeOK
    <3>3. CASE l = k
      <4>1. /\ Cardinality(Pending(l)') = Cardinality(Pending(l)) - 1
            /\ Cardinality(Pending(l)') \in Nat
            /\ Cardinality(Pending(l)) \in Nat \ {0}
        BY <2>1, <3>2, <3>3, OneRemoved DEF TypeOK
      <4>2. failures'[l] = failures[l] + 1 \/ failures'[l] = 1
        BY <1>2, <2>1, <2>2, <3>3 DEF FailLogin, FailuresNow, TypeOK
      <4> QED BY <3>1, <3>2, <4>1, <4>2, PendingFinite, LimitsAssumption
    <3>4. CASE l # k
      <4>1. failures'[l] = failures[l]
        BY <1>2, <2>1, <3>4 DEF FailLogin, TypeOK
      <4>2. Cardinality(Pending(l)') <= Cardinality(Pending(l)) /\ Cardinality(Pending(l)') \in Nat
        <5>1. ~Admitted(Idle, l)
          BY DEF Admitted, Idle
        <5> QED BY <3>2, <5>1, NoneAdded DEF TypeOK
      <4> QED BY <3>1, <3>2, <4>1, <4>2, PendingFinite, LimitsAssumption
    <3> QED BY <3>3, <3>4
  <2> QED BY <2>3, <2>4 DEF PendingIsBounded
<1>3. ASSUME NEW k \in Key, EndLoginWindow(k) PROVE PendingIsBounded' /\ CountIsExact'
  BY <1>3 DEF EndLoginWindow, PendingIsBounded, CountIsExact, Pending, TypeOK, Window
<1>4. CASE Restart
  <2>1. CountIsExact'
    BY <1>4, LimitsAssumption DEF Restart, CountIsExact, NewWindow
  <2>2. ASSUME NEW k \in Key PROVE Pending(k)' = {}
    BY <1>4 DEF Restart, Pending, Admitted, Idle
  <2>3. ASSUME NEW k \in Key
        PROVE failures'[k] + Cardinality(Pending(k)') < MaxLogins + Cardinality(Request)
    <3>1. failures'[k] = 0 /\ Cardinality(Pending(k)') = 0
      BY <1>4, <2>2, FS_EmptySet DEF Restart
    <3> QED BY <3>1, PendingFinite, LimitsAssumption
  <2> QED BY <2>1, <2>3 DEF PendingIsBounded
<1>5. ASSUME NEW r \in Request, Claim(r) PROVE PendingIsBounded' /\ CountIsExact'
  BY <1>5, OtherSteps DEF Claim, Admitted, Idle
<1>6. ASSUME NEW r \in Request, Verify(r) PROVE PendingIsBounded' /\ CountIsExact'
  <2> DEFINE q == [step |-> "session", person |-> requests[r].person, client |-> requests[r].client]
  <2>1. \A k \in Key : Admitted(q, k) => Admitted(requests[r], k)
    BY <1>6 DEF Verify, At, Admitted
  <2> QED BY <1>6, <2>1, OtherSteps DEF Verify
<1>7. ASSUME NEW r \in Request, NEW p \in Person, BeginSetup(r, p)
      PROVE PendingIsBounded' /\ CountIsExact'
  BY <1>7, OtherSteps DEF BeginSetup, Admitted
<1>8. ASSUME NEW r \in Request, IssueSession(r) \/ OwnerStep(r) \/ InsertComment(r) \/ Drop(r)
      PROVE PendingIsBounded' /\ CountIsExact'
  <2>1. UNCHANGED <<logins, failures>> /\ \E q : Go(r, q) /\ (q = Idle \/ \E t \in Token : q = [step |-> "act", token |-> t])
    BY <1>8 DEF IssueSession, OwnerStep, Authenticate, Logout, SwitchComments, Approve, Publish,
       DeleteDocument, InsertComment, Drop
  <2> QED BY <2>1, OtherSteps DEF Admitted, Idle
<1>9. ASSUME NEW r \in Request, NEW c \in Client, NEW d \in Document, BeginComment(r, c, d)
      PROVE PendingIsBounded' /\ CountIsExact'
  <2>1. UNCHANGED requests \/ Go(r, [step |-> "check", document |-> d])
    BY <1>9 DEF BeginComment
  <2> QED BY <1>9, <2>1, OtherSteps DEF BeginComment, Admitted
<1>10. ASSUME NEW r \in Request, CheckEnabled(r) \/ FindArticle(r)
       PROVE PendingIsBounded' /\ CountIsExact'
  <2>1. requests[r] \in Requests
    BY DEF TypeOK
  <2>2. \E q : Go(r, q) /\ (q = Idle \/ q.step \in {"find", "insert"})
    BY <1>10, <2>1 DEF CheckEnabled, FindArticle, Continue, At, Requests, Idle
  <2> QED BY <1>10, <2>2, OtherSteps DEF CheckEnabled, FindArticle, Admitted, Idle
<1>11. CASE (\E t \in Token : Expire(t)) \/ (\E c \in Client : EndPostWindow(c)) \/ UNCHANGED vars
  BY <1>11, OtherSteps DEF Expire, EndPostWindow
<1> QED BY <1>1, <1>2, <1>3, <1>4, <1>5, <1>6, <1>7, <1>8, <1>9, <1>10, <1>11
        DEF Next, SetupStep, LoginStep, CommentStep, TimeStep

-----------------------------------------------------------------------------

IInv ==
  /\ TypeOK
  /\ OneOwner
  /\ CommentsResolve
  /\ PendingIsBounded
  /\ CountIsExact

LEMMA InvariantInit == Init => IInv
<1> SUFFICES ASSUME Init PROVE IInv
  OBVIOUS
<1>1. TypeOK
  <2>1. NewWindow \in Window(MaxLogins) /\ NewWindow \in Window(MaxComments)
    BY LimitsAssumption DEF NewWindow, Window
  <2>2. status \in [Document -> {"draft", "published", "deleted"}]
    BY DEF Init
  <2>3. requests \in [Request -> Requests] /\ comments \in [Comment -> CommentRow]
    BY RequestMade DEF Init, CommentRow
  <2>4. sessions \in [Token -> {"none", "live", "ended"}] /\ failures \in [Key -> Nat]
    BY DEF Init
  <2> QED BY <2>1, <2>2, <2>3, <2>4 DEF Init, TypeOK
<1>2. OneOwner /\ CommentsResolve
  BY DEF Init, OneOwner, CommentsResolve
<1>3. CountIsExact
  BY LimitsAssumption DEF Init, CountIsExact, NewWindow
<1>4. ASSUME NEW k \in Key PROVE Pending(k) = {}
  BY DEF Init, Pending, Admitted, Idle
<1>5. PendingIsBounded
  BY <1>4, FS_EmptySet, PendingFinite, LimitsAssumption DEF Init, PendingIsBounded
<1> QED BY <1>1, <1>2, <1>3, <1>5 DEF IInv

\* The invariant that every theorem below follows from.
LEMMA Invariant == Spec => []IInv
<1>1. IInv /\ [Next]_vars => IInv'
  BY TypesNext, OwnerNext, ResolveNext, LimiterNext DEF IInv
<1> QED BY <1>1, InvariantInit, PTL DEF Spec

\* Accounts, sessions, windows and comments have their types.
THEOREM TypeCorrect == Spec => []TypeOK
<1>1. IInv => TypeOK
  BY DEF IInv
<1> QED BY <1>1, Invariant, PTL

\* However many visitors claim the installation, it has one owner or none
\* (create_first_user).
THEOREM OwnerIsUnique == Spec => []OneOwner
<1>1. IInv => OneOwner
  BY DEF IInv
<1> QED BY <1>1, Invariant, PTL

\* Comments belong to articles that exist (CommentService::create, the foreign key).
THEOREM CommentsHaveArticles == Spec => []CommentsResolve
<1>1. IInv => CommentsResolve
  BY DEF IInv
<1> QED BY <1>1, Invariant, PTL

\* A window sees fewer failures than the limit and the requests together, and its
\* count is theirs (try_login, RateLimiter).
THEOREM LimitHolds == Spec => []FailuresAreBounded
<1>1. IInv => FailuresAreBounded
  <2> SUFFICES ASSUME IInv, NEW k \in Key
               PROVE  /\ failures[k] < MaxLogins + Cardinality(Request)
                      /\ logins[k].count = IF failures[k] < MaxLogins THEN failures[k] ELSE MaxLogins
    BY DEF FailuresAreBounded
  <2>1. failures[k] + Cardinality(Pending(k)) < MaxLogins + Cardinality(Request)
    BY DEF IInv, PendingIsBounded
  <2>2. failures[k] \in Nat
    BY DEF IInv, TypeOK
  <2>3. failures[k] < MaxLogins + Cardinality(Request)
    BY <2>1, <2>2, PendingFinite, LimitsAssumption
  <2> QED BY <2>3 DEF IInv, CountIsExact
<1> QED BY <1>1, Invariant, PTL
=============================================================================
