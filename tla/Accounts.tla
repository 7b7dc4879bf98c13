------------------------------ MODULE Accounts ------------------------------
(***************************************************************************)
(* Who may do what: the first-run setup, logins and their limit, sessions, *)
(* and the comments that strangers leave and the owner moderates.          *)
(*                                                                         *)
(* A request awaits the database between its steps, so requests overlap;   *)
(* it ends early when a call fails or its client hangs up, and all of them *)
(* end with the process.  The limits are kept in memory and are exact only *)
(* within one call.                                                        *)
(*                                                                         *)
(* Time is abstracted to what depends on it: a window may be over, and a   *)
(* session may have expired, at any moment.                                *)
(***************************************************************************)
EXTENDS Naturals, FiniteSets

CONSTANTS
  Person,       \* those who may claim the installation or try to log in
  Client,       \* addresses that requests come from
  Request,      \* requests served concurrently
  Token,        \* session tokens
  Document,     \* articles
  Comment,      \* identifiers of comments
  MaxLogins,    \* failed logins in a window, per client and account
  MaxComments,  \* comments in a window, per client
  NoClient,     \* the client of a setup, which is not limited
  NoDocument    \* the document of a comment that is not there

ASSUME LimitsAssumption == MaxLogins \in Nat \ {0} /\ MaxComments \in Nat \ {0}
ASSUME RequestAssumption == IsFiniteSet(Request)
ASSUME NullAssumption == NoClient \notin Client /\ NoDocument \notin Document

VARIABLES
  claimed,      \* settings "setup.complete"
  users,        \* the table of users
  sessions,     \* each token: not issued, live, or expired or deleted
  requests,     \* the requests in flight
  logins,       \* windows of the login limit
  posts,        \* windows of the comment limit
  failures,     \* history: logins that failed since the window began
  enabled,      \* settings "comments.enabled"
  status,       \* documents.status
  comments      \* comments.document_id and comments.status

accountVars == <<claimed, users, sessions>>
limitVars == <<logins, posts, failures>>
siteVars == <<enabled, status, comments>>
vars == <<accountVars, requests, limitVars, siteVars>>

Key == Client \X Person

Window(max) == [count : 0..max, over : BOOLEAN]

Idle == [step |-> "idle"]

Requests ==
  {Idle} \cup [step : {"claim"}, person : Person]
         \cup [step : {"verify"}, client : Client, person : Person]
         \cup [step : {"session"}, client : Client \cup {NoClient}, person : Person]
         \cup [step : {"check", "find", "insert"}, document : Document]
         \cup [step : {"act"}, token : Token]

CommentRow ==
  [document : Document \cup {NoDocument}, status : {"none", "pending", "approved", "deleted"}]

TypeOK ==
  /\ claimed \in BOOLEAN
  /\ users \subseteq Person
  /\ sessions \in [Token -> {"none", "live", "ended"}]
  /\ requests \in [Request -> Requests]
  /\ logins \in [Key -> Window(MaxLogins)]
  /\ posts \in [Client -> Window(MaxComments)]
  /\ failures \in [Key -> Nat]
  /\ enabled \in BOOLEAN
  /\ status \in [Document -> {"draft", "published", "deleted"}]
  /\ comments \in [Comment -> CommentRow]

-----------------------------------------------------------------------------
(***************************************************************************)
(* The limiter: fixed windows, each call under one mutex.                  *)
(***************************************************************************)

NewWindow == [count |-> 0, over |-> FALSE]

\* RateLimiter::window: an elapsed window begins anew.
Current(w) == IF w.over THEN NewWindow ELSE w

\* RateLimiter::record: the count saturates.
Recorded(w, max) == IF w.count < max THEN [w EXCEPT !.count = @ + 1] ELSE w

\* (mutant) One more than the limit.
HeadroomAndOne(w, max) == w.count <= max

Headroom(w, max) == w.count < max

-----------------------------------------------------------------------------

Init ==
  /\ claimed = FALSE
  /\ users = {}
  /\ sessions = [t \in Token |-> "none"]
  /\ requests = [r \in Request |-> Idle]
  /\ logins = [k \in Key |-> NewWindow]
  /\ posts = [c \in Client |-> NewWindow]
  /\ failures = [k \in Key |-> 0]
  /\ enabled = FALSE
  /\ status \in [Document -> {"draft", "published"}]
  /\ comments = [c \in Comment |-> [document |-> NoDocument, status |-> "none"]]

At(r, step) == requests[r].step = step

Go(r, request) == requests' = [requests EXCEPT ![r] = request]

\* The window of a key as a call finds it, and as it leaves it.
LoginWindow(k) == Current(logins[k])

FailuresNow(k) == IF logins[k].over THEN 0 ELSE failures[k]

-----------------------------------------------------------------------------
(***************************************************************************)
(* Setup.  The check comes long before the claim: a password is hashed in  *)
(* between.                                                                *)
(***************************************************************************)

BeginSetup(r, p) ==
  /\ At(r, "idle")
  /\ ~claimed
  /\ Go(r, [step |-> "claim", person |-> p])
  /\ UNCHANGED <<accountVars, limitVars, siteVars>>

\* (mutant) The check of is_setup_complete was enough.
ClaimableWhenChecked == TRUE

\* The marker is inserted ON CONFLICT DO NOTHING: was it?
Claimable == ~claimed

\* create_first_user, one transaction.
Claim(r) ==
  /\ At(r, "claim")
  /\ IF Claimable
       THEN /\ claimed' = TRUE
            /\ users' = users \cup {requests[r].person}
            /\ Go(r, [step |-> "session", person |-> requests[r].person, client |-> NoClient])
       ELSE Go(r, Idle) /\ UNCHANGED <<claimed, users>>
  /\ UNCHANGED <<sessions, limitVars, siteVars>>

-----------------------------------------------------------------------------
(***************************************************************************)
(* Logging in.  The limit is read before the password is checked and       *)
(* written after, and only a failure is written.                           *)
(***************************************************************************)

\* try_login up to the query of the user: peek, which begins an elapsed window anew.
BeginLogin(r, c, p) ==
  LET k == <<c, p>> IN
  /\ At(r, "idle")
  /\ IF Headroom(LoginWindow(k), MaxLogins)
       THEN Go(r, [step |-> "verify", client |-> c, person |-> p])
       ELSE UNCHANGED requests
  /\ logins' = [logins EXCEPT ![k] = Current(@)]
  /\ failures' = [failures EXCEPT ![k] = FailuresNow(k)]
  /\ UNCHANGED <<accountVars, posts, siteVars>>

\* The password is right.
Verify(r) ==
  /\ At(r, "verify")
  /\ requests[r].person \in users
  /\ Go(r, [step |-> "session", person |-> requests[r].person, client |-> requests[r].client])
  /\ UNCHANGED <<accountVars, limitVars, siteVars>>

\* The password is wrong, the account unknown, or a call fails: a slot is used
\* before anything else is awaited.
FailLogin(r) ==
  LET k == <<requests[r].client, requests[r].person>> IN
  /\ At(r, "verify") \/ (At(r, "session") /\ requests[r].client # NoClient)
  /\ logins' = [logins EXCEPT ![k] = Recorded(LoginWindow(k), MaxLogins)]
  /\ failures' = [failures EXCEPT ![k] = FailuresNow(k) + 1]
  /\ Go(r, Idle)
  /\ UNCHANGED <<accountVars, posts, siteVars>>

\* create_session: the token is a new UUID.
IssueSession(r) ==
  /\ At(r, "session")
  /\ \E t \in Token : sessions[t] = "none" /\ sessions' = [sessions EXCEPT ![t] = "live"]
  /\ Go(r, Idle)
  /\ UNCHANGED <<claimed, users, limitVars, siteVars>>

-----------------------------------------------------------------------------
(***************************************************************************)
(* What the owner does.  The session is looked up first, and what the      *)
(* request does comes after.                                               *)
(***************************************************************************)

\* AuthUser::from_request_parts: of sessions that have expired nothing is found.
Authenticate(r, t) ==
  /\ At(r, "idle")
  /\ sessions[t] = "live"
  /\ Go(r, [step |-> "act", token |-> t])
  /\ UNCHANGED <<accountVars, limitVars, siteVars>>

Logout(r) ==
  /\ At(r, "act")
  /\ sessions' = [sessions EXCEPT ![requests[r].token] = "ended"]
  /\ Go(r, Idle)
  /\ UNCHANGED <<claimed, users, limitVars, siteVars>>

\* set_comment_status: a comment that is gone is not found.
Approve(r, c) ==
  /\ At(r, "act")
  /\ comments' = IF comments[c].status = "pending"
                   THEN [comments EXCEPT ![c].status = "approved"] ELSE comments
  /\ Go(r, Idle)
  /\ UNCHANGED <<accountVars, limitVars, enabled, status>>

\* SettingsService::update, of which the last statement matters here.
SwitchComments(r) ==
  /\ At(r, "act")
  /\ enabled' = ~enabled
  /\ Go(r, Idle)
  /\ UNCHANGED <<accountVars, limitVars, status, comments>>

Publish(r, d) ==
  /\ At(r, "act")
  /\ status' = IF status[d] = "draft" THEN [status EXCEPT ![d] = "published"] ELSE status
  /\ Go(r, Idle)
  /\ UNCHANGED <<accountVars, limitVars, enabled, comments>>

\* The comments of an article go with it.
DeleteDocument(r, d) ==
  /\ At(r, "act")
  /\ status' = [status EXCEPT ![d] = "deleted"]
  /\ comments' = [c \in Comment |-> IF comments[c].document = d
                                      THEN [comments[c] EXCEPT !.status = "deleted"]
                                      ELSE comments[c]]
  /\ Go(r, Idle)
  /\ UNCHANGED <<accountVars, limitVars, enabled>>

-----------------------------------------------------------------------------
(***************************************************************************)
(* Comments, from the form and from the API.  A slot of the limit is used  *)
(* before the switch, the article and the insertion, three calls, whatever *)
(* comes of them.  The form looks at the switch before the slot too, which *)
(* leaves fewer of the same behaviours.                                    *)
(***************************************************************************)

BeginComment(r, c, d) ==
  LET w == Current(posts[c]) IN
  /\ At(r, "idle")
  /\ IF Headroom(w, MaxComments)
       THEN /\ posts' = [posts EXCEPT ![c] = Recorded(w, MaxComments)]
            /\ Go(r, [step |-> "check", document |-> d])
       ELSE posts' = [posts EXCEPT ![c] = w] /\ UNCHANGED requests
  /\ UNCHANGED <<accountVars, logins, failures, siteVars>>

Continue(r, step, goes) ==
  IF goes THEN Go(r, [requests[r] EXCEPT !.step = step]) ELSE Go(r, Idle)

CheckEnabled(r) ==
  /\ At(r, "check")
  /\ Continue(r, "find", enabled)
  /\ UNCHANGED <<accountVars, limitVars, siteVars>>

FindArticle(r) ==
  /\ At(r, "find")
  /\ Continue(r, "insert", status[requests[r].document] = "published")
  /\ UNCHANGED <<accountVars, limitVars, siteVars>>

\* (mutant) A row for whatever was found.
InsertableOnceFound(d) == TRUE

\* The foreign key of comments.document_id.
Insertable(d) == status[d] # "deleted"

InsertComment(r) ==
  LET d == requests[r].document IN
  /\ At(r, "insert")
  /\ IF Insertable(d)
       THEN \E c \in Comment :
              /\ comments[c].status = "none"
              /\ comments' = [comments EXCEPT ![c] = [document |-> d, status |-> "pending"]]
       ELSE UNCHANGED comments
  /\ Go(r, Idle)
  /\ UNCHANGED <<accountVars, limitVars, enabled, status>>

-----------------------------------------------------------------------------

\* A call of a request that is not a login fails, or the client hangs up.
Drop(r) ==
  /\ ~At(r, "idle")
  /\ Go(r, Idle)
  /\ UNCHANGED <<accountVars, limitVars, siteVars>>

Expire(t) ==
  /\ sessions[t] = "live"
  /\ sessions' = [sessions EXCEPT ![t] = "ended"]
  /\ UNCHANGED <<claimed, users, requests, limitVars, siteVars>>

\* A minute has passed; an untouched window is as good as new.
EndLoginWindow(k) ==
  /\ logins[k].count > 0
  /\ logins' = [logins EXCEPT ![k].over = TRUE]
  /\ UNCHANGED <<accountVars, requests, posts, failures, siteVars>>

EndPostWindow(c) ==
  /\ posts[c].count > 0
  /\ posts' = [posts EXCEPT ![c].over = TRUE]
  /\ UNCHANGED <<accountVars, requests, logins, failures, siteVars>>

\* The windows are lost with the process.
Restart ==
  /\ requests' = [r \in Request |-> Idle]
  /\ logins' = [k \in Key |-> NewWindow]
  /\ posts' = [c \in Client |-> NewWindow]
  /\ failures' = [k \in Key |-> 0]
  /\ UNCHANGED <<accountVars, siteVars>>

SetupStep(r) == (\E p \in Person : BeginSetup(r, p)) \/ Claim(r)

LoginStep(r) ==
  (\E c \in Client, p \in Person : BeginLogin(r, c, p)) \/ Verify(r) \/ FailLogin(r) \/ IssueSession(r)

OwnerStep(r) ==
  \/ \E t \in Token : Authenticate(r, t)
  \/ Logout(r) \/ SwitchComments(r)
  \/ \E c \in Comment : Approve(r, c)
  \/ \E d \in Document : Publish(r, d) \/ DeleteDocument(r, d)

CommentStep(r) ==
  \/ \E c \in Client, d \in Document : BeginComment(r, c, d)
  \/ CheckEnabled(r) \/ FindArticle(r) \/ InsertComment(r)

TimeStep ==
  \/ \E t \in Token : Expire(t)
  \/ \E k \in Key : EndLoginWindow(k)
  \/ \E c \in Client : EndPostWindow(c)

Next ==
  \/ \E r \in Request : SetupStep(r) \/ LoginStep(r) \/ OwnerStep(r) \/ CommentStep(r) \/ Drop(r)
  \/ TimeStep \/ Restart

Spec == Init /\ [][Next]_vars

-----------------------------------------------------------------------------

\* However many visitors of a fresh installation send the setup form at once, and
\* wherever the process dies: the installation is claimed by one user, and is
\* never claimed and without one, which nobody could repair (create_first_user
\* inserts marker and user in one transaction).
OneOwner == IF claimed THEN \E p \in Person : users = {p} ELSE users = {}

\* Peeking first and recording later admits more failures than the limit, but no
\* more than one for each other request in flight; and the count is what was
\* recorded, so no key is refused without having failed that often (try_login,
\* RateLimiter::peek and record).
FailuresAreBounded ==
  \A k \in Key :
    /\ failures[k] < MaxLogins + Cardinality(Request)
    /\ logins[k].count = IF failures[k] < MaxLogins THEN failures[k] ELSE MaxLogins

\* Every comment belongs to an article that exists, also when the article was
\* deleted after the comment's request had found it (the foreign key and its
\* cascade; CommentService::create looks the article up first).
CommentsResolve ==
  \A c \in Comment :
    comments[c].status \in {"pending", "approved"} =>
      comments[c].document \in Document /\ status[comments[c].document] # "deleted"
=============================================================================
