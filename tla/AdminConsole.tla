---------------------------- MODULE AdminConsole ----------------------------
(***************************************************************************)
(* The web console in front of the admin server: the session of            *)
(* web/src/auth/AuthContext.tsx, the requests of api/client.ts, the routes *)
(* of App.tsx with ProtectedRoute.tsx, and the pages.  One browser tab,    *)
(* and somebody else who also sends requests.                              *)
(*                                                                         *)
(* Answers come in any order, whatever the user does meanwhile: the token  *)
(* is read when a request is sent and written when an answer comes.  The   *)
(* effects of a page that was just mounted run before anything else.       *)
(***************************************************************************)
EXTENDS AdminServer

CONSTANTS
  MaxPolls,  \* bound: snapshots one visit of the overview asks for
  MaxTokens, \* bound: tokens signed
  Typed,     \* what the visitor may type into the forms: requests without a token
  Outside,   \* the requests of somebody else
  Stored     \* the users whose token localStorage may hold at first

ASSUME ConsoleAssumption ==
  /\ MaxPolls \in Nat /\ Stored \subseteq User
  /\ Typed \subseteq Requests(0)
  /\ \A r \in Outside : r.token \in Nat /\ r \in Requests(r.token)

VARIABLES
  token,    \* what localStorage holds, 0 for nothing
  status,   \* the session: "loading", "authenticated", "anonymous"
  user,     \* whose profile the session shows
  page,     \* the route, and the tab of the dashboard
  purpose,  \* what the console does with the answer of each of its calls
  live,     \* the calls whose component is still mounted
  busy,     \* the forms in flight
  table,    \* what the users tab shows
  polls,    \* snapshots asked for since the overview was mounted
  seq,      \* the place of each snapshot among them
  snapshot, \* the place of the one shown
  known     \* history: per call, the users whose creation the console was told of
            \* when it sent it

session == <<token, status, user>>
overview == <<polls, seq, snapshot>>
consoleVars == <<session, page, purpose, live, busy, table, overview, known>>
vars == <<serverVars, consoleVars>>

Page == {"login", "overview", "users", "profile"}
Form == {"login", "query", "column", "create", "profile", "password"}
Purpose == Form \cup {"none", "boot", "refresh", "obs", "table", "reload", "done"}
NoTable == [load |-> "due", view |-> NoView]

ConsoleInit(tok) ==
  /\ token = tok /\ status = "loading" /\ user = None
  /\ page \in {"login", "overview", "profile"}
  /\ purpose = [c \in Call |-> "none"] /\ live = {} /\ busy = {} /\ table = NoTable
  /\ polls = 0 /\ seq = [c \in Call |-> 0] /\ snapshot = 0
  /\ known = [c \in Call |-> {}]

\* The component on the screen.  Nothing but the login page shows before the
\* session is known; it leaves when the session is, the others when it is not.
Mounted(p, st) == IF st = "authenticated" \/ p = "login" THEN p ELSE "nothing"
Routed(p, st) ==
  IF st = "authenticated" /\ p = "login" THEN "overview"
  ELSE IF st = "anonymous" THEN "login" ELSE p

\* A new route or session: what is unmounted loses its state, and the answers
\* of its calls find nobody.
Turn(p, st) ==
  LET q == Routed(p, st) IN
  /\ page' = q /\ status' = st
  /\ IF Mounted(q, st) = Mounted(page, status)
     THEN UNCHANGED <<busy, table, polls, snapshot>>
     ELSE /\ busy' = {} /\ table' = NoTable
          /\ polls' = 0 /\ snapshot' = 0

Unmounts == Mounted(page', status') # Mounted(page, status)
Live == IF Unmounts THEN {} ELSE live

-----------------------------------------------------------------------------
(***************************************************************************)
(* Sending.  The token is read here.                                       *)
(***************************************************************************)
\* The creations the console was told of, and has not forgotten.
Told == {c \in Acknowledged : purpose[c] = "done" /\ request[c].kind = "create"}
Users(calls) == {request[c].user : c \in calls}

Free == {c \in Call : pc[c] = "unsent"}
Ask(c, r, what) ==
  /\ Send(c, r)
  /\ purpose' = [purpose EXCEPT ![c] = what] /\ live' = live \cup {c}
  /\ known' = [known EXCEPT ![c] = Users(Told)]

\* The effects of what was mounted last.
BootDue == status = "loading" /\ \A c \in Call : purpose[c] # "boot"
LoadDue == Mounted(page, status) = "users" /\ table.load = "due"
PollDue == Mounted(page, status) = "overview" /\ polls = 0
Quiet == Free = {} \/ ~(BootDue \/ LoadDue \/ PollDue)

Boot ==
  /\ BootDue
  /\ IF token = 0
     THEN Turn(page, "anonymous") /\ UNCHANGED <<serverVars, token, user, purpose, live, seq, known>>
     ELSE /\ \E c \in Call : Ask(c, Plain("me", token), "boot")
          /\ UNCHANGED <<session, page, busy, table, overview>>

Load ==
  /\ LoadDue /\ table' = [table EXCEPT !.load = "asked"]
  /\ \E c \in Call : Ask(c, Plain("list", token), "table")
  /\ UNCHANGED <<session, page, busy, overview>>

\* load() of the overview: once when it is mounted, then every five seconds.
Poll ==
  /\ Mounted(page, status) = "overview" /\ polls < MaxPolls
  /\ polls' = polls + 1
  /\ \E c \in Call : Ask(c, Plain("obs", token), "obs") /\ seq' = [seq EXCEPT ![c] = polls']
  /\ UNCHANGED <<session, page, busy, table, snapshot>>

\* A form is sent, and stays disabled until it has its result.
Submit(form) ==
  /\ Quiet /\ form \notin busy /\ busy' = busy \cup {form}
  /\ \E c \in Call, r \in Typed :
       r.kind = form /\ Ask(c, [r EXCEPT !.token = token], form)
  /\ UNCHANGED <<session, page, table, overview>>

SubmitLogin ==
  /\ Mounted(page, status) = "login" /\ Len(issued) < MaxTokens
  /\ Submit("login")

\* The users tab hides its forms when the list could not be loaded, and from
\* viewers.
SubmitUsers ==
  /\ Mounted(page, status) = "users" /\ table.load # "error" /\ user \in Admin
  /\ \E form \in {"query", "column", "create"} : Submit(form)

SubmitProfile ==
  /\ Mounted(page, status) = "profile" /\ user # None
  /\ \E form \in {"profile", "password"} : Submit(form)

-----------------------------------------------------------------------------
(***************************************************************************)
(* Receiving, in any order.                                                *)
(***************************************************************************)
Landed(c, what) ==
  /\ Quiet /\ purpose[c] = what /\ pc[c] \in {"answered", "lost"}
Ok(c) == pc[c] = "answered" /\ answer[c].status \in {200, 201}
Bearer(c) == issued[request[c].token]

\* request(): any 401 clears the token, whoever's it is by now.
TokenAfter(c) == IF pc[c] = "answered" /\ answer[c].status = 401 THEN 0 ELSE token
Clears(c) == token' = TokenAfter(c)
Forget(c) ==
  /\ purpose' = [purpose EXCEPT ![c] = IF request[c].kind \in Changes THEN "done" ELSE "none"]
  /\ known' = [known EXCEPT ![c] = {}]
  /\ Release(c)
Done(c) == Forget(c) /\ live' = live \ {c}
Freed(c, form) == busy' = IF c \in live THEN busy \ {form} ELSE busy

ReceiveBoot(c) ==
  /\ Landed(c, "boot")
  /\ IF Ok(c) THEN user' = Bearer(c) /\ Turn(page, "authenticated") /\ UNCHANGED token
     ELSE token' = 0 /\ Turn(page, "anonymous") /\ UNCHANGED user
  /\ Forget(c) /\ live' = Live \ {c} /\ UNCHANGED seq

\* navigate('/') leaves a dashboard that is mounted already on its tab.
ReceiveLogin(c) ==
  /\ Landed(c, "login")
  /\ IF Ok(c)
     THEN /\ token' = answer[c].token /\ user' = request[c].user
          /\ Turn(IF page = "users" THEN page ELSE "overview", "authenticated")
     ELSE /\ Clears(c) /\ Freed(c, "login")
          /\ UNCHANGED <<status, user, page, table, polls, snapshot>>
  /\ Forget(c) /\ live' = Live \ {c} /\ UNCHANGED seq

\* loadUsers(), on its own or at the end of createUser().
ReceiveTable(c) ==
  /\ \/ Landed(c, "table") /\ UNCHANGED busy
     \/ Landed(c, "reload") /\ Freed(c, "create")
  /\ Clears(c)
  /\ table' = IF c \notin live THEN table
              ELSE IF Ok(c) THEN [load |-> "shown", view |-> answer[c].view]
              ELSE [table EXCEPT !.load = "error"]
  /\ UNCHANGED <<status, user, page, overview>>
  /\ Done(c)

\* A second request follows the one that succeeded.
Then(c, d, r, what) ==
  /\ Send(d, r)
  /\ purpose' = [purpose EXCEPT ![c] = "done", ![d] = what]
  /\ known' = [known EXCEPT ![c] = {}, ![d] = Users(Told)']
  /\ live' = IF c \in live THEN (live \ {c}) \cup {d} ELSE live
Fails(c, form) == Done(c) /\ Clears(c) /\ Freed(c, form)

ReceiveCreate(c) ==
  /\ Landed(c, "create")
  /\ IF Ok(c) THEN /\ \E d \in Call : Then(c, d, Plain("list", token), "reload")
                   /\ UNCHANGED <<token, busy>>
     ELSE Fails(c, "create")
  /\ UNCHANGED <<status, user, page, table, overview>>

ReceiveProfile(c) ==
  /\ Landed(c, "profile")
  /\ IF Ok(c) THEN /\ \E d \in Call : Then(c, d, Plain("me", token), "refresh")
                   /\ UNCHANGED <<token, busy>>
     ELSE Fails(c, "profile")
  /\ UNCHANGED <<status, user, page, table, overview>>

\* refresh() sets the user whether or not there still is a session.
ReceiveRefresh(c) ==
  /\ Landed(c, "refresh") /\ Clears(c) /\ Freed(c, "profile")
  /\ user' = IF Ok(c) THEN Bearer(c) ELSE user
  /\ UNCHANGED <<status, page, table, overview>>
  /\ Done(c)

ReceiveColumn(c) ==
  /\ Landed(c, "column") /\ Clears(c) /\ Freed(c, "column")
  /\ table' = IF c \in live /\ Ok(c) THEN [table EXCEPT !.view = answer[c].view] ELSE table
  /\ UNCHANGED <<status, user, page, overview>>
  /\ Done(c)

ReceiveForm(c) ==
  /\ \E form \in {"query", "password"} : Landed(c, form) /\ Freed(c, form)
  /\ Clears(c)
  /\ UNCHANGED <<status, user, page, table, overview>>
  /\ Done(c)

\* Fault: whatever arrives is shown.
ReceiveAnyObs(c) ==
  /\ Landed(c, "obs") /\ Clears(c)
  /\ snapshot' = IF c \in live /\ Ok(c) THEN seq[c] ELSE snapshot
  /\ seq' = [seq EXCEPT ![c] = 0]
  /\ UNCHANGED <<status, user, page, busy, table, polls>>
  /\ Done(c)

\* A snapshot that a newer poll has overtaken is dropped.
ReceiveObs(c) ==
  /\ Landed(c, "obs") /\ Clears(c)
  /\ snapshot' = IF c \in live /\ seq[c] = polls /\ Ok(c) THEN seq[c] ELSE snapshot
  /\ seq' = [seq EXCEPT ![c] = 0]
  /\ UNCHANGED <<status, user, page, busy, table, polls>>
  /\ Done(c)

Receive(c) ==
  \/ ReceiveBoot(c) \/ ReceiveLogin(c) \/ ReceiveTable(c) \/ ReceiveCreate(c)
  \/ ReceiveProfile(c) \/ ReceiveRefresh(c) \/ ReceiveColumn(c) \/ ReceiveForm(c)
  \/ ReceiveObs(c)

-----------------------------------------------------------------------------
Logout ==
  /\ Quiet /\ status = "authenticated"
  /\ token' = 0 /\ user' = None /\ Turn("login", "anonymous") /\ live' = Live
  /\ UNCHANGED <<serverVars, purpose, seq, known>>

Navigate ==
  /\ Quiet /\ status = "authenticated"
  /\ \E p \in {"overview", "users", "profile"} \ {page} : Turn(p, status)
  /\ live' = Live
  /\ UNCHANGED <<serverVars, token, user, purpose, seq, known>>

\* The page is loaded again: only localStorage is left, and the path.
Reload ==
  /\ Quiet
  /\ status' = "loading" /\ user' = None
  /\ page' = IF page = "users" THEN "overview" ELSE page
  /\ purpose' = [c \in Call |-> "none"] /\ live' = {} /\ busy' = {} /\ table' = NoTable
  /\ polls' = 0 /\ seq' = [c \in Call |-> 0] /\ snapshot' = 0 /\ known' = [c \in Call |-> {}]
  /\ UNCHANGED <<serverVars, token>>

Effects == Boot \/ Load \/ Poll
Act == SubmitLogin \/ SubmitUsers \/ SubmitProfile \/ Logout \/ Navigate \/ Reload

SomebodyElse ==
  \E c \in Call :
    /\ \/ \E r \in Outside : Send(c, r)
       \/ purpose[c] = "none" /\ pc[c] \in {"answered", "lost"} /\ Release(c)
    /\ UNCHANGED consoleVars

Serve(c) == Handle(c) /\ UNCHANGED consoleVars

Next ==
  \/ \E c \in Call : Serve(c) \/ Receive(c)
  \/ Effects \/ Act \/ SomebodyElse
  \/ World /\ UNCHANGED consoleVars

Init == ServerInit /\ issued \in {<<>>} \cup {<<u>> : u \in Stored} /\ ConsoleInit(Len(issued))
Spec == Init /\ [][Next]_vars

-----------------------------------------------------------------------------
TypeOK ==
  /\ ServerTypeOK
  /\ token \in 0 .. Len(issued) /\ status \in {"loading", "authenticated", "anonymous"}
  /\ user \in User \cup {None} /\ page \in Page
  /\ purpose \in [Call -> Purpose] /\ live \subseteq Call /\ busy \subseteq Form
  /\ table \in [load : {"due", "asked", "shown", "error"},
                view : [users : SUBSET User, columns : SUBSET Column]]
  /\ polls \in 0 .. MaxPolls /\ seq \in [Call -> 0 .. MaxPolls] /\ snapshot \in 0 .. polls
  /\ known \in [Call -> SUBSET User]

\* A list that comes to be shown has every user whose creation the console had
\* been told of when it asked for it, even when saves failed or the server ended in
\* between (UsersSqlTab.tsx loadUsers(), createUser()).
CreatedUserListed ==
  [][\A c \in live :
       purpose[c] \in {"table", "reload"} /\ purpose'[c] = "none" /\ table'.load = "shown"
         => known[c] \subseteq table'.view.users]_vars

\* While the overview is mounted no snapshot gives way to an older one, however
\* late an answer is.
NewestSnapshot == [][snapshot' >= snapshot \/ polls' = 0]_vars
=============================================================================
