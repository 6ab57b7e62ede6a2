----------------------------- MODULE AdminServer -----------------------------
(***************************************************************************)
(* The admin server: src/admin/server.ts, handlers.ts, userStore.ts,       *)
(* rateLimit.ts, token.ts, password.ts and sql.ts, with common/http.ts,    *)
(* common/errors.ts and the schemas of shared/schema.ts.                   *)
(*                                                                         *)
(* Every await of a handler is a step boundary: other requests run there.  *)
(* The store lives in memory (doc) and in a file that a save replaces by a *)
(* rename; the process may end anywhere and then starts from the file.     *)
(* A password stands for its hash, a token for its place in the order of   *)
(* signing.  A client is whoever calls Send.                               *)
(***************************************************************************)
EXTENDS Naturals, Sequences, FiniteSets

CONSTANTS
  Call,         \* the requests; one that may change the store is sent only once
  User,         \* user names
  Password,
  Column,       \* names of dynamic columns
  Admin,        \* the names that have, or would be created with, the admin role
  Inactive,     \* the names whose account is disabled: no operation does that
  MaxAttempts,  \* logins of a name in one window of the limiter
  MaxUsers,     \* rows and columns the schema of the file accepts
  MaxColumns,
  InitialDoc,   \* the users file the process first starts from
  None          \* a member of none of these sets

ASSUME AdminAssumption ==
  /\ Admin \subseteq User
  /\ MaxAttempts \in Nat \ {0} /\ MaxUsers \in Nat /\ MaxColumns \in Nat
  /\ None \notin Call \cup User \cup Password \cup Column

VARIABLES
  request,  \* what each call asks for
  pc,       \* where the server stands with each call
  held,     \* the hash a handler read before it awaits the verification
  answer,   \* the answer of each call: status, the table it shows, the token it brings
  doc,      \* the users document in memory
  file,     \* the users file
  queue,    \* the saves in the promise chain, in order
  image,    \* the document each save has written to its temporary file
  tries,    \* the limiter: logins of a name in the current window
  issued,   \* the subjects of the tokens signed, in order
  expired,  \* how many of them have expired: all live equally long
  up        \* the process runs

store == <<doc, file, queue, image>>
tokens == <<issued, expired>>
serverVars == <<request, pc, held, answer, store, tries, tokens, up>>

-----------------------------------------------------------------------------
\* The document.  by is a history: the calls whose changes it contains.
Row == [hash : Password, cells : SUBSET Column]
Rows == UNION {[S -> Row] : S \in SUBSET User}
Doc == [rows : Rows, columns : SUBSET Column, by : SUBSET Call]
Names(d) == DOMAIN d.rows
Shown(d) == [users |-> Names(d), columns |-> d.columns]
NoView == [users |-> {}, columns |-> {}]
NoAnswer == [status |-> 0, view |-> NoView, token |-> 0]
EmptyDoc == [rows |-> <<>>, columns |-> {}, by |-> {}]

\* UsersFile.safeParse() at boot.
Loads(d) == Cardinality(Names(d)) <= MaxUsers /\ Cardinality(d.columns) <= MaxColumns

ASSUME InitialDocAssumption ==
  /\ InitialDoc \in Doc /\ InitialDoc.by = {} /\ Loads(InitialDoc)
  /\ Inactive \subseteq Names(InitialDoc)

AddUser(d, u, p) ==
  [d EXCEPT !.rows = [v \in DOMAIN @ \cup {u} |-> IF v = u THEN [hash |-> p, cells |-> {}] ELSE @[v]]]
SetPassword(d, u, p) == [d EXCEPT !.rows[u].hash = p]
AddColumn(d, col) ==
  [d EXCEPT !.columns = @ \cup {col},
            !.rows = [u \in Names(d) |-> [d.rows[u] EXCEPT !.cells = @ \cup {col}]]]

-----------------------------------------------------------------------------
(***************************************************************************)
(* Requests and the checks in front of the handlers.                       *)
(***************************************************************************)
Body == {"valid", "invalid", "notJson", "tooLarge"}
Kind == {"login", "me", "list", "create", "column", "query", "profile", "password", "obs"}
Reads == {"me", "list", "query", "obs"}
Changes == {"create", "column", "profile", "password"}

\* token is what the client attaches, 0 for none.
Plain(kind, tok) == [kind |-> kind, token |-> tok, body |-> "valid", user |-> None,
                     current |-> None, next |-> None, column |-> None]
LoginRequest(tok, u, p) == [Plain("login", tok) EXCEPT !.user = u, !.current = p]
CreateUserRequest(tok, u, p) == [Plain("create", tok) EXCEPT !.user = u, !.next = p]
AddColumnRequest(tok, col) == [Plain("column", tok) EXCEPT !.column = col]
ChangePasswordRequest(tok, p, q) == [Plain("password", tok) EXCEPT !.current = p, !.next = q]
WellFormed(tok) ==
  {Plain(kind, tok) : kind \in Reads \cup {"profile"}}
    \cup {LoginRequest(tok, u, p) : u \in User, p \in Password}
    \cup {CreateUserRequest(tok, u, p) : u \in User, p \in Password}
    \cup {AddColumnRequest(tok, col) : col \in Column}
    \cup {ChangePasswordRequest(tok, p, q) : p \in Password, q \in Password}
Requests(tok) == {[r EXCEPT !.body = b] : r \in WellFormed(tok), b \in Body}
NoRequest == Plain("me", 0)

\* verifyToken(): a signed token that has not expired.
ValidToken(tok) == tok \in (expired + 1) .. Len(issued)

\* The status of each error: errors.ts and toErrorBody().
StatusOf == [NONE |-> 0, VALIDATION_ERROR |-> 400, UNAUTHORIZED |-> 401, FORBIDDEN |-> 403,
             NOT_FOUND |-> 404, CONFLICT |-> 409, TOO_LARGE |-> 413, RATE_LIMITED |-> 429,
             INTERNAL_ERROR |-> 500]

\* The server reads the body of a POST or PATCH, not of a GET.
HasBody(r) == r.kind \notin {"me", "list", "obs"}

\* Reading the body, requireAuth(), requireAdmin(), safeParse(): what they refuse.
Refusal(r) ==
  IF HasBody(r) /\ r.body = "tooLarge" THEN "TOO_LARGE"
  ELSE IF HasBody(r) /\ r.body = "notJson" THEN "VALIDATION_ERROR"
  ELSE IF r.kind # "login" /\ ~ValidToken(r.token) THEN "UNAUTHORIZED"
  ELSE IF r.kind \in {"create", "column", "query"} /\ issued[r.token] \notin Admin THEN "FORBIDDEN"
  ELSE IF HasBody(r) /\ r.body = "invalid" THEN "VALIDATION_ERROR"
  ELSE "NONE"

-----------------------------------------------------------------------------
\* The process starts from a file that it accepts.
ServerInit ==
  /\ request = [c \in Call |-> NoRequest] /\ pc = [c \in Call |-> "unsent"]
  /\ held = [c \in Call |-> None] /\ answer = [c \in Call |-> NoAnswer]
  /\ doc = InitialDoc /\ file = InitialDoc /\ queue = <<>> /\ image = [c \in Call |-> EmptyDoc]
  /\ tries = [u \in User |-> 0] /\ expired = 0 /\ up = TRUE

\* A client sends a request; it fails at once when nobody listens.
Send(c, r) ==
  /\ pc[c] = "unsent"
  /\ request' = [request EXCEPT ![c] = r]
  /\ pc' = [pc EXCEPT ![c] = IF up THEN "sent" ELSE "lost"]
  /\ UNCHANGED <<held, answer, store, tries, tokens, up>>

\* The client has the answer of a call.  What only reads may be asked again.
Release(c) ==
  IF request[c].kind \in Changes THEN UNCHANGED serverVars
  ELSE /\ request' = [request EXCEPT ![c] = NoRequest]
       /\ pc' = [pc EXCEPT ![c] = "unsent"] /\ answer' = [answer EXCEPT ![c] = NoAnswer]
       /\ UNCHANGED <<held, store, tries, tokens, up>>

\* The call is answered: with the table as the store has it, without, or with
\* an error.
AnswerWith(c, a) ==
  /\ pc' = [pc EXCEPT ![c] = "answered"] /\ answer' = [answer EXCEPT ![c] = a]
  /\ UNCHANGED <<request, up>>
AnswerTable(c, status) == AnswerWith(c, [NoAnswer EXCEPT !.status = status, !.view = Shown(doc)])
Answer(c, status) == AnswerWith(c, [NoAnswer EXCEPT !.status = status])
Reject(c, code) == Answer(c, StatusOf[code])
Await(c, point) == pc' = [pc EXCEPT ![c] = point] /\ UNCHANGED <<request, answer, up>>

\* The call has reached the handler of its route.
Handling(c, kind) == pc[c] = "sent" /\ request[c].kind = kind /\ Refusal(request[c]) = "NONE"
Subject(c) == issued[request[c].token]

Refused(c) ==
  /\ pc[c] = "sent" /\ Refusal(request[c]) # "NONE"
  /\ Reject(c, Refusal(request[c]))
  /\ UNCHANGED <<held, store, tries, tokens>>

-----------------------------------------------------------------------------
(***************************************************************************)
(* Handlers that only read.                                                *)
(***************************************************************************)
Me(c) ==
  /\ Handling(c, "me")
  /\ IF Subject(c) \in Names(doc) THEN Answer(c, 200) ELSE Reject(c, "NOT_FOUND")
  /\ UNCHANGED <<held, store, tries, tokens>>

ListUsers(c) ==
  /\ Handling(c, "list") /\ AnswerTable(c, 200)
  /\ UNCHANGED <<held, store, tries, tokens>>

\* The query runs over a copy of the rows, the snapshot probes the gateway: both
\* answer later, and only the query can fail.
StartRead(c) ==
  /\ \E kind \in {"query", "obs"} : Handling(c, kind)
  /\ Await(c, "reading")
  /\ UNCHANGED <<held, store, tries, tokens>>

FinishRead(c) ==
  /\ pc[c] = "reading"
  /\ \/ Answer(c, 200)
     \/ request[c].kind = "query" /\ Reject(c, "VALIDATION_ERROR")
  /\ UNCHANGED <<held, store, tries, tokens>>

-----------------------------------------------------------------------------
(***************************************************************************)
(* Login.                                                                  *)
(***************************************************************************)
\* RateLimiter.allow(): the first login of a window is always allowed.
Allowed(u) == tries[u] < MaxAttempts
\* Fault: the counter of a refused login goes on.
CountOn(u) == tries' = [tries EXCEPT ![u] = @ + 1]
Count(u) == tries' = [tries EXCEPT ![u] = IF @ < MaxAttempts THEN @ + 1 ELSE @]

\* An unknown user costs the same work, against a hash that matches nothing.
Login(c) ==
  LET u == request[c].user IN
  /\ Handling(c, "login") /\ Count(u)
  /\ IF Allowed(u)
     THEN /\ Await(c, "verifying")
          /\ held' = [held EXCEPT ![c] = IF u \in Names(doc) THEN doc.rows[u].hash ELSE None]
     ELSE Reject(c, "RATE_LIMITED") /\ UNCHANGED held
  /\ UNCHANGED <<store, tokens>>

LoginVerified(c) ==
  LET r == request[c] IN
  /\ pc[c] = "verifying" /\ r.kind = "login"
  /\ IF held[c] # r.current THEN Reject(c, "UNAUTHORIZED") /\ UNCHANGED issued
     ELSE IF r.user \in Inactive THEN Reject(c, "FORBIDDEN") /\ UNCHANGED issued
     ELSE /\ issued' = Append(issued, r.user)
          /\ AnswerWith(c, [NoAnswer EXCEPT !.status = 200, !.token = Len(issued) + 1])
  /\ held' = [held EXCEPT ![c] = None]
  /\ UNCHANGED <<store, tries, expired>>

-----------------------------------------------------------------------------
(***************************************************************************)
(* Handlers that change the store and save it.                             *)
(***************************************************************************)
\* Fault: the handler does not await the save.
PersistUnawaited(c, d) ==
  /\ doc' = [d EXCEPT !.by = @ \cup {c}]
  /\ queue' = Append(queue, c)
  /\ Answer(c, 201)
  /\ UNCHANGED <<file, image>>

\* persist(): the change is in memory and its save at the end of the chain.
Persist(c, d) ==
  /\ doc' = [d EXCEPT !.by = @ \cup {c}]
  /\ queue' = Append(queue, c)
  /\ Await(c, "queued")
  /\ UNCHANGED <<file, image>>

UpdateProfile(c) ==
  /\ Handling(c, "profile")
  /\ IF Subject(c) \in Names(doc) THEN Persist(c, doc)
     ELSE Reject(c, "NOT_FOUND") /\ UNCHANGED store
  /\ UNCHANGED <<held, tries, tokens>>

NewColumn(c) ==
  LET col == request[c].column IN
  /\ Handling(c, "column")
  /\ IF col \in doc.columns THEN Reject(c, "CONFLICT") /\ UNCHANGED store
     ELSE Persist(c, AddColumn(doc, col))
  /\ UNCHANGED <<held, tries, tokens>>

CreateUser(c) ==
  /\ Handling(c, "create") /\ Await(c, "hashing")
  /\ UNCHANGED <<held, store, tries, tokens>>

CreateHashed(c) ==
  LET r == request[c] IN
  /\ pc[c] = "hashing" /\ r.kind = "create"
  /\ IF r.user \in Names(doc) THEN Reject(c, "CONFLICT") /\ UNCHANGED store
     ELSE Persist(c, AddUser(doc, r.user, r.next))
  /\ UNCHANGED <<held, tries, tokens>>

ChangePassword(c) ==
  LET u == Subject(c) IN
  /\ Handling(c, "password")
  /\ IF u \notin Names(doc) THEN Reject(c, "NOT_FOUND") /\ UNCHANGED held
     ELSE Await(c, "verifying") /\ held' = [held EXCEPT ![c] = doc.rows[u].hash]
  /\ UNCHANGED <<store, tries, tokens>>

PasswordVerified(c) ==
  LET r == request[c] IN
  /\ pc[c] = "verifying" /\ r.kind = "password"
  /\ IF held[c] = r.current THEN Await(c, "hashing") ELSE Reject(c, "UNAUTHORIZED")
  /\ held' = [held EXCEPT ![c] = None]
  /\ UNCHANGED <<store, tries, tokens>>

\* setPassword(): the row is not read again.
PasswordHashed(c) ==
  LET r == request[c] IN
  /\ pc[c] = "hashing" /\ r.kind = "password"
  /\ Persist(c, SetPassword(doc, Subject(c), r.next))
  /\ UNCHANGED <<held, tries, tokens>>

-----------------------------------------------------------------------------
(***************************************************************************)
(* save(): one write at a time, in the order of the chain.                 *)
(***************************************************************************)
\* Fault: a write does not wait for the one before it.
WriteUnchained(c) ==
  /\ pc[c] = "queued"
  /\ image' = [image EXCEPT ![c] = doc]
  /\ Await(c, "written")
  /\ UNCHANGED <<held, doc, file, queue, tries, tokens>>

\* Fault: the file itself is opened, not a temporary one: it is empty for a while.
WriteInPlace(c) ==
  /\ pc[c] = "queued" /\ c = Head(queue)
  /\ image' = [image EXCEPT ![c] = doc] /\ file' = EmptyDoc
  /\ Await(c, "written")
  /\ UNCHANGED <<held, doc, queue, tries, tokens>>

\* The temporary file is open: what is in memory now is written to it.
Write(c) ==
  /\ pc[c] = "queued" /\ c = Head(queue)
  /\ image' = [image EXCEPT ![c] = doc]
  /\ Await(c, "written")
  /\ UNCHANGED <<held, doc, file, queue, tries, tokens>>

Rename(c) ==
  /\ pc[c] = "written"
  /\ file' = image[c]
  /\ Await(c, "renamed")
  /\ UNCHANGED <<held, doc, queue, image, tries, tokens>>

\* The save leaves the chain: it was the first of it.
Leave(c) ==
  /\ queue' = Tail(queue)
  /\ image' = [image EXCEPT ![c] = EmptyDoc]
  /\ UNCHANGED <<held, doc, file, tries, tokens>>

\* The handler goes on: a change shows what the store holds by now.
Saved(c) ==
  /\ pc[c] = "renamed"
  /\ IF request[c].kind = "column" THEN AnswerTable(c, 201)
     ELSE Answer(c, IF request[c].kind = "create" THEN 201 ELSE 200)
  /\ Leave(c)

\* Opening, writing or renaming fails: the change stays in memory.
SaveFails(c) ==
  /\ pc[c] = "written" \/ (pc[c] = "queued" /\ c = Head(queue))
  /\ Reject(c, "INTERNAL_ERROR")
  /\ Leave(c)

-----------------------------------------------------------------------------
\* The window of the limiter rolls over; a token expires.
NextWindow ==
  /\ \E u \in User : tries[u] > 0
  /\ tries' = [u \in User |-> 0]
  /\ UNCHANGED <<request, pc, held, answer, store, tokens, up>>
TokenExpires ==
  /\ expired < Len(issued) /\ expired' = expired + 1
  /\ UNCHANGED <<request, pc, held, answer, store, tries, issued, up>>

\* The process ends and starts again: what has no answer is lost, the store is
\* what the file holds.  A file that does not load keeps it from starting.
Crash ==
  /\ up /\ up' = Loads(file)
  /\ pc' = [c \in Call |-> IF pc[c] \in {"unsent", "answered"} THEN pc[c] ELSE "lost"]
  /\ doc' = file /\ queue' = <<>> /\ image' = [c \in Call |-> EmptyDoc]
  /\ held' = [c \in Call |-> None] /\ tries' = [u \in User |-> 0]
  /\ UNCHANGED <<request, answer, file, tokens>>

Handle(c) ==
  \/ Refused(c) \/ Me(c) \/ ListUsers(c) \/ StartRead(c) \/ FinishRead(c)
  \/ Login(c) \/ LoginVerified(c)
  \/ UpdateProfile(c) \/ NewColumn(c) \/ CreateUser(c) \/ CreateHashed(c)
  \/ ChangePassword(c) \/ PasswordVerified(c) \/ PasswordHashed(c)
  \/ Write(c) \/ Rename(c) \/ Saved(c) \/ SaveFails(c)

\* What happens to the server on its own.
World == NextWindow \/ TokenExpires \/ Crash

\* Any number of clients that may send anything at any time.
Request == UNION {Requests(tok) : tok \in Nat}
ServerNext ==
  \/ \E c \in Call :
       \/ Handle(c)
       \/ \E r \in Request : Send(c, r)
       \/ pc[c] \in {"answered", "lost"} /\ Release(c)
  \/ World

ServerSpec == ServerInit /\ issued \in Seq(User) /\ [][ServerNext]_serverVars

-----------------------------------------------------------------------------
Point == {"unsent", "sent", "reading", "verifying", "hashing", "queued", "written",
          "renamed", "answered", "lost"}
Status == {200, 201} \cup {StatusOf[e] : e \in DOMAIN StatusOf}
ServerTypeOK ==
  /\ DOMAIN request = Call /\ pc \in [Call -> Point]
  /\ \A c \in Call : request[c].kind \in Kind /\ request[c].body \in Body
  /\ held \in [Call -> Password \cup {None}]
  /\ answer \in [Call -> [status : Status,
                          view : [users : SUBSET User, columns : SUBSET Column],
                          token : 0 .. Len(issued)]]
  /\ doc \in Doc /\ file \in Doc /\ image \in [Call -> Doc] /\ queue \in Seq(Call)
  /\ tries \in [User -> 0 .. MaxAttempts] /\ issued \in Seq(User) /\ expired \in 0 .. Len(issued)
  /\ up \in BOOLEAN

\* The calls that were told their change is made.
Acknowledged ==
  {c \in Call : /\ pc[c] = "answered" /\ request[c].kind \in Changes
                /\ answer[c].status \in {200, 201}}

\* A change that was acknowledged is in the file and stays there: no later or
\* slower save, no failed one and no restart takes it back.
AcknowledgedIsSaved == Acknowledged \subseteq file.by

\* The chain of saves, the temporary file and the rename implement the promise of
\* DurableStore, for any calls at once, failed saves and crashes (userStore.ts save(),
\* writeAtomically(), load()).
Draft == IF queue # <<>> /\ pc[Head(queue)] = "written" THEN image[Head(queue)] ELSE file
Store == INSTANCE DurableStore
           WITH Change <- Call, memory <- doc, draft <- Draft, durable <- file,
                told <- Acknowledged
StoreIsDurable == Store!Durability
=============================================================================
