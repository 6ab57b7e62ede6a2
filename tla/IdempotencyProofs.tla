-------------------------- MODULE IdempotencyProofs --------------------------
(***************************************************************************)
(* Nobody waits for a promise that nobody will settle, no key gets the     *)
(* answer to another, and the Map stays within its limit, for any number   *)
(* of calls and keys, any time to live and any limit of the cache.         *)
(*                                                                         *)
(* Order and length of the Map do not matter to the first two: whichever   *)
(* entries are pruned, a call in progress is found by those who wait.      *)
(***************************************************************************)
EXTENDS Idempotency, SequenceTheorems, FiniteSetTheorems, TLAPS

Types ==
  /\ entry \in [Key -> Entry]
  /\ call \in [Request -> Call]
  /\ up \in BOOLEAN

\* The owner of a promise is at work on it; a value is its owner's own answer.
EntryInv(k) ==
  /\ entry[k].kind = "promise" =>
       /\ entry[k].by \in Request
       /\ call[entry[k].by].pc = "upstream" /\ call[entry[k].by].key = k
       /\ ~call[entry[k].by].stream
  /\ entry[k].kind = "value" =>
       /\ entry[k].by \in Request
       /\ call[entry[k].by].pc = "served" /\ call[entry[k].by].key = k
       /\ call[entry[k].by].from = entry[k].by

\* A call waits for another that is at work or over, and when that one is served
\* it is with an answer of its own; what a call was served with is the answer
\* of a call for the same key.
CallInv(q) ==
  /\ call[q].pc = "waiting" =>
       /\ ~call[q].stream /\ call[q].on \in Request
       /\ call[call[q].on].pc \in {"upstream", "served", "failed"}
       /\ call[call[q].on].key = call[q].key /\ ~call[call[q].on].stream
       /\ call[call[q].on].pc = "served" => call[call[q].on].from = call[q].on
  /\ call[q].pc = "served" =>
       /\ call[q].from \in Request
       /\ call[call[q].from].pc = "served" /\ call[call[q].from].key = call[q].key
       /\ call[call[q].from].from = call[q].from

Inv ==
  /\ Types
  /\ \A k \in Key : EntryInv(k)
  /\ \A q \in Request : CallInv(q)

LEMMA NothingType == Nothing \in Entry
BY IdemAssumption DEF Nothing, Entry

\* The new entry stands under its key, or is pruned at once; the others stay or are
\* pruned.
LEMMA PutEntry ==
  ASSUME Types, NEW k \in Key, NEW new \in Entry, Put(k, new)
  PROVE  /\ entry' \in [Key -> Entry]
         /\ entry'[k] \in {new, Nothing}
         /\ \A x \in Key : x # k => entry'[x] \in {entry[x], Nothing}
BY NothingType DEF Put, Types

-----------------------------------------------------------------------------
(***************************************************************************)
(* Steps of one call.                                                      *)
(***************************************************************************)
\* The call r becomes c, keeping its request and, once it has given a promise, that
\* promise.
Becomes(r, c) ==
  /\ call' = [call EXCEPT ![r] = c]
  /\ c.key = call[r].key /\ c.stream = call[r].stream
  /\ \/ call[r].pc = "upstream" /\ c.pc \in {"served", "failed"} /\ (c.pc = "served" => c.from = r)
     \/ call[r].pc \in {"new", "waiting"}

\* Under each key the entry stays as it was, goes, or is what c has put there; it
\* stays as it was only if it is no promise of a call that is over.
Follows(r, c, k) ==
  \/ entry'[k] = Nothing
  \/ entry'[k] = entry[k] /\ (call[r].pc = "upstream" => entry[k].by # r \/ entry[k].kind = "none")
  \/ /\ k = c.key /\ ~c.stream /\ entry'[k].by = r
     /\ \/ entry'[k].kind = "promise" /\ c.pc = "upstream"
        \/ entry'[k].kind = "value" /\ c.pc = "served" /\ c.from = r

\* A call that starts to wait does so for one at work on its key, and one that is
\* served is so by itself or by a call that was served by itself.
Justified(r, c) ==
  /\ c.pc = "waiting" =>
       /\ ~c.stream /\ c.on \in Request \ {r}
       /\ call[c.on].pc = "upstream" /\ call[c.on].key = c.key /\ ~call[c.on].stream
  /\ c.pc = "served" =>
       \/ c.from = r
       \/ /\ c.from \in Request \ {r} /\ call[c.from].pc = "served"
          /\ call[c.from].key = c.key /\ call[c.from].from = c.from

LEMMA OneCall ==
  ASSUME Inv, NEW r \in Request, NEW c \in Call, Becomes(r, c), Justified(r, c), UNCHANGED up,
         entry' \in [Key -> Entry], \A k \in Key : Follows(r, c, k)
  PROVE  Inv'
<1>1. Types /\ Types' /\ \A q \in Request : CallInv(q)
  BY DEF Inv, Types, Becomes
<1>2. call'[r] = c /\ \A q \in Request : q # r => call'[q] = call[q]
  BY <1>1 DEF Types, Becomes
<1>3. ASSUME NEW k \in Key PROVE EntryInv(k)'
  BY <1>2, <1>3 DEF Inv, EntryInv, Nothing, Becomes, Follows
<1>4. ASSUME NEW q \in Request PROVE CallInv(q)'
  <2>1. CASE q = r
    BY <1>2, <2>1 DEF CallInv, Becomes, Justified
  <2>2. CASE q # r
    BY <1>1, <1>2, <2>2 DEF CallInv, Becomes
  <2>3. QED
    BY <2>1, <2>2
<1>5. QED
  BY <1>1, <1>3, <1>4 DEF Inv

LEMMA BeginInv ==
  ASSUME Inv, NEW r \in Request, call[r].pc \in {"new", "waiting"}, ~call[r].stream, Begin(r)
  PROVE  Inv'
<1> DEFINE c == [call[r] EXCEPT !.pc = "upstream", !.on = NoCall]
<1>1. Types /\ call[r] \in Call
  BY DEF Inv, Types
<1>2. /\ c \in Call /\ c.pc = "upstream" /\ c.key = call[r].key /\ ~c.stream
      /\ c.stream = call[r].stream /\ c.key \in Key
  BY <1>1 DEF Call, InProgress, Ended
<1>3. call' = [call EXCEPT ![r] = c] /\ UNCHANGED up
  BY <1>1 DEF Begin, Types
<1>4. Promise(r) \in Entry /\ Promise(r).kind = "promise" /\ Promise(r).by = r
  BY IdemAssumption DEF Promise, Entry
<1>5. Put(c.key, Promise(r))
  BY <1>2 DEF Begin
<1> HIDE DEF c
<1>6. entry' \in [Key -> Entry] /\ \A k \in Key : Follows(r, c, k)
  <2>1. entry' \in [Key -> Entry] /\ entry'[c.key] \in {Promise(r), Nothing}
        /\ \A x \in Key : x # c.key => entry'[x] \in {entry[x], Nothing}
    BY <1>1, <1>2, <1>4, <1>5, PutEntry
  <2>2. QED
    BY <1>2, <1>4, <2>1 DEF Follows
<1>7. Becomes(r, c) /\ Justified(r, c)
  BY <1>2, <1>3 DEF Becomes, Justified
<1>8. QED
  BY <1>2, <1>3, <1>6, <1>7, OneCall

\* What a step leaves of the cache when it does not touch it.
LEMMA QuietCache ==
  ASSUME Inv, NEW r \in Request, NEW c, call[r].pc \in {"new", "waiting"}, UNCHANGED entry
  PROVE  entry' \in [Key -> Entry] /\ \A k \in Key : Follows(r, c, k)
BY DEF Inv, Types, Follows

LEMMA ArriveInv == ASSUME Inv, NEW r \in Request, Arrive(r) PROVE Inv'
<1>1. Types /\ call[r] \in Call /\ call[r].key \in Key /\ EntryInv(call[r].key)
  BY DEF Inv, Types, Call
<1>2. CASE ArriveStream(r)
  <2> DEFINE c == [call[r] EXCEPT !.pc = "upstream"]
  <2>1. /\ c \in Call /\ c.pc = "upstream" /\ c.key = call[r].key /\ c.stream = call[r].stream
    BY <1>1 DEF Call, InProgress, Ended
  <2>2. call' = [call EXCEPT ![r] = c] /\ UNCHANGED <<entry, up>> /\ call[r].pc = "new"
    BY <1>1, <1>2 DEF ArriveStream, Types
  <2> HIDE DEF c
  <2>3. Becomes(r, c) /\ Justified(r, c)
    BY <2>1, <2>2 DEF Becomes, Justified
  <2>4. QED
    BY <2>1, <2>2, <2>3, QuietCache, OneCall
<1>3. CASE ArriveFresh(r)
  BY <1>3, BeginInv DEF ArriveFresh
<1>4. CASE ArriveReplay(r)
  <2> DEFINE owner == entry[call[r].key].by
             c == [call[r] EXCEPT !.pc = "served", !.from = owner]
  <2>1. /\ owner \in Request /\ call[owner].pc = "served" /\ call[owner].key = call[r].key
        /\ call[owner].from = owner
    BY <1>1, <1>4 DEF ArriveReplay, EntryInv
  <2>2. /\ c \in Call /\ c.pc = "served" /\ c.key = call[r].key /\ c.stream = call[r].stream
        /\ c.from = owner
    BY <1>1, <2>1 DEF Call, InProgress, Ended
  <2>3. call' = [call EXCEPT ![r] = c] /\ UNCHANGED <<entry, up>> /\ call[r].pc = "new"
    BY <1>1, <1>4 DEF ArriveReplay, Types
  <2> HIDE DEF c, owner
  <2>4. Becomes(r, c) /\ Justified(r, c)
    BY <2>1, <2>2, <2>3 DEF Becomes, Justified
  <2>5. QED
    BY <2>2, <2>3, <2>4, QuietCache, OneCall
<1>5. CASE ArriveShare(r)
  <2> DEFINE owner == entry[call[r].key].by
             c == [call[r] EXCEPT !.pc = "waiting", !.on = owner]
  <2>1. /\ owner \in Request /\ call[owner].pc = "upstream" /\ call[owner].key = call[r].key
        /\ ~call[owner].stream
    BY <1>1, <1>5 DEF ArriveShare, EntryInv
  <2>2. /\ c \in Call /\ c.pc = "waiting" /\ c.key = call[r].key /\ c.stream = call[r].stream
        /\ c.on = owner
    BY <1>1, <2>1 DEF Call, InProgress, Ended
  <2>3. call' = [call EXCEPT ![r] = c] /\ UNCHANGED <<entry, up>> /\ call[r].pc = "new"
        /\ ~call[r].stream
    BY <1>1, <1>5 DEF ArriveShare, Types
  <2> HIDE DEF c, owner
  <2>4. Becomes(r, c) /\ Justified(r, c)
    BY <2>1, <2>2, <2>3 DEF Becomes, Justified
  <2>5. QED
    BY <2>2, <2>3, <2>4, QuietCache, OneCall
<1>6. QED
  BY <1>2, <1>3, <1>4, <1>5 DEF Arrive

LEMMA ProceedInv == ASSUME Inv, NEW r \in Request, Proceed(r) PROVE Inv'
<1>1. Types /\ call[r] \in Call /\ call[r].key \in Key /\ CallInv(r)
  BY DEF Inv, Types, Call
<1>2. CASE ShareServed(r)
  <2> DEFINE owner == call[r].on
             c == [call[r] EXCEPT !.pc = "served", !.from = owner, !.on = NoCall]
  <2>1. /\ owner \in Request /\ call[owner].pc = "served" /\ call[owner].key = call[r].key
        /\ call[owner].from = owner
    BY <1>1, <1>2 DEF ShareServed, CallInv
  <2>2. /\ c \in Call /\ c.pc = "served" /\ c.key = call[r].key /\ c.stream = call[r].stream
        /\ c.from = owner
    BY <1>1, <2>1 DEF Call, InProgress, Ended
  <2>3. call' = [call EXCEPT ![r] = c] /\ UNCHANGED <<entry, up>> /\ call[r].pc = "waiting"
    BY <1>1, <1>2 DEF ShareServed, Types
  <2> HIDE DEF c, owner
  <2>4. Becomes(r, c) /\ Justified(r, c)
    BY <2>1, <2>2, <2>3 DEF Becomes, Justified
  <2>5. QED
    BY <2>2, <2>3, <2>4, QuietCache, OneCall
<1>3. CASE ShareFailed(r)
  BY <1>1, <1>3, BeginInv DEF ShareFailed, CallInv
<1>4. CASE Succeed(r)
  <2> DEFINE c == [call[r] EXCEPT !.pc = "served", !.from = r]
  <2>1. /\ c \in Call /\ c.pc = "served" /\ c.key = call[r].key /\ c.stream = call[r].stream
        /\ c.from = r
    BY <1>1 DEF Call, InProgress, Ended
  <2>2. call' = [call EXCEPT ![r] = c] /\ UNCHANGED up /\ call[r].pc = "upstream"
        /\ IF c.stream THEN UNCHANGED entry ELSE Put(c.key, Value(r))
    BY <1>1, <1>4 DEF Succeed, Types, Call
  <2> HIDE DEF c
  <2>3. Becomes(r, c) /\ Justified(r, c)
    BY <2>1, <2>2 DEF Becomes, Justified
  <2>4. \A k \in Key : entry[k].by = r =>
                         \/ entry[k].kind = "none"
                         \/ entry[k].kind = "promise" /\ k = c.key /\ ~c.stream
    BY <1>1, <2>1, <2>2 DEF Inv, EntryInv, Types, Entry
  <2>5. entry' \in [Key -> Entry] /\ \A k \in Key : Follows(r, c, k)
    <3>1. CASE c.stream
      BY <1>1, <2>2, <2>4, <3>1 DEF Types, Follows
    <3>2. CASE ~c.stream
      <4>1. Value(r) \in Entry /\ Value(r).kind = "value" /\ Value(r).by = r
        BY IdemAssumption DEF Value, Entry
      <4>2. /\ entry' \in [Key -> Entry] /\ entry'[c.key] \in {Value(r), Nothing}
            /\ \A x \in Key : x # c.key => entry'[x] \in {entry[x], Nothing}
        BY <1>1, <2>1, <2>2, <3>2, <4>1, PutEntry
      <4>3. QED
        BY <2>1, <2>4, <3>2, <4>1, <4>2 DEF Follows
    <3>3. QED
      BY <1>1, <2>1, <3>1, <3>2 DEF Call
  <2>6. QED
    BY <2>1, <2>2, <2>3, <2>5, OneCall
<1>5. CASE Fail(r)
  <2> DEFINE c == [call[r] EXCEPT !.pc = "failed"]
  <2>1. /\ c \in Call /\ c.pc = "failed" /\ c.key = call[r].key /\ c.stream = call[r].stream
    BY <1>1 DEF Call, InProgress, Ended
  <2>2. call' = [call EXCEPT ![r] = c] /\ UNCHANGED up /\ call[r].pc = "upstream"
        /\ entry' = [entry EXCEPT ![c.key] = Nothing]
    BY <1>1, <1>5 DEF Fail, Drop, Types, Call
  <2> HIDE DEF c
  <2>3. Becomes(r, c) /\ Justified(r, c)
    BY <2>1, <2>2 DEF Becomes, Justified
  <2>4. \A k \in Key : entry[k].by = r => entry[k].kind = "none" \/ k = c.key
    BY <1>1, <2>1, <2>2 DEF Inv, EntryInv, Types, Entry
  <2>5. entry' \in [Key -> Entry] /\ \A k \in Key : Follows(r, c, k)
    BY <1>1, <2>1, <2>2, <2>4, NothingType DEF Types, Follows
  <2>6. QED
    BY <2>1, <2>2, <2>3, <2>5, OneCall
<1>6. CASE FailUnheard(r)
  <2>1. /\ entry' = [k \in Key |-> Nothing] /\ up' = FALSE
        /\ call' = [q \in Request |->
                      IF q = r THEN [call[q] EXCEPT !.pc = "failed"]
                      ELSE IF call[q].pc \in InProgress
                      THEN [call[q] EXCEPT !.pc = "lost", !.on = NoCall] ELSE call[q]]
    BY <1>6 DEF FailUnheard
  <2>2. \A q \in Request : /\ call[q] \in Call /\ call'[q] \in Call
                           /\ call'[q].pc \notin InProgress
                           /\ call'[q].pc = "served" => call'[q] = call[q]
                           /\ call[q].pc = "served" => call'[q] = call[q]
    <3> SUFFICES ASSUME NEW q \in Request
                 PROVE  /\ call[q] \in Call /\ call'[q] \in Call
                        /\ call'[q].pc \notin InProgress
                        /\ call'[q].pc = "served" => call'[q] = call[q]
                        /\ call[q].pc = "served" => call'[q] = call[q]
      OBVIOUS
    <3>1. call[q] \in Call /\ call[r].pc = "upstream"
      BY <1>1, <1>6 DEF FailUnheard, Types
    <3>2. CASE q = r
      BY <2>1, <3>1, <3>2 DEF Call, InProgress, Ended
    <3>3. CASE q # r /\ call[q].pc \in InProgress
      <4>1. call'[q] = [call[q] EXCEPT !.pc = "lost", !.on = NoCall]
        BY <2>1, <3>3
      <4>2. QED
        BY <3>1, <3>3, <4>1 DEF Call, InProgress, Ended
    <3>4. CASE q # r /\ call[q].pc \notin InProgress
      BY <2>1, <3>1, <3>4
    <3>5. QED
      BY <3>2, <3>3, <3>4
  <2>3. Types'
    BY <2>1, <2>2, NothingType DEF Types
  <2>4. \A k \in Key : EntryInv(k)'
    BY <2>1 DEF EntryInv, Nothing
  <2>5. \A q \in Request : CallInv(q)'
    BY <2>2 DEF Inv, CallInv, InProgress
  <2>6. QED
    BY <2>3, <2>4, <2>5 DEF Inv
<1>7. QED
  BY <1>2, <1>3, <1>4, <1>5, <1>6 DEF Proceed

LEMMA NextInv == Inv /\ [Next]_vars => Inv'
<1> SUFFICES ASSUME Inv, [Next]_vars PROVE Inv'
  OBVIOUS
<1>1. ASSUME NEW r \in Request, Arrive(r) \/ Proceed(r) PROVE Inv'
  BY <1>1, ArriveInv, ProceedInv
<1>2. CASE Restart
  BY <1>2 DEF Restart, Inv, Types, EntryInv, CallInv
<1>3. CASE Tick
  <2>1. entry' = [k \in Key |-> [entry[k] EXCEPT !.left = IF @ > 0 THEN @ - 1 ELSE 0]]
        /\ UNCHANGED <<call, up>>
    BY <1>3 DEF Tick
  <2>2. \A k \in Key : /\ entry'[k] \in Entry
                       /\ entry'[k].kind = entry[k].kind /\ entry'[k].by = entry[k].by
    BY <2>1, IdemAssumption DEF Inv, Types, Entry
  <2>3. Types'
    BY <2>1, <2>2 DEF Inv, Types
  <2>4. \A k \in Key : EntryInv(k)'
    BY <2>1, <2>2 DEF Inv, EntryInv
  <2>5. \A q \in Request : CallInv(q)'
    BY <2>1 DEF Inv, CallInv
  <2>6. QED
    BY <2>3, <2>4, <2>5 DEF Inv
<1>4. CASE UNCHANGED vars
  BY <1>4 DEF vars, Inv, Types, EntryInv, CallInv
<1>5. QED
  BY <1>1, <1>2, <1>3, <1>4 DEF Next

LEMMA InitInv == Init => Inv
<1> SUFFICES ASSUME Init PROVE Inv
  OBVIOUS
<1>1. Types
  BY NothingType DEF Init, Types
<1>2. \A k \in Key : EntryInv(k)
  BY DEF Init, EntryInv, Nothing
<1>3. \A q \in Request : CallInv(q)
  BY DEF Init, CallInv
<1>4. QED
  BY <1>1, <1>2, <1>3 DEF Inv

LEMMA Invariant == Spec => []Inv
BY InitInv, NextInv, PTL DEF Spec

\* For any number of calls and keys: nobody waits for a promise that nobody will
\* settle, whichever calls of a key are dropped, pruned, expired or overwritten
\* meanwhile (idempotency.ts).
THEOREM PromisesSettled == Spec => []NoOrphanPromise
<1>1. Inv => NoOrphanPromise
  BY DEF Inv, EntryInv, CallInv, NoOrphanPromise
<1>2. QED
  BY <1>1, Invariant, PTL

\* For any number of calls and keys: what is stored or sent under a key is the
\* answer of a successful call with that key (idempotency.ts, handlers.ts
\* handleChat()).
THEOREM AnswersBelong == Spec => []AnswerOfSameKey
<1>1. Inv => AnswerOfSameKey
  BY DEF Inv, EntryInv, CallInv, AnswerOfSameKey
<1>2. QED
  BY <1>1, Invariant, PTL
-----------------------------------------------------------------------------
(***************************************************************************)
(* The Map.                                                                *)
(***************************************************************************)
Distinct(s) == \A i, j \in 1..Len(s) : s[i] = s[j] => i = j
In(x, s) == \E i \in 1..Len(s) : s[i] = x

\* The Map s, when the entries are e.
IsMap(s, e) ==
  /\ s \in Seq(Key) /\ Distinct(s)
  /\ \A k \in Key : In(k, s) <=> e[k].kind # "none"

Mapped == IsMap(line, entry) /\ Len(line) <= MaxEntries

\* Map.set() of a new key, and of one that is there.
LEMMA AppendKey ==
  ASSUME NEW s \in Seq(Key), Distinct(s), NEW k \in Key, ~In(k, s)
  PROVE  /\ Append(s, k) \in Seq(Key) /\ Distinct(Append(s, k)) /\ Len(Append(s, k)) = Len(s) + 1
         /\ \A x : In(x, Append(s, k)) <=> In(x, s) \/ x = k
<1> DEFINE t == Append(s, k)
<1>1. /\ Len(s) \in Nat /\ t \in Seq(Key) /\ Len(t) = Len(s) + 1
      /\ \A i \in 1..Len(s) : t[i] = s[i]
      /\ t[Len(s) + 1] = k
  BY LenProperties, AppendProperties
<1> HIDE DEF t
<1>2. Distinct(t)
  BY <1>1 DEF Distinct, In
<1>3. ASSUME NEW x PROVE In(x, t) <=> In(x, s) \/ x = k
  <2>1. ASSUME In(x, s) PROVE In(x, t)
    BY <1>1, <2>1 DEF In
  <2>2. In(k, t)
    <3>1. Len(s) + 1 \in 1..Len(t)
      BY <1>1
    <3>2. QED
      BY <1>1, <3>1 DEF In
  <2>3. ASSUME In(x, t) PROVE In(x, s) \/ x = k
    BY <1>1, <2>3 DEF In
  <2>4. QED
    BY <2>1, <2>2, <2>3
<1>4. QED
  BY <1>1, <1>2, <1>3 DEF t

\* pruneIdem(): the oldest key goes.
LEMMA TailKeys ==
  ASSUME NEW s \in Seq(Key), Distinct(s), Len(s) > 0
  PROVE  /\ Tail(s) \in Seq(Key) /\ Distinct(Tail(s)) /\ Len(Tail(s)) = Len(s) - 1
         /\ Head(s) \in Key
         /\ \A x : In(x, Tail(s)) <=> In(x, s) /\ x # Head(s)
<1> DEFINE t == Tail(s)
<1>1. Len(s) \in Nat /\ s # <<>> /\ Head(s) = s[1] /\ 1 \in 1..Len(s)
  BY LenProperties, EmptySeq
<1>2. /\ t \in Seq(Key) /\ Len(t) = Len(s) - 1 /\ Head(s) \in Key
      /\ \A i \in 1..Len(t) : t[i] = s[i + 1]
  BY <1>1, HeadTailProperties
<1> HIDE DEF t
<1>3. Distinct(t)
  <2>1. \A i \in 1..Len(t) : i + 1 \in 1..Len(s)
    BY <1>1, <1>2
  <2>2. ASSUME NEW i \in 1..Len(t), NEW j \in 1..Len(t), t[i] = t[j] PROVE i = j
    <3>1. i + 1 = j + 1
      BY <1>2, <2>1, <2>2 DEF Distinct
    <3>2. QED
      BY <3>1
  <2>3. QED
    BY <2>2 DEF Distinct
<1>4. ASSUME NEW x PROVE In(x, t) <=> In(x, s) /\ x # Head(s)
  <2>1. ASSUME In(x, t) PROVE In(x, s) /\ x # Head(s)
    <3>1. PICK i \in 1..Len(t) : t[i] = x
      BY <2>1 DEF In
    <3>2. i + 1 \in 1..Len(s) /\ s[i + 1] = x /\ i + 1 # 1
      BY <1>1, <1>2, <3>1
    <3>3. QED
      BY <1>1, <3>2 DEF In, Distinct
  <2>2. ASSUME In(x, s), x # Head(s) PROVE In(x, t)
    <3>1. PICK i \in 1..Len(s) : s[i] = x
      BY <2>2 DEF In
    <3>2. i - 1 \in 1..Len(t) /\ i = (i - 1) + 1
      BY <1>1, <1>2, <2>2, <3>1
    <3>3. t[i - 1] = x
      BY <1>2, <3>1, <3>2
    <3>4. QED
      BY <3>2, <3>3 DEF In
  <2>3. QED
    BY <2>1, <2>2
<1>5. QED
  BY <1>1, <1>2, <1>3, <1>4 DEF t

\* dropIdem(): Map.delete(k).
LEMMA RemoveKey ==
  ASSUME NEW s \in Seq(Key), Distinct(s), NEW k \in Key
  PROVE  /\ RemoveFirst(s, k) \in Seq(Key) /\ Distinct(RemoveFirst(s, k))
         /\ Len(RemoveFirst(s, k)) <= Len(s)
         /\ \A x : In(x, RemoveFirst(s, k)) <=> In(x, s) /\ x # k
<1>1. Len(s) \in Nat /\ \A i \in 1..Len(s) : s[i] \in Key
  BY LenProperties, ElementOfSeq
<1>2. CASE ~In(k, s)
  <2>1. RemoveFirst(s, k) = s
    BY <1>2 DEF RemoveFirst, In
  <2>2. QED
    BY <1>1, <1>2, <2>1
<1>3. CASE In(k, s)
  <2>1. PICK p \in 1..Len(s) : s[p] = k
    BY <1>3 DEF In
  <2>2. RemoveFirst(s, k) = RemoveAt(s, p)
    <3>1. {i \in 1..Len(s) : s[i] = k} = {p}
      BY <2>1 DEF Distinct
    <3>2. (CHOOSE i \in {p} : \A j \in {p} : i <= j) = p
      BY <1>1
    <3>3. SelectInSeq(s, LAMBDA v : v = k) = p
      BY <3>1, <3>2 DEF SelectInSeq, Min
    <3>4. QED
      BY <2>1, <3>3 DEF RemoveFirst
  <2> DEFINE a == SubSeq(s, 1, p - 1)
             b == SubSeq(s, p + 1, Len(s))
             t == RemoveAt(s, p)
  <2>3. /\ a \in Seq(Key) /\ Len(a) = p - 1
        /\ \A i \in 1..(p - 1) : a[i] = s[i]
    <3>1. \A i \in 1..(p - 1) : s[i] \in Key
      BY <1>1
    <3>2. /\ a \in Seq(Key) /\ Len(a) = IF 1 <= p - 1 THEN p - 1 - 1 + 1 ELSE 0
          /\ \A i \in 1 .. p - 1 - 1 + 1 : a[i] = s[1 + i - 1]
      BY <1>1, <3>1, SubSeqProperties
    <3> HIDE DEF a
    <3>3. QED
      BY <1>1, <3>2
  <2>4. /\ b \in Seq(Key) /\ Len(b) = Len(s) - p
        /\ \A i \in 1..(Len(s) - p) : b[i] = s[p + i]
    <3>1. \A i \in (p + 1)..Len(s) : s[i] \in Key
      BY <1>1
    <3>2. /\ b \in Seq(Key)
          /\ Len(b) = IF p + 1 <= Len(s) THEN Len(s) - (p + 1) + 1 ELSE 0
          /\ \A i \in 1 .. Len(s) - (p + 1) + 1 : b[i] = s[p + 1 + i - 1]
      BY <1>1, <3>1, SubSeqProperties
    <3> HIDE DEF b
    <3>3. QED
      BY <1>1, <3>2
  <2>5. t = a \o b
    BY DEF RemoveAt
  <2> HIDE DEF a, b, t
  <2>6. /\ t \in Seq(Key) /\ Len(t) = Len(s) - 1
        /\ \A i \in 1..Len(t) : t[i] = s[IF i < p THEN i ELSE i + 1]
    <3>1. /\ t \in Seq(Key) /\ Len(t) = Len(a) + Len(b)
          /\ \A i \in 1..(Len(a) + Len(b)) : t[i] = IF i <= Len(a) THEN a[i] ELSE b[i - Len(a)]
      BY <2>3, <2>4, <2>5, ConcatProperties
    <3>2. Len(t) = Len(s) - 1
      BY <1>1, <2>3, <2>4, <3>1
    <3>3. ASSUME NEW i \in 1..Len(t) PROVE t[i] = s[IF i < p THEN i ELSE i + 1]
      <4>1. CASE i < p
        BY <1>1, <2>3, <3>1, <4>1
      <4>2. CASE i >= p
        <5>1. i - (p - 1) \in 1..(Len(s) - p) /\ p + (i - (p - 1)) = i + 1
          BY <1>1, <3>2, <4>2
        <5>2. t[i] = b[i - (p - 1)]
          BY <1>1, <2>3, <3>1, <4>2
        <5>3. QED
          BY <2>4, <4>2, <5>1, <5>2
      <4>3. QED
        BY <1>1, <4>1, <4>2
    <3>4. QED
      BY <3>1, <3>2, <3>3
  <2>7. \A i \in 1..Len(t) : LET at == IF i < p THEN i ELSE i + 1 IN at \in 1..Len(s) /\ at # p
    BY <1>1, <2>6
  <2>8. Distinct(t)
    <3>1. ASSUME NEW i \in 1..Len(t), NEW j \in 1..Len(t), t[i] = t[j] PROVE i = j
      <4>1. (IF i < p THEN i ELSE i + 1) = (IF j < p THEN j ELSE j + 1)
        BY <2>6, <2>7, <3>1 DEF Distinct
      <4>2. QED
        BY <1>1, <2>6, <4>1
    <3>2. QED
      BY <3>1 DEF Distinct
  <2>9. ASSUME NEW x PROVE In(x, t) <=> In(x, s) /\ x # k
    <3>1. ASSUME In(x, t) PROVE In(x, s) /\ x # k
      <4>1. PICK i \in 1..Len(t) : t[i] = x
        BY <3>1 DEF In
      <4>2. QED
        BY <2>1, <2>6, <2>7, <4>1 DEF In, Distinct
    <3>2. ASSUME In(x, s), x # k PROVE In(x, t)
      <4>1. PICK i \in 1..Len(s) : s[i] = x
        BY <3>2 DEF In
      <4>2. i # p
        BY <2>1, <3>2, <4>1
      <4>3. CASE i < p
        <5>1. i \in 1..Len(t)
          BY <1>1, <2>6, <4>3
        <5>2. QED
          BY <2>6, <4>1, <4>3, <5>1 DEF In
      <4>4. CASE i > p
        <5>1. i - 1 \in 1..Len(t) /\ ~(i - 1 < p) /\ (i - 1) + 1 = i
          BY <1>1, <2>6, <4>4
        <5>2. t[i - 1] = x
          BY <2>6, <4>1, <5>1
        <5>3. QED
          BY <5>1, <5>2 DEF In
      <4>5. QED
        BY <1>1, <4>2, <4>3, <4>4
    <3>3. QED
      BY <3>1, <3>2
  <2>10. QED
    BY <1>1, <2>2, <2>6, <2>8, <2>9 DEF t
<1>4. QED
  BY <1>2, <1>3

LEMMA PutMapped ==
  ASSUME Types, Mapped, NEW k \in Key, NEW new \in Entry, new.kind # "none", Put(k, new)
  PROVE  Mapped'
<1> DEFINE longer == IF In(k, line) THEN line ELSE Append(line, k)
           over == Len(longer) > MaxEntries
<1>1. /\ line \in Seq(Key) /\ Distinct(line) /\ Len(line) \in Nat /\ Len(line) <= MaxEntries
      /\ MaxEntries \in Nat \ {0}
      /\ \A x \in Key : In(x, line) <=> entry[x].kind # "none"
  BY IdemAssumption, LenProperties DEF Mapped, IsMap
<1>2. /\ line' = IF over THEN Tail(longer) ELSE longer
      /\ entry' = [x \in Key |-> IF over /\ x = Head(longer) THEN Nothing
                                 ELSE IF x = k THEN new ELSE entry[x]]
  <2>1. k \in Listed <=> In(k, line)
    BY <1>1, LenProperties DEF Listed, In
  <2>2. QED
    BY <2>1 DEF Put
<1>3. /\ longer \in Seq(Key) /\ Distinct(longer) /\ Len(longer) \in Nat
      /\ Len(longer) <= MaxEntries + 1
      /\ \A x : In(x, longer) <=> In(x, line) \/ x = k
  <2>1. CASE In(k, line)
    BY <1>1, <2>1
  <2>2. CASE ~In(k, line)
    <3>1. longer = Append(line, k)
      BY <2>2
    <3>2. QED
      BY <1>1, <2>2, <3>1, AppendKey
  <2>3. QED
    BY <2>1, <2>2
<1> HIDE DEF longer
<1>4. CASE over
  <2>1. /\ line' = Tail(longer)
        /\ entry' = [x \in Key |-> IF x = Head(longer) THEN Nothing
                                   ELSE IF x = k THEN new ELSE entry[x]]
    BY <1>2, <1>4
  <2>2. /\ line' \in Seq(Key) /\ Distinct(line') /\ Len(line') = Len(longer) - 1
        /\ \A x : In(x, line') <=> In(x, longer) /\ x # Head(longer)
    BY <1>1, <1>3, <1>4, <2>1, TailKeys
  <2>3. ASSUME NEW x \in Key PROVE In(x, line') <=> entry'[x].kind # "none"
    BY <1>1, <1>3, <2>1, <2>2 DEF Nothing
  <2>4. QED
    BY <1>1, <1>3, <2>2, <2>3 DEF Mapped, IsMap
<1>5. CASE ~over
  <2>1. line' = longer /\ entry' = [x \in Key |-> IF x = k THEN new ELSE entry[x]]
    BY <1>2, <1>5
  <2>2. ASSUME NEW x \in Key PROVE In(x, line') <=> entry'[x].kind # "none"
    BY <1>1, <1>3, <2>1
  <2>3. Len(line') <= MaxEntries
    BY <1>1, <1>3, <1>5, <2>1
  <2>4. QED
    BY <1>3, <2>1, <2>2, <2>3 DEF Mapped, IsMap
<1>6. QED
  BY <1>4, <1>5

LEMMA DropMapped == ASSUME Types, Mapped, NEW k \in Key, Drop(k) PROVE Mapped'
<1>1. /\ line \in Seq(Key) /\ Distinct(line) /\ Len(line) \in Nat /\ Len(line) <= MaxEntries
      /\ MaxEntries \in Nat
      /\ \A x \in Key : In(x, line) <=> entry[x].kind # "none"
  BY IdemAssumption, LenProperties DEF Mapped, IsMap
<1>2. /\ line' \in Seq(Key) /\ Distinct(line') /\ Len(line') \in Nat /\ Len(line') <= Len(line)
      /\ \A x : In(x, line') <=> In(x, line) /\ x # k
  BY <1>1, RemoveKey, LenProperties DEF Drop
<1>3. ASSUME NEW x \in Key PROVE In(x, line') <=> entry'[x].kind # "none"
  BY <1>1, <1>2 DEF Drop, Types, Nothing
<1>4. Len(line') <= MaxEntries
  BY <1>1, <1>2
<1>5. QED
  BY <1>2, <1>3, <1>4 DEF Mapped, IsMap

LEMMA MappedStep == ASSUME Types, Mapped, [Next]_vars PROVE Mapped'
<1>1. ASSUME NEW r \in Request
      PROVE  /\ call[r].key \in Key
             /\ Promise(r) \in Entry /\ Promise(r).kind # "none"
             /\ Value(r) \in Entry /\ Value(r).kind # "none"
  BY IdemAssumption DEF Types, Call, Promise, Value, Entry
<1>2. CASE UNCHANGED <<entry, line>>
  BY <1>2 DEF Mapped, IsMap
<1>3. ASSUME NEW r \in Request, Begin(r) PROVE Mapped'
  BY <1>1, <1>3, PutMapped DEF Begin
<1>4. ASSUME NEW r \in Request, Arrive(r) PROVE Mapped'
  BY <1>2, <1>3, <1>4 DEF Arrive, ArriveStream, ArriveFresh, ArriveReplay, ArriveShare
<1>5. ASSUME NEW r \in Request, Proceed(r) PROVE Mapped'
  <2>1. CASE ShareServed(r) \/ ShareFailed(r)
    BY <1>2, <1>3, <2>1 DEF ShareServed, ShareFailed
  <2>2. CASE Succeed(r)
    BY <1>1, <1>2, <2>2, PutMapped DEF Succeed
  <2>3. CASE Fail(r)
    BY <1>1, <2>3, DropMapped DEF Fail
  <2>4. CASE FailUnheard(r)
    <3>1. entry' = [k \in Key |-> Nothing] /\ line' = <<>>
      BY <2>4 DEF FailUnheard
    <3>2. line' \in Seq(Key) /\ Len(line') = 0 /\ MaxEntries \in Nat
      BY <3>1, IdemAssumption
    <3>3. QED
      BY <3>1, <3>2 DEF Mapped, IsMap, Distinct, In, Nothing
  <2>5. QED
    BY <1>5, <2>1, <2>2, <2>3, <2>4 DEF Proceed
<1>6. CASE Tick
  <2>1. /\ line' = line
        /\ entry' = [k \in Key |-> [entry[k] EXCEPT !.left = IF @ > 0 THEN @ - 1 ELSE 0]]
    BY <1>6 DEF Tick
  <2>2. \A k \in Key : entry'[k].kind = entry[k].kind
    BY <2>1 DEF Types, Entry
  <2>3. QED
    BY <2>1, <2>2 DEF Mapped, IsMap
<1>7. QED
  BY <1>2, <1>4, <1>5, <1>6 DEF Next, Restart, vars

\* The Map never holds more than IDEM_MAX_ENTRIES keys, nor a key without its entry
\* or an entry without its key, for any number of calls and keys and any limit:
\* also when a call that ends brings back a key that was pruned meanwhile.
THEOREM CacheStaysBounded == Spec => []CacheInv
<1>1. Init => Mapped
  <2> SUFFICES ASSUME Init PROVE Mapped
    OBVIOUS
  <2>1. line = <<>> /\ line \in Seq(Key) /\ Len(line) = 0 /\ MaxEntries \in Nat
    BY IdemAssumption DEF Init
  <2>2. \A k \in Key : entry[k].kind = "none"
    BY DEF Init, Nothing
  <2>3. QED
    BY <2>1, <2>2 DEF Mapped, IsMap, Distinct, In
<1>2. ASSUME Types, Mapped PROVE CacheInv
  <2>1. /\ line \in [1..Len(line) -> Key] /\ DOMAIN line = 1..Len(line) /\ Len(line) \in Nat
        /\ Distinct(line) /\ \A k \in Key : In(k, line) <=> entry[k].kind # "none"
    BY <1>2, LenProperties DEF Mapped, IsMap
  <2>2. Listed = { k \in Key : entry[k].kind # "none" }
    BY <2>1 DEF Listed, In
  <2>3. line \in Bijection(1..Len(line), Listed)
    BY <2>1 DEF Listed, Distinct, Bijection, Injection, Surjection, IsInjective
  <2>4. Cardinality(Listed) = Len(line)
    BY <2>1, <2>3, FS_CountingElements DEF ExistsBijection
  <2>5. QED
    BY <1>2, <2>2, <2>4 DEF CacheInv, TypeOK, CacheBounded, Types, Mapped, IsMap
<1>3. Types /\ Mapped /\ [Next]_vars => Mapped'
  BY MappedStep
<1>4. Inv => Types
  BY DEF Inv
<1>5. QED
  BY <1>1, <1>2, <1>3, <1>4, Invariant, PTL DEF Spec
=============================================================================
