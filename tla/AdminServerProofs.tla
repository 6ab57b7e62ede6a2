-------------------------- MODULE AdminServerProofs --------------------------
(***************************************************************************)
(* For any number of calls, users and columns, with any clients and with   *)
(* the web console: the users store implements DurableStore, so that an    *)
(* acknowledged change stays in the users file; no variable is ever        *)
(* ill-typed; a list that comes to be shown has whoever the console was    *)
(* told to be created when it asked; and no snapshot gives way to an older *)
(* one.                                                                    *)
(*                                                                         *)
(* Inv is about the saves, StoreStep about what a step means for the       *)
(* store, Sound about types and who was let through, Calls about what the  *)
(* console expects of its calls, Screen about what it holds itself.        *)
(***************************************************************************)
EXTENDS AdminConsole, SequenceTheorems, TLAPS

Saving == {"queued", "written", "renamed"}
Fields == {"rows", "columns", "by"}

\* The variables the argument looks at.
Shapes ==
  /\ DOMAIN request = Call /\ DOMAIN pc = Call /\ DOMAIN answer = Call
  /\ DOMAIN image = Call
  /\ DOMAIN doc = Fields /\ DOMAIN file = Fields
  /\ \A c \in Call : DOMAIN image[c] = Fields
  /\ queue \in Seq(Call)

\* The saves in progress are the chain, each once; only its first has started.
Chain ==
  /\ \A i \in 1 .. Len(queue) : pc[queue[i]] \in Saving
  /\ \A i \in 2 .. Len(queue) : pc[queue[i]] = "queued"
  /\ \A i, j \in 1 .. Len(queue) : queue[i] = queue[j] => i = j
  /\ \A c \in Call : pc[c] \in Saving => \E i \in 1 .. Len(queue) : queue[i] = c

\* What is written holds what the file holds and the change it is for; nothing
\* is in the file that is not in memory.
Images ==
  /\ file.by \subseteq doc.by
  /\ \A c \in Call : pc[c] \in Saving => c \in doc.by
  /\ \A c \in Call : pc[c] = "written" =>
       c \in image[c].by /\ file.by \subseteq image[c].by /\ image[c].by \subseteq doc.by
  /\ \A c \in Call : pc[c] = "renamed" => c \in file.by

\* A call that reads is no change, and a call that saves is one.
Places ==
  \A c \in Call : /\ pc[c] = "reading" => request[c].kind \in {"query", "obs"}
                  /\ pc[c] \in Saving => request[c].kind \in Changes

\* The same for the names of users: none is lost on the way to the file, and the
\* user whom an acknowledged call created is in it.
Created(c, d) == request[c].kind = "create" => request[c].user \in Names(d)
Named ==
  /\ Names(file) \subseteq Names(doc)
  /\ \A c \in Call : pc[c] \in Saving => Created(c, doc)
  /\ \A c \in Call : pc[c] = "written" =>
       Created(c, image[c]) /\ Names(file) \subseteq Names(image[c])
       /\ Names(image[c]) \subseteq Names(doc)
  /\ \A c \in Call : pc[c] = "renamed" \/ c \in Acknowledged => Created(c, file)

Inv == Shapes /\ Chain /\ Images /\ Places /\ Named /\ AcknowledgedIsSaved

\* What a step does to the store is what DurableStore promises.
StoreStep == [Store!StoreNext]_<<doc, Draft, file, Acknowledged>>

LEMMA StoreMoves ==
  /\ UNCHANGED <<doc, Draft, file, Acknowledged>> => StoreStep
  /\ UNCHANGED <<Draft, file, Acknowledged>> /\ (\E c \in Call : doc'.by = doc.by \cup {c})
       => StoreStep
  /\ UNCHANGED <<doc, file, Acknowledged>> /\ Draft' \in {doc, file} => StoreStep
  /\ UNCHANGED <<doc, Draft, Acknowledged>> /\ file' = Draft => StoreStep
  /\ UNCHANGED <<doc, Draft, file>>
       /\ (\E c \in file.by : Acknowledged' = Acknowledged \cup {c}) => StoreStep
  /\ UNCHANGED <<file, Acknowledged>> /\ doc' = file /\ Draft' = file => StoreStep
BY DEF StoreStep, Store!StoreNext, Store!MakeChange, Store!TakeVersion, Store!Replace,
       Store!GiveUp, Store!Acknowledge, Store!Lose

-----------------------------------------------------------------------------
\* The process starts with an empty chain.
LEMMA InitInv == ServerInit => Inv
BY InitialDocAssumption
DEF ServerInit, Inv, Shapes, Chain, Images, Places, Named, AcknowledgedIsSaved, Acknowledged,
    Saving, Fields, Doc, EmptyDoc

\* A step that leaves the store alone, and moves one call that is not saving.
LEMMA QuietStep ==
  ASSUME Inv, NEW c \in Call, NEW p, pc[c] \notin Saving, p \notin Saving,
         pc' = [pc EXCEPT ![c] = p], UNCHANGED store,
         DOMAIN request' = Call, DOMAIN answer' = Call,
         \A b \in Call \ {c} : request'[b] = request[b] /\ answer'[b] = answer[b],
         pc[c] = "answered" => request[c].kind \notin Changes,
         p = "reading" => request'[c].kind \in {"query", "obs"},
         p = "answered" /\ request'[c].kind \in Changes => answer'[c].status \notin {200, 201}
  PROVE  Inv' /\ StoreStep
<1>1. \A b \in Call : pc'[b] = IF b = c THEN p ELSE pc[b]
  BY DEF Inv, Shapes
<1>2. DOMAIN pc' = Call
  BY DEF Inv, Shapes
<1>3. \A i \in 1 .. Len(queue) : queue[i] \in Call /\ queue[i] # c
  BY DEF Inv, Shapes, Chain
<1>4. Shapes'
  BY <1>2 DEF Inv, Shapes, store
<1>5. Chain'
  BY <1>1, <1>3 DEF Inv, Shapes, Chain, store
<1>6. Images'
  BY <1>1 DEF Inv, Images, store, Saving
<1>7. Places'
  BY <1>1 DEF Inv, Places
<1>8. AcknowledgedIsSaved'
  BY <1>1 DEF Inv, AcknowledgedIsSaved, Acknowledged, store
<1>9. Named'
  BY <1>1 DEF Inv, Named, Created, Acknowledged, Names, store, Saving, Changes
<1>10. StoreStep
  <2>1. Acknowledged' = Acknowledged
    BY <1>1 DEF Acknowledged
  <2>2. Draft' = Draft
    <3>1. CASE queue = <<>>
      BY <3>1 DEF Draft, store
    <3>2. CASE queue # <<>>
      <4>1. Head(queue) = queue[1] /\ 1 \in 1 .. Len(queue)
        BY <3>2 DEF Inv, Shapes
      <4>2. QED
        BY <1>1, <1>3, <3>2, <4>1 DEF Draft, store
    <3>3. QED
      BY <3>1, <3>2
  <2>3. QED
    BY <2>1, <2>2, StoreMoves DEF store
<1>11. QED
  BY <1>4, <1>5, <1>6, <1>7, <1>8, <1>9, <1>10 DEF Inv

\* A change is made in memory and its save put at the end of the chain.
LEMMA PersistStep ==
  ASSUME Inv, NEW c \in Call, NEW d, pc[c] \notin Saving \cup {"answered"}, Persist(c, d),
         DOMAIN d = Fields, d.by = doc.by, Names(doc) \subseteq Names(d),
         request[c].kind \in Changes, Created(c, d)
  PROVE  Inv' /\ StoreStep
<1> DEFINE n == Len(queue)
<1>1. \A b \in Call : pc'[b] = IF b = c THEN "queued" ELSE pc[b]
  BY DEF Inv, Shapes, Persist, Await
<1>2. doc'.by = doc.by \cup {c} /\ DOMAIN doc' = Fields
  BY DEF Persist, Fields
<1>3. n \in Nat /\ queue' \in Seq(Call) /\ Len(queue') = n + 1
  BY DEF Inv, Shapes, Persist
<1>4. \A i \in 1 .. n + 1 : queue'[i] = IF i = n + 1 THEN c ELSE queue[i]
  BY <1>3 DEF Inv, Shapes, Persist
<1>5. \A i \in 1 .. n : queue[i] \in Call /\ queue[i] # c
  BY DEF Inv, Shapes, Chain
<1>6. Shapes'
  BY <1>2, <1>3 DEF Inv, Shapes, Persist, Await
<1>7. Chain'
  <2>1. \A i \in 1 .. Len(queue') : pc'[queue'[i]] \in Saving
    BY <1>1, <1>3, <1>4, <1>5 DEF Inv, Chain, Saving
  <2>2. \A i \in 2 .. Len(queue') : pc'[queue'[i]] = "queued"
    BY <1>1, <1>3, <1>4, <1>5 DEF Inv, Chain
  <2>3. \A i, j \in 1 .. Len(queue') : queue'[i] = queue'[j] => i = j
    BY <1>3, <1>4, <1>5 DEF Inv, Chain
  <2>4. ASSUME NEW b \in Call, pc'[b] \in Saving
        PROVE  \E i \in 1 .. Len(queue') : queue'[i] = b
    <3>1. CASE b = c
      BY <3>1, <1>3, <1>4
    <3>2. CASE b # c
      <4>1. PICK i \in 1 .. n : queue[i] = b
        BY <3>2, <2>4, <1>1 DEF Inv, Chain
      <4>2. i \in 1 .. Len(queue') /\ queue'[i] = b
        BY <4>1, <1>3, <1>4
      <4>3. QED
        BY <4>2
    <3>3. QED
      BY <3>1, <3>2
  <2>5. QED
    BY <2>1, <2>2, <2>3, <2>4 DEF Chain
<1>8. Images'
  BY <1>1, <1>2 DEF Inv, Images, Persist, Saving
<1>9. Places'
  BY <1>1 DEF Inv, Places, Persist, Await
<1>10. AcknowledgedIsSaved'
  BY <1>1 DEF Inv, AcknowledgedIsSaved, Acknowledged, Persist, Await
<1>11. Named'
  <2>1. Names(doc') = Names(d) /\ file' = file /\ image' = image /\ UNCHANGED <<request, answer>>
    BY DEF Persist, Await, Names, Fields
  <2>2. QED
    BY <1>1, <2>1 DEF Inv, Named, Created, Acknowledged, Saving
<1>12. StoreStep
  <2>1. Acknowledged' = Acknowledged
    BY <1>1 DEF Acknowledged, Persist, Await
  <2>2. Draft' = Draft
    <3>1. CASE n = 0
      <4>1. queue = <<>> /\ queue' # <<>> /\ Head(queue') = c
        BY <1>3, <1>4, <3>1 DEF Inv, Shapes
      <4>2. QED
        BY <1>1, <4>1 DEF Draft, Persist
    <3>2. CASE n # 0
      <4>1. queue # <<>> /\ queue' # <<>> /\ Head(queue) = queue[1] /\ Head(queue') = queue[1]
        BY <1>3, <1>4, <3>2 DEF Inv, Shapes
      <4>2. queue[1] \in Call /\ queue[1] # c
        BY <1>3, <1>5, <3>2
      <4>3. QED
        BY <1>1, <4>1, <4>2 DEF Draft, Persist
    <3>3. QED
      BY <3>1, <3>2
  <2>3. QED
    BY <1>2, <2>1, <2>2, StoreMoves DEF Persist
<1>13. QED
  BY <1>6, <1>7, <1>8, <1>9, <1>10, <1>11, <1>12 DEF Inv

\* The first of the chain takes its image: it holds every change there is.
LEMMA WriteStep == ASSUME Inv, NEW c \in Call, Write(c) PROVE Inv' /\ StoreStep
<1> DEFINE n == Len(queue)
<1>1. \A b \in Call : /\ pc'[b] = IF b = c THEN "written" ELSE pc[b]
                      /\ image'[b] = IF b = c THEN doc ELSE image[b]
  BY DEF Inv, Shapes, Write, Await
<1>2. pc[c] \in Saving /\ queue' = queue /\ doc' = doc /\ file' = file
  BY DEF Write, Saving
<1>3. n \in 1 .. n /\ 1 \in 1 .. n /\ c = queue[1]
  <2>1. \E i \in 1 .. n : queue[i] = c
    BY <1>2 DEF Inv, Chain
  <2>2. QED
    BY <2>1 DEF Inv, Shapes, Write
<1>4. \A i \in 2 .. n : queue[i] \in Call /\ queue[i] # c
  BY <1>3 DEF Inv, Shapes, Chain
<1>5. Shapes'
  BY <1>1, <1>2 DEF Inv, Shapes, Write, Await
<1>6. Chain'
  <2>1. \A i \in 1 .. n : queue[i] \in Call
    BY DEF Inv, Shapes
  <2>2. \A i \in 1 .. n : pc'[queue[i]] \in Saving
    BY <1>1, <2>1 DEF Inv, Chain, Saving
  <2>3. \A i \in 2 .. n : pc'[queue[i]] = "queued"
    BY <1>1, <1>4 DEF Inv, Chain
  <2>4. \A b \in Call : pc'[b] \in Saving => pc[b] \in Saving
    BY <1>1, <1>2
  <2>5. QED
    BY <1>2, <2>2, <2>3, <2>4 DEF Inv, Chain
<1>7. Images'
  BY <1>1, <1>2 DEF Inv, Images, Saving
<1>8. Places'
  BY <1>1, <1>2 DEF Inv, Places, Write, Await
<1>9. AcknowledgedIsSaved'
  BY <1>1, <1>2 DEF Inv, AcknowledgedIsSaved, Acknowledged, Write, Await
<1>10. Named'
  BY <1>1, <1>2 DEF Inv, Named, Created, Acknowledged, Write, Await, Saving
<1>11. StoreStep
  <2>1. Acknowledged' = Acknowledged
    BY <1>1, <1>2 DEF Acknowledged, Write, Await, Saving
  <2>2. queue # <<>> /\ c = Head(queue)
    BY <1>3 DEF Write
  <2>3. Draft' = doc
    BY <1>1, <1>2, <2>2 DEF Draft
  <2>4. QED
    BY <1>2, <2>1, <2>3, StoreMoves
<1>12. QED
  BY <1>5, <1>6, <1>7, <1>8, <1>9, <1>10, <1>11 DEF Inv

\* Who is not merely queued is the first of the chain.
LEMMA OnlyHeadStarts ==
  ASSUME Inv, NEW c \in Call, pc[c] \in {"written", "renamed"}
  PROVE  Len(queue) >= 1 /\ queue[1] = c
<1>1. PICK i \in 1 .. Len(queue) : queue[i] = c
  BY DEF Inv, Chain, Saving
<1>2. i \notin 2 .. Len(queue)
  BY <1>1 DEF Inv, Chain
<1>3. QED
  BY <1>1, <1>2 DEF Inv, Shapes

\* The file becomes the image, which holds whatever the file held.
LEMMA RenameStep == ASSUME Inv, NEW c \in Call, Rename(c) PROVE Inv' /\ StoreStep
<1> DEFINE n == Len(queue)
<1>1. \A b \in Call : pc'[b] = IF b = c THEN "renamed" ELSE pc[b]
  BY DEF Inv, Shapes, Rename, Await
<1>2. pc[c] = "written" /\ queue' = queue /\ doc' = doc /\ image' = image /\ file' = image[c]
  BY DEF Rename
<1>3. n >= 1 /\ queue[1] = c
  BY <1>2, OnlyHeadStarts
<1>4. \A i \in 1 .. n : queue[i] \in Call
  BY DEF Inv, Shapes
<1>5. \A i \in 2 .. n : queue[i] # c
  <2>1. 1 \in 1 .. n /\ \A i \in 2 .. n : i \in 1 .. n /\ i # 1
    BY <1>3 DEF Inv, Shapes
  <2>2. QED
    BY <1>3, <2>1 DEF Inv, Chain
<1>6. Shapes'
  BY <1>1, <1>2 DEF Inv, Shapes, Rename, Await
<1>7. Chain'
  <2>1. \A i \in 1 .. n : pc'[queue[i]] \in Saving
    BY <1>1, <1>4 DEF Inv, Chain, Saving
  <2>2. \A i \in 2 .. n : pc'[queue[i]] = "queued"
    BY <1>1, <1>4, <1>5 DEF Inv, Chain, Shapes
  <2>3. \A b \in Call : pc'[b] \in Saving => pc[b] \in Saving
    BY <1>1, <1>2 DEF Saving
  <2>4. QED
    BY <1>2, <2>1, <2>2, <2>3 DEF Inv, Chain
<1>8. \A b \in Call \ {c} : pc[b] # "written" /\ pc[b] # "renamed"
  BY <1>3, OnlyHeadStarts
<1>9. Images'
  BY <1>1, <1>2, <1>8 DEF Inv, Images, Saving
<1>10. Places'
  BY <1>1, <1>2 DEF Inv, Places, Rename, Await, Saving
<1>11. AcknowledgedIsSaved'
  BY <1>1, <1>2 DEF Inv, Images, AcknowledgedIsSaved, Acknowledged, Rename, Await
<1>12. Named'
  BY <1>1, <1>2, <1>8 DEF Inv, Named, Created, Acknowledged, Rename, Await, Saving
<1>13. StoreStep
  <2>1. Acknowledged' = Acknowledged
    BY <1>1, <1>2 DEF Acknowledged, Rename, Await
  <2>2. queue # <<>> /\ c = Head(queue)
    BY <1>3 DEF Inv, Shapes
  <2>3. Draft' = image[c] /\ Draft = image[c]
    BY <1>1, <1>2, <2>2 DEF Draft
  <2>4. QED
    BY <1>2, <2>1, <2>3, StoreMoves
<1>14. QED
  BY <1>6, <1>7, <1>9, <1>10, <1>11, <1>12, <1>13 DEF Inv

\* A save leaves the chain; if it is acknowledged its change is in the file.
LEMMA LeaveStep ==
  ASSUME Inv, NEW c \in Call, pc[c] \in Saving, c = Head(queue), Leave(c), NEW a,
         AnswerWith(c, a),
         pc[c] # "renamed" => a.status \notin {200, 201}
  PROVE  Inv' /\ StoreStep
<1> DEFINE n == Len(queue)
<1>1. \A b \in Call : /\ pc'[b] = IF b = c THEN "answered" ELSE pc[b]
                      /\ image'[b] = IF b = c THEN EmptyDoc ELSE image[b]
                      /\ answer'[b] = IF b = c THEN a ELSE answer[b]
  BY DEF Inv, Shapes, Leave, AnswerWith
<1>2. queue' = Tail(queue) /\ doc' = doc /\ file' = file /\ request' = request
  BY DEF Leave, AnswerWith
<1>3. n \in Nat /\ n >= 1 /\ c = queue[1]
  <2>1. \E i \in 1 .. n : queue[i] = c
    BY DEF Inv, Chain
  <2>2. QED
    BY <2>1 DEF Inv, Shapes
<1>4. /\ Len(queue') = n - 1 /\ queue' \in Seq(Call)
      /\ \A i \in 1 .. n - 1 : queue'[i] = queue[i + 1]
  BY <1>2, <1>3 DEF Inv, Shapes
<1>5. \A i \in 1 .. n - 1 : i + 1 \in 1 .. n /\ i + 1 \in 2 .. n
  BY <1>3
<1>6. \A i \in 2 .. n : queue[i] \in Call /\ queue[i] # c
  <2>1. 1 \in 1 .. n /\ \A i \in 2 .. n : i \in 1 .. n /\ i # 1
    BY <1>3
  <2>2. QED
    BY <1>3, <2>1 DEF Inv, Shapes, Chain
<1>7. Shapes'
  BY <1>1, <1>2, <1>4 DEF Inv, Shapes, Leave, AnswerWith, EmptyDoc, Fields
<1>8. Chain'
  <2>1. \A i \in 1 .. n - 1 : pc'[queue'[i]] = "queued"
    BY <1>1, <1>4, <1>5, <1>6 DEF Inv, Chain
  <2>2. \A i, j \in 1 .. n - 1 : queue'[i] = queue'[j] => i = j
    <3> SUFFICES ASSUME NEW i \in 1 .. n - 1, NEW j \in 1 .. n - 1, queue'[i] = queue'[j]
                 PROVE  i = j
      OBVIOUS
    <3>1. queue[i + 1] = queue[j + 1] /\ i + 1 \in 1 .. n /\ j + 1 \in 1 .. n
      BY <1>4, <1>5
    <3>2. i + 1 = j + 1
      BY <3>1 DEF Inv, Chain
    <3>3. QED
      BY <3>2, <1>3
  <2>3. ASSUME NEW b \in Call, pc'[b] \in Saving
        PROVE  \E i \in 1 .. n - 1 : queue'[i] = b
    <3>1. b # c /\ pc[b] \in Saving
      BY <2>3, <1>1 DEF Saving
    <3>2. PICK i \in 1 .. n : queue[i] = b
      BY <3>1 DEF Inv, Chain
    <3>3. i - 1 \in 1 .. n - 1 /\ (i - 1) + 1 = i
      BY <3>1, <3>2, <1>3
    <3>4. queue'[i - 1] = b
      BY <3>2, <3>3, <1>4
    <3>5. QED
      BY <3>3, <3>4
  <2>4. 1 .. Len(queue') = 1 .. n - 1
    BY <1>4
  <2>5. \A i \in 2 .. Len(queue') : i \in 1 .. n - 1
    BY <1>3, <1>4
  <2>6. /\ \A i \in 1 .. Len(queue') : pc'[queue'[i]] \in Saving
        /\ \A i \in 2 .. Len(queue') : pc'[queue'[i]] = "queued"
    BY <2>1, <2>4, <2>5 DEF Saving
  <2>7. QED
    BY <2>2, <2>3, <2>4, <2>6 DEF Chain
<1>9. Images'
  BY <1>1, <1>2 DEF Inv, Images, Saving
<1>10. Places'
  BY <1>1, <1>2 DEF Inv, Places
<1>11. AcknowledgedIsSaved'
  BY <1>1, <1>2 DEF Inv, Images, AcknowledgedIsSaved, Acknowledged, Saving
<1>12. Named'
  BY <1>1, <1>2 DEF Inv, Named, Created, Acknowledged, Saving
<1>13. StoreStep
  <2>1. Draft' = file
    <3>1. CASE n = 1
      BY <1>2, <1>4, <3>1 DEF Draft
    <3>2. CASE n # 1
      <4>1. 2 \in 2 .. n /\ 1 \in 1 .. n - 1
        BY <1>3, <3>2
      <4>2. queue' # <<>> /\ Head(queue') = queue[2]
        BY <1>4, <4>1
      <4>3. queue[2] \in Call /\ pc'[queue[2]] = "queued"
        BY <1>1, <1>6, <4>1 DEF Inv, Chain
      <4>4. QED
        BY <1>2, <4>2, <4>3 DEF Draft
    <3>3. QED
      BY <3>1, <3>2
  <2>2. CASE pc[c] = "renamed"
    <3>1. Draft = file
      BY <2>2 DEF Draft
    <3>2. c \in file.by
      BY <2>2 DEF Inv, Images
    <3>3. Acknowledged' = Acknowledged \/ Acknowledged' = Acknowledged \cup {c}
      BY <1>1, <1>2, <2>2 DEF Acknowledged
    <3>4. QED
      BY <1>2, <2>1, <3>1, <3>2, <3>3, StoreMoves
  <2>3. CASE pc[c] # "renamed"
    <3>1. Acknowledged' = Acknowledged
      BY <1>1, <1>2, <2>3 DEF Acknowledged, Saving
    <3>2. QED
      BY <1>2, <2>1, <3>1, StoreMoves
  <2>4. QED
    BY <2>2, <2>3
<1>14. QED
  BY <1>7, <1>8, <1>9, <1>10, <1>11, <1>12, <1>13 DEF Inv

\* After a restart nothing is in memory that is not in the file.
LEMMA CrashStep == ASSUME Inv, Crash PROVE Inv' /\ StoreStep
<1>1. \A c \in Call : /\ pc'[c] \notin Saving /\ pc'[c] # "reading"
                      /\ pc'[c] = "answered" => pc[c] = "answered"
                      /\ image'[c] = EmptyDoc
  BY DEF Crash, Saving
<1>2. queue' = <<>> /\ doc' = file /\ file' = file /\ UNCHANGED <<request, answer>>
  BY DEF Crash
<1>3. Shapes'
  BY <1>1, <1>2 DEF Inv, Shapes, Crash, EmptyDoc, Fields
<1>4. Chain' /\ Images' /\ Places'
  BY <1>1, <1>2 DEF Chain, Images, Places, Saving
<1>5. AcknowledgedIsSaved'
  BY <1>1, <1>2 DEF Inv, AcknowledgedIsSaved, Acknowledged
<1>6. Named'
  BY <1>1, <1>2 DEF Inv, Named, Created, Acknowledged, Saving
<1>7. StoreStep
  <2>1. Acknowledged' = Acknowledged
    BY <1>2 DEF Acknowledged, Crash
  <2>2. QED
    BY <1>2, <2>1, StoreMoves DEF Draft
<1>8. QED
  BY <1>3, <1>4, <1>5, <1>6, <1>7 DEF Inv

-----------------------------------------------------------------------------
\* Every handler is one of the steps above.
LEMMA HandleStep == ASSUME Inv, NEW c \in Call, Handle(c) PROVE Inv' /\ StoreStep
<1> USE DEF Inv
<1> DEFINE Kept == DOMAIN request' = Call /\ request' = request /\ DOMAIN answer' = Call
                   /\ \A b \in Call \ {c} : answer'[b] = answer[b]
<1>1. ASSUME NEW a, AnswerWith(c, a)
      PROVE  Kept /\ pc' = [pc EXCEPT ![c] = "answered"] /\ answer'[c] = a
  BY <1>1 DEF AnswerWith, Shapes
<1>2. ASSUME NEW point, Await(c, point)
      PROVE  Kept /\ pc' = [pc EXCEPT ![c] = point]
  BY <1>2 DEF Await, Shapes
<1>3. ASSUME NEW status_, Answer(c, status_)
      PROVE  Kept /\ pc' = [pc EXCEPT ![c] = "answered"] /\ answer'[c].status = status_
  BY <1>3, <1>1 DEF Answer, NoAnswer
<1>4. ASSUME NEW code \in DOMAIN StatusOf, Reject(c, code)
      PROVE  Kept /\ pc' = [pc EXCEPT ![c] = "answered"] /\ answer'[c].status \notin {200, 201}
  BY <1>4, <1>3 DEF Reject, StatusOf
<1>5. CASE Refused(c)
  <2>1. Refusal(request[c]) \in DOMAIN StatusOf
    BY DEF Refusal, StatusOf
  <2>2. QED
    BY <1>5, <1>4, <2>1, QuietStep DEF Refused, Saving
<1>6. CASE Me(c) \/ ListUsers(c) \/ StartRead(c) \/ FinishRead(c)
  <2>1. CASE Me(c)
    <3>1. request[c].kind \notin Changes /\ pc[c] = "sent" /\ UNCHANGED store
      BY <2>1 DEF Me, Handling, Changes
    <3>2. Kept /\ pc' = [pc EXCEPT ![c] = "answered"]
      BY <2>1, <1>3, <1>4 DEF Me, StatusOf
    <3>3. QED
      BY <3>1, <3>2, QuietStep DEF Saving
  <2>2. CASE ListUsers(c)
    <3>1. request[c].kind \notin Changes /\ pc[c] = "sent" /\ UNCHANGED store
      BY <2>2 DEF ListUsers, Handling, Changes
    <3>2. Kept /\ pc' = [pc EXCEPT ![c] = "answered"]
      BY <2>2, <1>1 DEF ListUsers, AnswerTable
    <3>3. QED
      BY <3>1, <3>2, QuietStep DEF Saving
  <2>3. CASE StartRead(c)
    <3>1. request[c].kind \in {"query", "obs"} /\ pc[c] = "sent" /\ UNCHANGED store
      BY <2>3 DEF StartRead, Handling
    <3>2. Kept /\ pc' = [pc EXCEPT ![c] = "reading"]
      BY <2>3, <1>2 DEF StartRead
    <3>3. QED
      BY <3>1, <3>2, QuietStep DEF Saving
  <2>4. CASE FinishRead(c)
    <3>1. request[c].kind \notin Changes /\ pc[c] = "reading" /\ UNCHANGED store
      BY <2>4 DEF FinishRead, Places, Changes
    <3>2. Kept /\ pc' = [pc EXCEPT ![c] = "answered"]
      BY <2>4, <1>3, <1>4 DEF FinishRead, StatusOf
    <3>3. QED
      BY <3>1, <3>2, QuietStep DEF Saving
  <2>5. QED
    BY <1>6, <2>1, <2>2, <2>3, <2>4
<1>7. CASE Login(c)
  <2>1. pc[c] = "sent" /\ UNCHANGED store
    BY <1>7 DEF Login, Handling
  <2>2. Kept /\ \/ pc' = [pc EXCEPT ![c] = "verifying"]
                \/ pc' = [pc EXCEPT ![c] = "answered"] /\ answer'[c].status \notin {200, 201}
    BY <1>7, <1>2, <1>4 DEF Login, StatusOf
  <2>3. QED
    BY <2>1, <2>2, QuietStep DEF Saving
<1>8. CASE LoginVerified(c)
  <2>1. pc[c] = "verifying" /\ UNCHANGED store /\ request[c].kind \notin Changes
    BY <1>8 DEF LoginVerified, Changes
  <2>2. Kept /\ pc' = [pc EXCEPT ![c] = "answered"]
    BY <1>8, <1>1, <1>4 DEF LoginVerified, StatusOf
  <2>3. QED
    BY <2>1, <2>2, QuietStep DEF Saving
<1>9. CASE CreateUser(c) \/ ChangePassword(c) \/ PasswordVerified(c)
  <2>1. pc[c] \in {"sent", "verifying"} /\ UNCHANGED store
    BY <1>9 DEF CreateUser, ChangePassword, PasswordVerified, Handling
  <2>2. Kept /\ \/ pc' = [pc EXCEPT ![c] = "verifying"] \/ pc' = [pc EXCEPT ![c] = "hashing"]
                \/ pc' = [pc EXCEPT ![c] = "answered"] /\ answer'[c].status \notin {200, 201}
    BY <1>9, <1>2, <1>4 DEF CreateUser, ChangePassword, PasswordVerified, StatusOf
  <2>3. QED
    BY <2>1, <2>2, QuietStep DEF Saving
<1>10. CASE UpdateProfile(c) \/ NewColumn(c) \/ CreateHashed(c) \/ PasswordHashed(c)
  <2>1. pc[c] \in {"sent", "hashing"}
    BY <1>10 DEF UpdateProfile, NewColumn, CreateHashed, PasswordHashed, Handling
  <2>2. ASSUME Reject(c, "NOT_FOUND") \/ Reject(c, "CONFLICT"), UNCHANGED store
        PROVE  Inv' /\ StoreStep
    BY <2>1, <2>2, <1>4, QuietStep DEF Saving, StatusOf
  <2>3. ASSUME NEW d, Persist(c, d), DOMAIN d = Fields, d.by = doc.by,
               Names(doc) \subseteq Names(d), request[c].kind \in Changes, Created(c, d)
        PROVE  Inv' /\ StoreStep
    BY <2>1, <2>3, PersistStep DEF Saving
  <2>4. \A col : /\ DOMAIN AddColumn(doc, col) = Fields /\ AddColumn(doc, col).by = doc.by
                /\ Names(AddColumn(doc, col)) = Names(doc)
    BY DEF AddColumn, Shapes, Fields, Names
  <2>5. \A u, p : /\ DOMAIN AddUser(doc, u, p) = Fields /\ AddUser(doc, u, p).by = doc.by
                 /\ Names(AddUser(doc, u, p)) = Names(doc) \cup {u}
    BY DEF AddUser, Shapes, Fields, Names
  <2>6. \A u, p : /\ DOMAIN SetPassword(doc, u, p) = Fields /\ SetPassword(doc, u, p).by = doc.by
                 /\ Names(SetPassword(doc, u, p)) = Names(doc)
    BY DEF SetPassword, Shapes, Fields, Names
  <2>7. CASE UpdateProfile(c)
    BY <2>2, <2>3, <2>7 DEF UpdateProfile, Handling, Shapes, Changes, Created
  <2>8. CASE NewColumn(c)
    BY <2>2, <2>3, <2>4, <2>8 DEF NewColumn, Handling, Changes, Created
  <2>9. CASE CreateHashed(c)
    BY <2>2, <2>3, <2>5, <2>9 DEF CreateHashed, Changes, Created
  <2>10. CASE PasswordHashed(c)
    BY <2>3, <2>6, <2>10 DEF PasswordHashed, Changes, Created
  <2>11. QED
    BY <1>10, <2>7, <2>8, <2>9, <2>10
<1>11. CASE Write(c) \/ Rename(c)
  BY <1>11, WriteStep, RenameStep
<1>12. CASE Saved(c)
  <2>1. pc[c] = "renamed" /\ Leave(c) /\ \E a : AnswerWith(c, a)
    BY <1>12 DEF Saved, AnswerTable, Answer
  <2>2. pc[c] \in Saving /\ c = Head(queue)
    BY <2>1, OnlyHeadStarts DEF Saving, Shapes
  <2>3. QED
    BY <2>1, <2>2, LeaveStep
<1>13. CASE SaveFails(c)
  <2>1. pc[c] \in Saving /\ Leave(c) /\ c = Head(queue)
    BY <1>13, OnlyHeadStarts DEF SaveFails, Saving, Shapes
  <2>2. PICK a : AnswerWith(c, a) /\ a.status \notin {200, 201}
    BY <1>13 DEF SaveFails, Reject, Answer, StatusOf, NoAnswer
  <2>3. QED
    BY <2>1, <2>2, LeaveStep
<1>14. QED
  BY <1>5, <1>6, <1>7, <1>8, <1>9, <1>10, <1>11, <1>12, <1>13 DEF Handle

\* Nothing of what the argument looks at changes.
LEMMA IdleStep ==
  ASSUME Inv, UNCHANGED <<request, pc, answer, store>> PROVE Inv' /\ StoreStep
<1>1. Inv'
  BY DEF store, Inv, Shapes, Chain, Images, Places, Named, Created, AcknowledgedIsSaved,
         Acknowledged
<1>2. UNCHANGED <<doc, Draft, file, Acknowledged>>
  BY DEF store, Draft, Acknowledged
<1>3. QED
  BY <1>1, <1>2, StoreMoves

\* What clients do leaves the store alone.
LEMMA SendStep == ASSUME Inv, NEW c \in Call, NEW r, Send(c, r) PROVE Inv' /\ StoreStep
<1>1. /\ pc[c] = "unsent" /\ UNCHANGED store /\ answer' = answer
      /\ pc' = [pc EXCEPT ![c] = "sent"] \/ pc' = [pc EXCEPT ![c] = "lost"]
      /\ DOMAIN request' = Call /\ DOMAIN answer' = Call
      /\ \A b \in Call \ {c} : request'[b] = request[b]
  BY DEF Send, Inv, Shapes
<1>2. QED
  BY <1>1, QuietStep DEF Saving

LEMMA ReleaseStep ==
  ASSUME Inv, NEW c \in Call, pc[c] \in {"answered", "lost"}, Release(c) PROVE Inv' /\ StoreStep
<1>1. CASE request[c].kind \in Changes
  BY <1>1, IdleStep DEF Release, serverVars
<1>2. CASE request[c].kind \notin Changes
  <2>1. /\ UNCHANGED store /\ pc' = [pc EXCEPT ![c] = "unsent"]
        /\ DOMAIN request' = Call /\ DOMAIN answer' = Call
        /\ \A b \in Call \ {c} : request'[b] = request[b] /\ answer'[b] = answer[b]
    BY <1>2 DEF Release, Inv, Shapes
  <2>2. QED
    BY <1>2, <2>1, QuietStep DEF Saving
<1>3. QED
  BY <1>1, <1>2

LEMMA WorldStep == ASSUME Inv, World PROVE Inv' /\ StoreStep
BY IdleStep, CrashStep DEF World, NextWindow, TokenExpires

\* What the server and its clients do, in one step.
LEMMA ServerStep == ASSUME Inv, [ServerNext]_serverVars PROVE Inv' /\ StoreStep
<1>1. CASE UNCHANGED serverVars
  BY <1>1, IdleStep DEF serverVars
<1>2. CASE ServerNext
  BY <1>2, HandleStep, SendStep, ReleaseStep, WorldStep DEF ServerNext
<1>3. QED
  BY <1>1, <1>2

LEMMA StoreStarts == ServerInit => Store!StoreInit
BY DEF ServerInit, Store!StoreInit, Draft, Acknowledged

\* Whoever the clients are and whatever they ask for, the users store is one whose
\* saves put whole versions of the document in place, one at a time and in order,
\* and that acknowledges no change the file does not have (userStore.ts save(),
\* handlers.ts persist()).
THEOREM ServerIsDurable == ServerSpec => StoreIsDurable
<1>1. ServerInit => Inv /\ Store!StoreInit
  BY InitInv, StoreStarts
<1>2. Inv /\ [ServerNext]_serverVars => Inv' /\ StoreStep
  BY ServerStep
<1>3. QED
  BY <1>1, <1>2, PTL DEF ServerSpec, StoreIsDurable, Store!Durability, StoreStep

\* Of any such store: a change that was acknowledged is in the durable document and
\* stays there, through failed saves, saves of others and restarts.
THEOREM DurableKeepsAcknowledged == StoreIsDurable => []AcknowledgedIsSaved
<1> DEFINE J == Acknowledged \subseteq file.by /\ file.by \subseteq Draft.by
                /\ Draft.by \subseteq doc.by
<1>1. Store!StoreInit => J
  BY InitialDocAssumption DEF Store!StoreInit
<1>2. J /\ StoreStep => J'
  BY DEF StoreStep, Store!StoreNext, Store!MakeChange, Store!TakeVersion, Store!Replace,
         Store!GiveUp, Store!Acknowledge, Store!Lose
<1>3. J => AcknowledgedIsSaved
  BY DEF AcknowledgedIsSaved
<1> HIDE DEF J
<1>4. QED
  BY <1>1, <1>2, <1>3, PTL DEF StoreIsDurable, Store!Durability, StoreStep

\* So does this one, whoever the clients are.
THEOREM ServerKeepsAcknowledged == ServerSpec => []AcknowledgedIsSaved
BY ServerIsDurable, DurableKeepsAcknowledged, PTL

-----------------------------------------------------------------------------
\* What the console does is, for the server, the step of a client or none.
LEMMA ReceiveStep == ASSUME Inv, NEW c \in Call, Receive(c) PROVE Inv' /\ StoreStep
<1>1. CASE pc[c] \in {"answered", "lost"} /\ Release(c)
  BY <1>1, ReleaseStep
<1>2. CASE \E d \in Call : \E r : Send(d, r)
  BY <1>2, SendStep
<1>3. CASE ReceiveCreate(c)
  BY <1>1, <1>2, <1>3 DEF ReceiveCreate, Landed, Then, Fails, Done, Forget
<1>4. CASE ReceiveProfile(c)
  BY <1>1, <1>2, <1>4 DEF ReceiveProfile, Landed, Then, Fails, Done, Forget
<1>5. CASE ReceiveTable(c)
  BY <1>1, <1>5 DEF ReceiveTable, Landed, Done, Forget
<1>6. CASE ReceiveForm(c)
  BY <1>1, <1>6 DEF ReceiveForm, Landed, Done, Forget
<1>7. CASE ReceiveBoot(c) \/ ReceiveLogin(c)
  BY <1>1, <1>7 DEF ReceiveBoot, ReceiveLogin, Landed, Forget
<1>8. CASE ReceiveRefresh(c) \/ ReceiveColumn(c) \/ ReceiveObs(c)
  BY <1>1, <1>8 DEF ReceiveRefresh, ReceiveColumn, ReceiveObs, Landed, Done, Forget
<1>9. QED
  BY <1>3, <1>4, <1>5, <1>6, <1>7, <1>8 DEF Receive

LEMMA EffectsStep == ASSUME Inv, Effects PROVE Inv' /\ StoreStep
<1>1. CASE \E c \in Call : \E r : Send(c, r)
  BY <1>1, SendStep
<1>2. CASE UNCHANGED serverVars
  BY <1>2, IdleStep DEF serverVars
<1>3. CASE Boot
  BY <1>1, <1>2, <1>3 DEF Boot, Ask
<1>4. CASE Load
  BY <1>1, <1>4 DEF Load, Ask
<1>5. CASE Poll
  BY <1>1, <1>5 DEF Poll, Ask
<1>6. QED
  BY <1>3, <1>4, <1>5 DEF Effects

LEMMA ActStep == ASSUME Inv, Act PROVE Inv' /\ StoreStep
<1>1. ASSUME NEW form, Submit(form) PROVE Inv' /\ StoreStep
  BY <1>1, SendStep DEF Submit, Ask
<1>2. CASE Logout \/ Navigate \/ Reload
  BY <1>2, IdleStep DEF Logout, Navigate, Reload, serverVars
<1>3. CASE SubmitLogin \/ SubmitUsers \/ SubmitProfile
  BY <1>1, <1>3 DEF SubmitLogin, SubmitUsers, SubmitProfile
<1>4. QED
  BY <1>2, <1>3 DEF Act

LEMMA ConsoleStep == ASSUME Inv, [Next]_vars PROVE Inv' /\ StoreStep
<1>1. CASE UNCHANGED vars
  BY <1>1, IdleStep DEF vars, serverVars
<1>2. CASE \E c \in Call : Serve(c) \/ Receive(c)
  BY <1>2, HandleStep, ReceiveStep DEF Serve
<1>3. CASE SomebodyElse
  BY <1>3, SendStep, ReleaseStep DEF SomebodyElse
<1>4. CASE World /\ UNCHANGED consoleVars
  BY <1>4, WorldStep
<1>5. QED
  BY <1>1, <1>2, <1>3, <1>4, EffectsStep, ActStep DEF Next

\* The same of the server with the web console in front of it and somebody else
\* beside it, for any number of calls in flight and whatever is typed: the store
\* implements DurableStore.
THEOREM ConsoleIsDurable == Spec => StoreIsDurable
<1>1. Init => Inv /\ Store!StoreInit
  BY InitInv, StoreStarts DEF Init
<1>2. Inv /\ [Next]_vars => Inv' /\ StoreStep
  BY ConsoleStep
<1>3. QED
  BY <1>1, <1>2, PTL DEF Spec, StoreIsDurable, Store!Durability, StoreStep

\* And a change the console or somebody else was told of stays in the file.
THEOREM ConsoleKeepsAcknowledged == Spec => []AcknowledgedIsSaved
BY ConsoleIsDurable, DurableKeepsAcknowledged, PTL

-----------------------------------------------------------------------------
(***************************************************************************)
(* Types.  A token that was accepted has a subject: the handlers and the   *)
(* console look it up long after it was checked.                           *)
(***************************************************************************)
GoodRequest(r) ==
  /\ r.kind \in Kind /\ r.body \in Body /\ r.token \in Nat
  /\ r.kind = "login" => r.user \in User /\ r.current \in Password
  /\ r.kind = "create" => r.user \in User /\ r.next \in Password
  /\ r.kind = "column" => r.column \in Column
  /\ r.kind = "password" => r.next \in Password

\* The call got past the checks in front of its handler, and was not refused since.
Served(c) ==
  \/ pc[c] \in {"reading", "verifying", "hashing"} \cup Saving
  \/ pc[c] = "answered" /\ answer[c].status \in {200, 201}
Admitted ==
  \A c \in Call :
    /\ GoodRequest(request[c])
    /\ Served(c) /\ request[c].kind # "login" => request[c].token \in 1 .. Len(issued)

Sound == ServerTypeOK /\ Admitted

LEMMA RequestsAreGood ==
  ASSUME NEW tok \in Nat, NEW r \in Requests(tok), NEW new \in Nat
  PROVE  /\ GoodRequest(r) /\ GoodRequest([r EXCEPT !.token = new])
         /\ [r EXCEPT !.token = new].kind = r.kind
<1>1. PICK w \in WellFormed(tok), b \in Body : r = [w EXCEPT !.body = b]
  BY DEF Requests
<1>2. CASE \E kind \in Reads \cup {"profile"} : w = Plain(kind, tok)
  BY <1>1, <1>2 DEF GoodRequest, Plain, Reads, Kind, Body
<1>3. CASE \E u \in User, p \in Password : w = LoginRequest(tok, u, p)
  BY <1>1, <1>3 DEF GoodRequest, Plain, LoginRequest, Kind, Body
<1>4. CASE \E u \in User, p \in Password : w = CreateUserRequest(tok, u, p)
  BY <1>1, <1>4 DEF GoodRequest, Plain, CreateUserRequest, Kind, Body
<1>5. CASE \E col \in Column : w = AddColumnRequest(tok, col)
  BY <1>1, <1>5 DEF GoodRequest, Plain, AddColumnRequest, Kind, Body
<1>6. CASE \E p \in Password, q \in Password : w = ChangePasswordRequest(tok, p, q)
  BY <1>1, <1>6 DEF GoodRequest, Plain, ChangePasswordRequest, Kind, Body
<1>7. QED
  BY <1>1, <1>2, <1>3, <1>4, <1>5, <1>6 DEF WellFormed

LEMMA PlainIsGood ==
  ASSUME NEW kind \in Reads, NEW tok \in Nat
  PROVE  GoodRequest(Plain(kind, tok)) /\ Plain(kind, tok).kind = kind
BY DEF GoodRequest, Plain, Reads, Kind, Body

\* What the store is set to are documents.
LEMMA Documents ==
  /\ EmptyDoc \in Doc
  /\ \A d \in Doc :
       /\ \A c \in Call : [d EXCEPT !.by = @ \cup {c}] \in Doc
       /\ \A u \in User, p \in Password : AddUser(d, u, p) \in Doc
       /\ \A u, p : p \in Password => SetPassword(d, u, p) \in Doc
       /\ \A col \in Column : AddColumn(d, col) \in Doc
       /\ Names(d) \subseteq User /\ Shown(d) \in [users : SUBSET User, columns : SUBSET Column]
       /\ \A u \in Names(d) : d.rows[u].hash \in Password
<1>1. EmptyDoc \in Doc
  <2>1. <<>> \in [{} -> Row]
    OBVIOUS
  <2>2. <<>> \in Rows
    BY <2>1 DEF Rows
  <2>3. QED
    BY <2>2 DEF EmptyDoc, Doc
<1>2. ASSUME NEW d \in Doc
      PROVE  /\ \A c \in Call : [d EXCEPT !.by = @ \cup {c}] \in Doc
             /\ \A u \in User, p \in Password : AddUser(d, u, p) \in Doc
             /\ \A u, p : p \in Password => SetPassword(d, u, p) \in Doc
             /\ \A col \in Column : AddColumn(d, col) \in Doc
             /\ Names(d) \subseteq User
             /\ Shown(d) \in [users : SUBSET User, columns : SUBSET Column]
             /\ \A u \in Names(d) : d.rows[u].hash \in Password
  <2>1. PICK S \in SUBSET User : d.rows \in [S -> Row]
    BY DEF Doc, Rows
  <2>2. DOMAIN d.rows = S /\ \A u \in S : d.rows[u] \in Row
    BY <2>1
  <2>3. ASSUME NEW rows, NEW T \in SUBSET User, rows \in [T -> Row]
        PROVE  [d EXCEPT !.rows = rows] \in Doc
    <3>1. rows \in Rows
      BY <2>3 DEF Rows
    <3>2. QED
      BY <3>1 DEF Doc
  <2>4. ASSUME NEW u \in User, NEW p \in Password
        PROVE  AddUser(d, u, p) \in Doc
    <3> DEFINE row == [hash |-> p, cells |-> {}]
               rows == [v \in S \cup {u} |-> IF v = u THEN row ELSE d.rows[v]]
    <3>1. row \in Row
      BY DEF Row
    <3>2. rows \in [S \cup {u} -> Row]
      BY <2>2, <3>1
    <3>3. AddUser(d, u, p) = [d EXCEPT !.rows = rows]
      BY <2>2 DEF AddUser
    <3>4. S \cup {u} \in SUBSET User
      OBVIOUS
    <3> HIDE DEF rows
    <3>5. QED
      BY <2>3, <3>2, <3>3, <3>4
  <2>5. ASSUME NEW u, NEW p \in Password
        PROVE  SetPassword(d, u, p) \in Doc
    <3> DEFINE rows == [d.rows EXCEPT ![u].hash = p]
    <3>1. rows \in [S -> Row]
      BY <2>1, <2>2 DEF Row
    <3>2. SetPassword(d, u, p) = [d EXCEPT !.rows = rows]
      BY DEF SetPassword
    <3> HIDE DEF rows
    <3>3. QED
      BY <2>3, <3>1, <3>2
  <2>6. ASSUME NEW col \in Column
        PROVE  AddColumn(d, col) \in Doc
    <3> DEFINE rows == [u \in S |-> [d.rows[u] EXCEPT !.cells = @ \cup {col}]]
    <3>1. rows \in [S -> Row]
      BY <2>2 DEF Row
    <3>2. rows \in Rows
      BY <3>1 DEF Rows
    <3>3. AddColumn(d, col) = [d EXCEPT !.columns = @ \cup {col}, !.rows = rows]
      BY <2>2 DEF AddColumn, Names
    <3>4. QED
      BY <3>2, <3>3 DEF Doc
  <2>7. \A c \in Call : [d EXCEPT !.by = @ \cup {c}] \in Doc
    BY DEF Doc
  <2>8. /\ Names(d) \subseteq User
        /\ Shown(d) \in [users : SUBSET User, columns : SUBSET Column]
    BY <2>2 DEF Names, Shown, Doc
  <2>9. \A u \in Names(d) : d.rows[u].hash \in Password
    BY <2>2 DEF Names, Row
  <2>10. QED
    BY <2>4, <2>5, <2>6, <2>7, <2>8, <2>9
<1>3. QED
  BY <1>1, <1>2

Answers ==
  [status : Status,
   view : [users : SUBSET User, columns : SUBSET Column], token : 0 .. Len(issued)]
TypedStore == doc \in Doc /\ file \in Doc /\ image \in [Call -> Doc] /\ queue \in Seq(Call)
TypedTokens == issued \in Seq(User) /\ expired \in 0 .. Len(issued)

\* A step of one call: what it may leave, and that only a call that was admitted
\* is served.
LEMMA OneCallSound ==
  ASSUME Sound, NEW c \in Call, NEW p \in Point, NEW a \in Answers', NEW h \in Password \cup {None},
         pc' = [pc EXCEPT ![c] = p], UNCHANGED <<request, expired, up>>,
         answer' = answer \/ answer' = [answer EXCEPT ![c] = a],
         held' = held \/ held' = [held EXCEPT ![c] = h],
         TypedStore', tries' \in [User -> 0 .. MaxAttempts],
         issued' \in Seq(User), Len(issued) <= Len(issued)',
         Served(c)' /\ request[c].kind # "login" => request[c].token \in 1 .. Len(issued)
  PROVE  Sound'
<1>1. Len(issued) \in Nat /\ Len(issued)' \in Nat
  BY LenProperties DEF Sound, ServerTypeOK
<1>2. 0 .. Len(issued) \subseteq 0 .. Len(issued)' /\ 1 .. Len(issued) \subseteq 1 .. Len(issued)'
  BY <1>1
<1>3. answer' \in [Call -> Answers']
  <2>1. answer \in [Call -> Answers']
    BY <1>2 DEF Sound, ServerTypeOK, Answers
  <2>2. QED
    BY <2>1
<1>4. expired' \in 0 .. Len(issued)'
  BY <1>2 DEF Sound, ServerTypeOK
<1>5. ServerTypeOK'
  <2>1. pc' \in [Call -> Point] /\ held' \in [Call -> Password \cup {None}]
    <3>1. pc \in [Call -> Point] /\ held \in [Call -> Password \cup {None}]
      BY DEF Sound, ServerTypeOK
    <3>2. QED
      BY <3>1
  <2>2. /\ DOMAIN request' = Call /\ up' \in BOOLEAN
        /\ \A b \in Call : request'[b].kind \in Kind /\ request'[b].body \in Body
    BY DEF Sound, ServerTypeOK
  <2>3. QED
    BY <1>3, <1>4, <2>1, <2>2 DEF ServerTypeOK, TypedStore, Answers
<1>6. ASSUME NEW b \in Call, Served(b)', request[b].kind # "login"
      PROVE  request[b].token \in 1 .. Len(issued)'
  <2>1. CASE b = c
    BY <1>2, <1>6, <2>1
  <2>2. CASE b # c
    <3>1. pc'[b] = pc[b] /\ answer'[b] = answer[b]
      BY <2>2 DEF Sound, ServerTypeOK
    <3>2. Served(b)
      BY <1>6, <3>1 DEF Served
    <3>3. QED
      BY <1>2, <1>6, <3>2 DEF Sound, Admitted
  <2>3. QED
    BY <2>1, <2>2
<1>7. Admitted'
  BY <1>6 DEF Sound, Admitted
<1>8. QED
  BY <1>5, <1>7 DEF Sound

LEMMA TypedParts == ASSUME Sound PROVE TypedStore /\ TypedTokens /\ Len(issued) \in Nat
BY LenProperties DEF Sound, ServerTypeOK, TypedStore, TypedTokens

\* A request that was let through has the token of a user.
LEMMA LetThrough ==
  ASSUME Sound, NEW c \in Call, NEW kind, Handling(c, kind)
  PROVE  /\ kind # "login" => request[c].token \in 1 .. Len(issued) /\ Subject(c) \in User
         /\ pc[c] = "sent" /\ request[c].kind = kind /\ GoodRequest(request[c])
<1>1. pc[c] = "sent" /\ request[c].kind = kind /\ GoodRequest(request[c])
  BY DEF Handling, Sound, Admitted
<1>2. ASSUME kind # "login"
      PROVE  request[c].token \in 1 .. Len(issued)
  <2>1. ValidToken(request[c].token)
    BY <1>1, <1>2 DEF Handling, Refusal
  <2>2. QED
    BY <1>1, <2>1, TypedParts DEF ValidToken, TypedTokens, GoodRequest
<1>3. kind # "login" => Subject(c) \in User
  BY <1>2, TypedParts, ElementOfSeq DEF Subject, TypedTokens
<1>4. QED
  BY <1>1, <1>2, <1>3

\* No error has the status of a success.
LEMMA Codes ==
  /\ {200, 201} \subseteq Status
  /\ \A code \in DOMAIN StatusOf :
       StatusOf[code] \in Status /\ (code # "NONE" => StatusOf[code] \notin {200, 201})
<1>1. \A code \in DOMAIN StatusOf : code # "NONE" => StatusOf[code] \notin {200, 201}
  BY DEF StatusOf
<1>2. {200, 201} \subseteq Status /\ \A code \in DOMAIN StatusOf : StatusOf[code] \in Status
  BY DEF Status
<1>3. QED
  BY <1>1, <1>2

\* What a handler answers with.
LEMMA AnswersTyped ==
  ASSUME Sound, issued' = issued
  PROVE  \A s \in Status : /\ [NoAnswer EXCEPT !.status = s] \in Answers'
                           /\ [NoAnswer EXCEPT !.status = s, !.view = Shown(doc)] \in Answers'
<1>1. 0 \in 0 .. Len(issued) /\ NoView \in [users : SUBSET User, columns : SUBSET Column]
  BY TypedParts DEF NoView
<1>2. Shown(doc) \in [users : SUBSET User, columns : SUBSET Column]
  BY TypedParts, Documents DEF TypedStore
<1>3. ASSUME NEW s \in Status,
             NEW v \in [users : SUBSET User, columns : SUBSET Column]
      PROVE  /\ [NoAnswer EXCEPT !.status = s] \in Answers'
             /\ [NoAnswer EXCEPT !.status = s, !.view = v] \in Answers'
  <2>1. NoAnswer \in [status : {0}, view : {NoView}, token : {0}]
    BY DEF NoAnswer
  <2>2. QED
    BY <1>1, <2>1 DEF Answers
<1>4. QED
  <2>1. TAKE s \in Status
  <2>2. QED
    BY <1>1, <1>2, <1>3, Zenon

\* What a handler may do besides: the hash it holds, the store, the limiter.
Around(c) ==
  /\ held' = held \/ \E h \in Password \cup {None} : held' = [held EXCEPT ![c] = h]
  /\ TypedStore' /\ tries' \in [User -> 0 .. MaxAttempts] /\ UNCHANGED tokens
HasToken(c) == request[c].kind # "login" => request[c].token \in 1 .. Len(issued)

LEMMA RejectSound ==
  ASSUME Sound, NEW c \in Call, Around(c), NEW code \in DOMAIN StatusOf \ {"NONE"}, Reject(c, code)
  PROVE  Sound'
<1> DEFINE a == [NoAnswer EXCEPT !.status = StatusOf[code]]
<1>1. issued' = issued /\ Len(issued) <= Len(issued)' /\ issued' \in Seq(User)
  BY TypedParts DEF Around, tokens, TypedTokens
<1>2. a \in Answers' /\ a.status \notin {200, 201}
  <2>1. StatusOf[code] \in Status /\ StatusOf[code] \notin {200, 201}
    BY Codes
  <2>2. a \in Answers'
    BY <1>1, <2>1, AnswersTyped
  <2>3. QED
    BY <2>1, <2>2 DEF NoAnswer
<1>3. /\ pc' = [pc EXCEPT ![c] = "answered"] /\ answer' = [answer EXCEPT ![c] = a]
      /\ UNCHANGED <<request, expired, up>> /\ "answered" \in Point
  BY DEF Reject, Answer, AnswerWith, Around, tokens, Point
<1>4. ~Served(c)'
  BY <1>2, <1>3 DEF Served, Saving, Sound, ServerTypeOK
<1> HIDE DEF a
<1>5. PICK h \in Password \cup {None} : held' = held \/ held' = [held EXCEPT ![c] = h]
  BY DEF Around
<1>6. TypedStore' /\ tries' \in [User -> 0 .. MaxAttempts]
  BY DEF Around
<1>7. QED
  BY <1>1, <1>2, <1>3, <1>4, <1>5, <1>6, OneCallSound

LEMMA AnswerSound ==
  ASSUME Sound, NEW c \in Call, Around(c), NEW s \in {200, 201},
         Answer(c, s) \/ AnswerTable(c, s), HasToken(c)
  PROVE  Sound'
<1>1. issued' = issued /\ Len(issued) <= Len(issued)' /\ issued' \in Seq(User)
  BY TypedParts DEF Around, tokens, TypedTokens
<1>2. PICK a \in Answers' : AnswerWith(c, a)
  <2>1. s \in Status
    BY DEF Status
  <2>2. \A t \in Status : /\ [NoAnswer EXCEPT !.status = t] \in Answers'
                          /\ [NoAnswer EXCEPT !.status = t, !.view = Shown(doc)] \in Answers'
    BY <1>1, AnswersTyped, Zenon
  <2>3. CASE Answer(c, s)
    BY <2>1, <2>2, <2>3 DEF Answer
  <2>4. CASE AnswerTable(c, s)
    BY <2>1, <2>2, <2>4, Zenon DEF AnswerTable
  <2>5. QED
    BY <2>3, <2>4
<1>3. /\ pc' = [pc EXCEPT ![c] = "answered"] /\ answer' = [answer EXCEPT ![c] = a]
      /\ UNCHANGED <<request, expired, up>> /\ "answered" \in Point
  BY <1>2 DEF AnswerWith, Around, tokens, Point
<1>4. PICK h \in Password \cup {None} : held' = held \/ held' = [held EXCEPT ![c] = h]
  BY DEF Around
<1>5. /\ TypedStore' /\ tries' \in [User -> 0 .. MaxAttempts]
      /\ Served(c)' /\ request[c].kind # "login" => request[c].token \in 1 .. Len(issued)
  BY DEF Around, HasToken
<1>6. QED
  BY <1>1, <1>3, <1>4, <1>5, OneCallSound

LEMMA AwaitSound ==
  ASSUME Sound, NEW c \in Call, Around(c), NEW p \in Point, Await(c, p), HasToken(c)
  PROVE  Sound'
<1>1. issued' = issued /\ Len(issued) <= Len(issued)' /\ issued' \in Seq(User)
  BY TypedParts DEF Around, tokens, TypedTokens
<1>2. [NoAnswer EXCEPT !.status = 200] \in Answers'
  BY <1>1, Codes, AnswersTyped, Zenon
<1>3. pc' = [pc EXCEPT ![c] = p] /\ UNCHANGED <<answer, request, expired, up>>
  BY DEF Await, Around, tokens
<1>4. PICK h \in Password \cup {None} : held' = held \/ held' = [held EXCEPT ![c] = h]
  BY DEF Around
<1>5. /\ TypedStore' /\ tries' \in [User -> 0 .. MaxAttempts]
      /\ Served(c)' /\ request[c].kind # "login" => request[c].token \in 1 .. Len(issued)
  BY DEF Around, HasToken
<1>6. QED
  BY <1>1, <1>2, <1>3, <1>4, <1>5, OneCallSound

\* A change is put into memory and its save into the chain.
LEMMA PersistSound ==
  ASSUME Sound, NEW c \in Call, NEW d \in Doc, Persist(c, d), UNCHANGED <<held, tries, tokens>>,
         HasToken(c)
  PROVE  Sound'
<1>1. doc' \in Doc /\ file' \in Doc /\ image' \in [Call -> Doc]
  BY TypedParts, Documents DEF Persist, TypedStore
<1>2. queue' \in Seq(Call)
  BY TypedParts, AppendProperties DEF Persist, TypedStore
<1>3. Around(c)
  BY <1>1, <1>2 DEF Around, TypedStore, Sound, ServerTypeOK
<1>4. Await(c, "queued") /\ "queued" \in Point
  BY DEF Persist, Point
<1>5. QED
  BY <1>3, <1>4, AwaitSound

LEMMA StillAround ==
  ASSUME Sound, NEW c \in Call, UNCHANGED <<store, tokens>>,
         tries' \in [User -> 0 .. MaxAttempts],
         held' = held \/ \E h \in Password \cup {None} : held' = [held EXCEPT ![c] = h]
  PROVE  Around(c)
BY TypedParts DEF Around, TypedStore, store

LEMMA LeaveAround == ASSUME Sound, NEW c \in Call, queue # <<>>, Leave(c) PROVE Around(c)
<1>1. queue' \in Seq(Call)
  BY TypedParts, HeadTailProperties DEF Leave, TypedStore
<1>2. image' \in [Call -> Doc]
  BY TypedParts, Documents DEF Leave, TypedStore
<1>3. QED
  BY <1>1, <1>2, TypedParts DEF Leave, Around, TypedStore, Sound, ServerTypeOK

LEMMA HandleSound == ASSUME Inv, Sound, NEW c \in Call, Handle(c) PROVE Sound'
<1>1. tries \in [User -> 0 .. MaxAttempts] /\ held \in [Call -> Password \cup {None}]
  BY DEF Sound, ServerTypeOK
<1>2. ASSUME UNCHANGED <<held, store, tries, tokens>>
      PROVE  Around(c)
  BY <1>1, <1>2, StillAround
<1>3. {"UNAUTHORIZED", "FORBIDDEN", "NOT_FOUND", "CONFLICT", "RATE_LIMITED", "INTERNAL_ERROR",
       "VALIDATION_ERROR", "TOO_LARGE"} \subseteq DOMAIN StatusOf \ {"NONE"}
  BY DEF StatusOf
<1>4. Served(c) => HasToken(c)
  BY DEF Sound, Admitted, HasToken
<1>5. ASSUME NEW kind, Handling(c, kind)
      PROVE  HasToken(c) /\ GoodRequest(request[c])
  BY <1>5, LetThrough DEF HasToken
<1>6. {"reading", "verifying", "hashing", "queued", "written", "renamed"} \subseteq Point
  BY DEF Point
<1>7. CASE Refused(c)
  <2>1. Refusal(request[c]) \in DOMAIN StatusOf \ {"NONE"}
    BY <1>3, <1>7 DEF Refused, Refusal
  <2>2. QED
    BY <1>2, <1>7, <2>1, RejectSound DEF Refused
<1>8. CASE Me(c)
  BY <1>2, <1>3, <1>5, <1>8, RejectSound, AnswerSound DEF Me
<1>9. CASE ListUsers(c)
  BY <1>2, <1>5, <1>9, AnswerSound DEF ListUsers
<1>10. CASE StartRead(c)
  BY <1>2, <1>5, <1>6, <1>10, AwaitSound DEF StartRead
<1>11. CASE FinishRead(c)
  BY <1>2, <1>3, <1>4, <1>11, RejectSound, AnswerSound DEF FinishRead, Served
<1>12. CASE Login(c)
  <2> DEFINE u == request[c].user
  <2>1. u \in User /\ HasToken(c)
    BY <1>5, <1>12, LetThrough DEF Login, GoodRequest
  <2>2. tries' \in [User -> 0 .. MaxAttempts]
    BY <1>1, <1>12, <2>1, AdminAssumption DEF Login, Count
  <2>3. u \in Names(doc) => doc.rows[u].hash \in Password
    BY TypedParts, Documents DEF TypedStore
  <2>4. Around(c)
    BY <1>12, <2>2, <2>3, StillAround DEF Login
  <2>5. QED
    BY <1>3, <1>6, <1>12, <2>1, <2>4, AwaitSound, RejectSound DEF Login
<1>13. CASE LoginVerified(c)
  <2>1. CASE UNCHANGED issued
    <3>1. Around(c)
      BY <1>1, <1>13, <2>1, StillAround DEF LoginVerified, tokens
    <3>2. issued' # Append(issued, request[c].user)
      BY <2>1, TypedParts, AppendProperties, ElementOfSeq DEF TypedTokens
    <3>3. QED
      BY <1>3, <1>13, <3>1, <3>2, RejectSound DEF LoginVerified
  <2>2. CASE /\ held[c] = request[c].current /\ issued' = Append(issued, request[c].user)
             /\ AnswerWith(c, [NoAnswer EXCEPT !.status = 200, !.token = Len(issued) + 1])
    <3> DEFINE a == [NoAnswer EXCEPT !.status = 200, !.token = Len(issued) + 1]
    <3>1. request[c].kind = "login" /\ request[c].user \in User
      BY <1>13 DEF LoginVerified, Sound, Admitted, GoodRequest
    <3>2. issued' \in Seq(User) /\ Len(issued)' = Len(issued) + 1 /\ Len(issued) <= Len(issued)'
      BY <2>2, <3>1, TypedParts, AppendProperties DEF TypedTokens
    <3>3. a \in Answers'
      <4>1. Len(issued) + 1 \in 0 .. Len(issued)'
        BY <3>2, TypedParts
      <4>2. NoAnswer \in [status : {0}, view : [users : SUBSET User, columns : SUBSET Column],
                          token : {0}]
        BY DEF NoAnswer, NoView
      <4>3. 200 \in Status
        BY DEF Status
      <4>4. QED
        BY <4>1, <4>2, <4>3 DEF Answers
    <3>4. /\ pc' = [pc EXCEPT ![c] = "answered"] /\ answer' = [answer EXCEPT ![c] = a]
          /\ held' = [held EXCEPT ![c] = None] /\ "answered" \in Point
          /\ UNCHANGED <<request, store, tries, expired, up>>
      BY <1>13, <2>2 DEF LoginVerified, AnswerWith, Point
    <3>5. TypedStore'
      BY <3>4, TypedParts DEF TypedStore, store
    <3> HIDE DEF a
    <3>6. QED
      BY <1>1, <3>1, <3>2, <3>3, <3>4, <3>5, OneCallSound
  <2>3. QED
    BY <1>13, <2>1, <2>2 DEF LoginVerified
<1>14. CASE UpdateProfile(c)
  <2>1. doc \in Doc
    BY TypedParts DEF TypedStore
  <2>2. QED
    BY <1>2, <1>3, <1>5, <1>14, <2>1, PersistSound, RejectSound DEF UpdateProfile
<1>15. CASE NewColumn(c)
  <2>1. request[c].column \in Column
    BY <1>15, LetThrough DEF NewColumn, GoodRequest
  <2>2. AddColumn(doc, request[c].column) \in Doc
    BY <2>1, TypedParts, Documents DEF TypedStore
  <2>3. QED
    BY <1>2, <1>3, <1>5, <1>15, <2>2, PersistSound, RejectSound DEF NewColumn
<1>16. CASE CreateUser(c)
  BY <1>2, <1>5, <1>6, <1>16, AwaitSound DEF CreateUser
<1>17. CASE CreateHashed(c)
  <2>1. request[c].user \in User /\ request[c].next \in Password /\ HasToken(c)
    BY <1>4, <1>17 DEF CreateHashed, Sound, Admitted, GoodRequest, Served
  <2>2. AddUser(doc, request[c].user, request[c].next) \in Doc
    BY <2>1, TypedParts, Documents DEF TypedStore
  <2>3. QED
    BY <1>2, <1>3, <1>17, <2>1, <2>2, PersistSound, RejectSound DEF CreateHashed
<1>18. CASE ChangePassword(c)
  <2> DEFINE u == Subject(c)
  <2>1. u \in Names(doc) => doc.rows[u].hash \in Password
    BY TypedParts, Documents DEF TypedStore
  <2>2. Around(c)
    BY <1>1, <1>18, <2>1, StillAround DEF ChangePassword
  <2>3. QED
    BY <1>3, <1>5, <1>6, <1>18, <2>2, AwaitSound, RejectSound DEF ChangePassword
<1>19. CASE PasswordVerified(c)
  <2>1. Around(c)
    BY <1>1, <1>19, StillAround DEF PasswordVerified
  <2>2. QED
    BY <1>3, <1>4, <1>6, <1>19, <2>1, AwaitSound, RejectSound DEF PasswordVerified, Served
<1>20. CASE PasswordHashed(c)
  <2>1. request[c].next \in Password /\ HasToken(c)
    BY <1>4, <1>20 DEF PasswordHashed, Sound, Admitted, GoodRequest, Served
  <2>2. SetPassword(doc, Subject(c), request[c].next) \in Doc
    BY <2>1, TypedParts, Documents DEF TypedStore
  <2>3. QED
    BY <1>20, <2>1, <2>2, PersistSound DEF PasswordHashed
<1>21. CASE Write(c)
  <2>1. Around(c) /\ HasToken(c)
    BY <1>1, <1>4, <1>21, TypedParts DEF Write, Around, TypedStore, Served, Saving
  <2>2. QED
    BY <1>6, <1>21, <2>1, AwaitSound DEF Write
<1>22. CASE Rename(c)
  <2>1. Around(c) /\ HasToken(c)
    BY <1>1, <1>4, <1>22, TypedParts DEF Rename, Around, TypedStore, Served, Saving
  <2>2. QED
    BY <1>6, <1>22, <2>1, AwaitSound DEF Rename
<1>23. CASE Saved(c)
  <2>1. queue # <<>> /\ HasToken(c)
    BY <1>4, <1>23, OnlyHeadStarts DEF Saved, Served, Saving
  <2>2. Around(c)
    BY <1>23, <2>1, LeaveAround DEF Saved
  <2>3. QED
    BY <1>23, <2>1, <2>2, AnswerSound DEF Saved
<1>24. CASE SaveFails(c)
  <2>1. \E i \in 1 .. Len(queue) : queue[i] = c
    BY <1>24 DEF SaveFails, Inv, Chain, Saving
  <2>2. queue # <<>>
    BY <2>1
  <2>3. Around(c)
    BY <1>24, <2>2, LeaveAround DEF SaveFails
  <2>4. QED
    BY <1>3, <1>24, <2>3, RejectSound DEF SaveFails
<1>25. QED
  BY <1>7, <1>8, <1>9, <1>10, <1>11, <1>12, <1>13, <1>14, <1>15, <1>16, <1>17, <1>18, <1>19,
     <1>20, <1>21, <1>22, <1>23, <1>24 DEF Handle

\* What clients do, what happens to the server on its own, and nothing.
LEMMA SendSound ==
  ASSUME Sound, NEW c \in Call, NEW r, GoodRequest(r), Send(c, r) PROVE Sound'
<1>1. /\ request' = [request EXCEPT ![c] = r]
      /\ pc' = [pc EXCEPT ![c] = "sent"] \/ pc' = [pc EXCEPT ![c] = "lost"]
      /\ UNCHANGED <<held, answer, doc, file, queue, image, tries, issued, expired, up>>
  BY DEF Send, store, tokens
<1>2. \A b \in Call : /\ request'[b] = IF b = c THEN r ELSE request[b]
                      /\ b # c => pc'[b] = pc[b]
                      /\ pc'[c] \in {"sent", "lost"}
  BY <1>1 DEF Sound, ServerTypeOK
<1>3. pc' \in [Call -> Point] /\ DOMAIN request' = Call
  BY <1>1 DEF Sound, ServerTypeOK, Point
<1>4. \A b \in Call : request'[b].kind \in Kind /\ request'[b].body \in Body
  BY <1>2 DEF Sound, ServerTypeOK, GoodRequest
<1>5. ServerTypeOK'
  BY <1>1, <1>3, <1>4 DEF Sound, ServerTypeOK
<1>6. Admitted'
  BY <1>1, <1>2 DEF Sound, Admitted, Served, Saving
<1>7. QED
  BY <1>5, <1>6 DEF Sound

LEMMA ReleaseSound == ASSUME Sound, NEW c \in Call, Release(c) PROVE Sound'
<1>1. CASE UNCHANGED serverVars
  BY <1>1 DEF serverVars, store, tokens, Sound, ServerTypeOK, Admitted, Served
<1>2. CASE request[c].kind \notin Changes
  <2>1. /\ request' = [request EXCEPT ![c] = NoRequest]
        /\ pc' = [pc EXCEPT ![c] = "unsent"] /\ answer' = [answer EXCEPT ![c] = NoAnswer]
        /\ UNCHANGED <<held, doc, file, queue, image, tries, issued, expired, up>>
    BY <1>2 DEF Release, store, tokens
  <2>2. GoodRequest(NoRequest)
    BY PlainIsGood DEF NoRequest, Reads
  <2>3. NoAnswer \in Answers
    <3>1. 0 \in Status
      BY DEF Status, StatusOf
    <3>2. 0 \in 0 .. Len(issued)
      BY TypedParts
    <3>3. QED
      BY <3>1, <3>2 DEF NoAnswer, NoView, Answers
  <2>4. \A b \in Call : /\ request'[b] = IF b = c THEN NoRequest ELSE request[b]
                        /\ b # c => pc'[b] = pc[b] /\ answer'[b] = answer[b]
                        /\ pc'[c] = "unsent"
    BY <2>1 DEF Sound, ServerTypeOK
  <2>5. pc' \in [Call -> Point] /\ DOMAIN request' = Call
    BY <2>1 DEF Sound, ServerTypeOK, Point
  <2>6. \A b \in Call : request'[b].kind \in Kind /\ request'[b].body \in Body
    BY <2>2, <2>4 DEF Sound, ServerTypeOK, GoodRequest
  <2>7. answer' \in [Call -> Answers']
    BY <2>1, <2>3 DEF Sound, ServerTypeOK, Answers
  <2>8. ServerTypeOK'
    BY <2>1, <2>5, <2>6, <2>7 DEF Sound, ServerTypeOK, Answers
  <2>9. Admitted'
    BY <2>1, <2>2, <2>4 DEF Sound, Admitted, Served, Saving
  <2>10. QED
    BY <2>8, <2>9 DEF Sound
<1>3. QED
  BY <1>1, <1>2 DEF Release

LEMMA WorldSound == ASSUME Sound, World PROVE Sound'
<1>1. CASE NextWindow
  <2>1. tries' \in [User -> 0 .. MaxAttempts]
    BY <1>1, AdminAssumption DEF NextWindow
  <2>2. QED
    BY <1>1, <2>1 DEF NextWindow, store, tokens, Sound, ServerTypeOK, Admitted, Served
<1>2. CASE TokenExpires
  <2>1. expired' \in 0 .. Len(issued)
    BY <1>2, TypedParts DEF TokenExpires, TypedTokens
  <2>2. QED
    BY <1>2, <2>1 DEF TokenExpires, store, Sound, ServerTypeOK, Admitted, Served
<1>3. CASE Crash
  <2>1. pc' \in [Call -> Point]
    BY <1>3 DEF Crash, Sound, ServerTypeOK, Point
  <2>2. held' \in [Call -> Password \cup {None}] /\ tries' \in [User -> 0 .. MaxAttempts]
    BY <1>3, AdminAssumption DEF Crash
  <2>3. doc' \in Doc /\ file' \in Doc /\ image' \in [Call -> Doc] /\ queue' \in Seq(Call)
    BY <1>3, Documents, TypedParts, EmptySeq DEF Crash, TypedStore
  <2>4. up' \in BOOLEAN
    BY <1>3 DEF Crash, Loads
  <2>5. ServerTypeOK'
    BY <1>3, <2>1, <2>2, <2>3, <2>4 DEF Crash, tokens, Sound, ServerTypeOK
  <2>6. Admitted'
    BY <1>3 DEF Crash, tokens, Sound, Admitted, Served, Saving
  <2>7. QED
    BY <2>5, <2>6 DEF Sound
<1>4. QED
  BY <1>1, <1>2, <1>3 DEF World

LEMMA InitSound == ASSUME ServerInit, issued \in Seq(User) PROVE Sound
<1>1. GoodRequest(NoRequest)
  BY PlainIsGood DEF NoRequest, Reads
<1>2. Len(issued) \in Nat /\ 0 \in 0 .. Len(issued)
  BY LenProperties
<1>3. NoAnswer \in Answers
  <2>1. 0 \in Status
    BY DEF Status, StatusOf
  <2>2. QED
    BY <1>2, <2>1 DEF NoAnswer, NoView, Answers
<1>4. \A c \in Call : request[c] = NoRequest /\ pc[c] = "unsent"
  BY DEF ServerInit
<1>5. ServerTypeOK
  <2>1. DOMAIN request = Call /\ pc \in [Call -> Point] /\ held \in [Call -> Password \cup {None}]
    BY DEF ServerInit, Point
  <2>2. \A c \in Call : request[c].kind \in Kind /\ request[c].body \in Body
    BY <1>1, <1>4 DEF GoodRequest
  <2>3. doc \in Doc /\ file \in Doc /\ image \in [Call -> Doc] /\ queue \in Seq(Call)
    BY InitialDocAssumption, Documents, EmptySeq DEF ServerInit
  <2>4. /\ tries \in [User -> 0 .. MaxAttempts] /\ expired \in 0 .. Len(issued) /\ up \in BOOLEAN
        /\ answer \in [Call -> Answers]
    BY <1>2, <1>3, AdminAssumption DEF ServerInit
  <2>5. QED
    BY <2>1, <2>2, <2>3, <2>4 DEF ServerTypeOK, Answers
<1>6. Admitted
  BY <1>1, <1>4 DEF Admitted, Served, Saving
<1>7. QED
  BY <1>5, <1>6 DEF Sound

\* Any clients that send anything, at any time and with any token, leave every
\* variable of the server well-typed: no answer has a status or a token it may not
\* have, the limiter stays within its window (handlers.ts, rateLimit.ts, token.ts).
THEOREM ServerTyped == ServerSpec => []ServerTypeOK
<1>1. ServerInit /\ issued \in Seq(User) => Inv /\ Sound
  BY InitInv, InitSound
<1>2. Inv /\ Sound /\ [ServerNext]_serverVars => Inv' /\ Sound'
  <2> SUFFICES ASSUME Inv, Sound, [ServerNext]_serverVars PROVE Sound'
    BY ServerStep
  <2>1. CASE UNCHANGED serverVars
    BY <2>1 DEF serverVars, store, tokens, Sound, ServerTypeOK, Admitted, Served
  <2>2. ASSUME NEW c \in Call, NEW r \in Request, Send(c, r) PROVE Sound'
    <3>1. PICK tok \in Nat : r \in Requests(tok)
      BY DEF Request
    <3>2. GoodRequest(r)
      BY <3>1, RequestsAreGood
    <3>3. QED
      BY <2>2, <3>2, SendSound
  <2>3. CASE ServerNext
    BY <2>2, <2>3, HandleSound, ReleaseSound, WorldSound DEF ServerNext
  <2>4. QED
    BY <2>1, <2>3
<1>3. Sound => ServerTypeOK
  BY DEF Sound
<1>4. QED
  BY <1>1, <1>2, <1>3, PTL DEF ServerSpec

-----------------------------------------------------------------------------
(***************************************************************************)
(* What the console shows.                                                 *)
(***************************************************************************)
\* What a step of the server means for its clients: it goes on with one call,
\* forgets neither a name in the file nor a token, and lists whom it knows.
LEMMA ForClients ==
  ASSUME Inv, Sound, NEW c \in Call, Handle(c)
  PROVE  /\ request' = request /\ pc[c] # "unsent" /\ pc'[c] # "unsent"
         /\ \A b \in Call \ {c} : pc'[b] = pc[b] /\ answer'[b] = answer[b]
         /\ Names(file) \subseteq Names(file)' /\ Len(issued) <= Len(issued)'
         /\ pc'[c] = "answered" /\ request[c].kind = "list" /\ answer'[c].status \in {200, 201}
              => answer'[c].view.users = Names(doc)
<1> DEFINE One(p) == /\ request' = request /\ p # "unsent" /\ pc'[c] = p
                     /\ \A b \in Call \ {c} : pc'[b] = pc[b] /\ answer'[b] = answer[b]
           Kept == Names(file) \subseteq Names(file)' /\ Len(issued) <= Len(issued)'
           Fine == answer'[c].status \notin {200, 201} \/ request[c].kind # "list"
           Known == answer'[c].view.users = Names(doc)
<1>1. Len(issued) \in Nat /\ Len(issued) <= Len(issued) /\ issued \in Seq(User)
  BY TypedParts DEF TypedTokens
<1>2. DOMAIN pc = Call /\ DOMAIN answer = Call
  BY DEF Inv, Shapes
<1>3. ASSUME NEW a, AnswerWith(c, a)
      PROVE  One("answered") /\ answer'[c] = a
  BY <1>2, <1>3 DEF AnswerWith
<1>4. ASSUME NEW p, Await(c, p), p # "unsent"
      PROVE  One(p)
  BY <1>2, <1>4 DEF Await
<1>5. ASSUME NEW code \in DOMAIN StatusOf \ {"NONE"}, Reject(c, code)
      PROVE  One("answered") /\ Fine
  <2>1. PICK a : AnswerWith(c, a) /\ a.status = StatusOf[code]
    BY <1>5 DEF Reject, Answer, NoAnswer
  <2>2. StatusOf[code] \notin {200, 201}
    BY DEF StatusOf
  <2>3. QED
    BY <1>3, <2>1, <2>2
<1>6. ASSUME NEW s, Answer(c, s)
      PROVE  One("answered")
  BY <1>3, <1>6 DEF Answer
<1>7. ASSUME NEW s, AnswerTable(c, s)
      PROVE  One("answered") /\ Known
  <2> DEFINE a == [NoAnswer EXCEPT !.status = s, !.view = Shown(doc)]
  <2>1. a.view = Shown(doc)
    BY DEF NoAnswer
  <2>2. AnswerWith(c, a)
    BY <1>7 DEF AnswerTable
  <2> HIDE DEF a
  <2>3. One("answered") /\ answer'[c] = a
    BY <1>3, <2>2
  <2>4. QED
    BY <2>1, <2>3 DEF Shown
<1>8. {"UNAUTHORIZED", "FORBIDDEN", "NOT_FOUND", "CONFLICT", "RATE_LIMITED", "INTERNAL_ERROR",
       "VALIDATION_ERROR", "TOO_LARGE"} \subseteq DOMAIN StatusOf \ {"NONE"}
  BY DEF StatusOf
<1>9. UNCHANGED <<file, issued>> => Kept
  BY <1>1
<1>10. pc[c] # "unsent"
  BY DEF Handle, Refused, Me, ListUsers, StartRead, FinishRead, Login, LoginVerified, UpdateProfile,
         NewColumn, CreateUser, CreateHashed, ChangePassword, PasswordVerified, PasswordHashed,
         Write, Rename, Saved, SaveFails, Handling
<1> SUFFICES /\ \E p : One(p) /\ (p = "answered" => Fine \/ Known)
             /\ Kept
  BY <1>10
<1> HIDE DEF One, Kept, Fine, Known
<1>11. CASE Refused(c)
  <2>1. Refusal(request[c]) \in DOMAIN StatusOf \ {"NONE"}
    BY <1>8, <1>11 DEF Refused, Refusal
  <2>2. QED
    BY <1>5, <1>9, <1>11, <2>1 DEF Refused, store, tokens
<1>12. CASE Me(c)
  BY <1>5, <1>6, <1>8, <1>9, <1>12 DEF Me, Handling, store, tokens, Fine
<1>13. CASE ListUsers(c)
  BY <1>7, <1>9, <1>13 DEF ListUsers, store, tokens
<1>14. CASE StartRead(c)
  BY <1>4, <1>9, <1>14 DEF StartRead, store, tokens
<1>15. CASE FinishRead(c)
  BY <1>5, <1>6, <1>8, <1>9, <1>15 DEF FinishRead, store, tokens, Fine, Inv, Places
<1>16. CASE Login(c)
  BY <1>4, <1>5, <1>8, <1>9, <1>16 DEF Login, store, tokens
<1>17. CASE LoginVerified(c)
  <2>1. Kept
    <3>1. request[c].user \in User
      BY <1>17 DEF LoginVerified, Sound, Admitted, GoodRequest
    <3>2. Len(Append(issued, request[c].user)) = Len(issued) + 1
      BY <1>1, <3>1, AppendProperties
    <3>3. Len(issued) <= Len(issued)' /\ file' = file
      BY <1>1, <1>17, <3>2 DEF LoginVerified, store
    <3>4. QED
      BY <3>3 DEF Kept
  <2>2. QED
    BY <1>3, <1>5, <1>8, <1>17, <2>1 DEF LoginVerified, Fine
<1>18. CASE UpdateProfile(c) \/ NewColumn(c) \/ CreateHashed(c) \/ PasswordHashed(c)
  <2>1. \/ UNCHANGED store /\ (Reject(c, "NOT_FOUND") \/ Reject(c, "CONFLICT"))
        \/ \E d : Persist(c, d)
    BY <1>18 DEF UpdateProfile, NewColumn, CreateHashed, PasswordHashed
  <2>2. UNCHANGED <<file, issued>>
    BY <1>18, <2>1
    DEF UpdateProfile, NewColumn, CreateHashed, PasswordHashed, Persist, store, tokens
  <2>3. QED
    BY <1>4, <1>5, <1>8, <1>9, <2>1, <2>2 DEF Persist
<1>19. CASE CreateUser(c) \/ ChangePassword(c) \/ PasswordVerified(c)
  BY <1>4, <1>5, <1>8, <1>9, <1>19 DEF CreateUser, ChangePassword, PasswordVerified, store, tokens
<1>20. CASE Write(c)
  BY <1>4, <1>9, <1>20 DEF Write, tokens
<1>21. CASE Rename(c)
  BY <1>1, <1>4, <1>21 DEF Rename, tokens, Kept, Inv, Named
<1>22. CASE Saved(c)
  <2>1. request[c].kind # "list"
    BY <1>22 DEF Saved, Inv, Places, Saving, Changes
  <2>2. QED
    BY <1>6, <1>7, <1>9, <1>22, <2>1 DEF Saved, Leave, tokens, Fine
<1>23. CASE SaveFails(c)
  BY <1>5, <1>8, <1>9, <1>23 DEF SaveFails, Leave, tokens
<1>24. QED
  BY <1>11, <1>12, <1>13, <1>14, <1>15, <1>16, <1>17, <1>18, <1>19, <1>20, <1>21, <1>22, <1>23
  DEF Handle

\* The purpose of a call fits what it asks for; a call that is not sent has none.
Fits(what, kind) ==
  /\ what \in Form => kind = what
  /\ what \in {"boot", "refresh"} => kind = "me"
  /\ what = "obs" => kind = "obs"
  /\ what \in {"table", "reload"} => kind = "list"
  /\ what = "done" => kind \in Changes
Purposes ==
  \A c \in Call : /\ Fits(purpose[c], request[c].kind)
                  /\ pc[c] = "unsent" => purpose[c] = "none"

\* Whom the console was told of stands in the file, and in every list asked for
\* since.
Listed ==
  \A c \in Call :
    /\ known[c] \subseteq Names(file)
    /\ pc[c] = "answered" /\ request[c].kind = "list" /\ answer[c].status \in {200, 201}
         => known[c] \subseteq answer[c].view.users

CallTypes ==
  purpose \in [Call -> Purpose] /\ live \subseteq Call /\ known \in [Call -> SUBSET User]
Calls == Inv /\ Sound /\ CallTypes /\ Purposes /\ Listed

LEMMA ToldListed ==
  /\ Inv => Users(Told) \subseteq Names(file)
  /\ Inv' => Users(Told)' \subseteq Names(file)'
<1>1. Inv => Users(Told) \subseteq Names(file)
  BY DEF Inv, Named, Created, Users, Told, Acknowledged
<1>2. Inv' => Users(Told)' \subseteq Names(file)'
  BY DEF Inv, Named, Created, Users, Told, Acknowledged
<1>3. QED
  BY <1>1, <1>2

LEMMA FileNames == Sound => Names(file) \subseteq User
BY Documents DEF Sound, ServerTypeOK

LEMMA ServeCalls ==
  ASSUME Calls, NEW c \in Call, Serve(c) PROVE Calls' /\ Len(issued) <= Len(issued)'
<1>1. Inv' /\ Sound'
  BY HandleStep, HandleSound DEF Calls, Serve
<1>2. /\ request' = request /\ pc[c] # "unsent" /\ pc'[c] # "unsent"
      /\ \A b \in Call \ {c} : pc'[b] = pc[b] /\ answer'[b] = answer[b]
      /\ Names(file) \subseteq Names(file)' /\ Len(issued) <= Len(issued)'
      /\ pc'[c] = "answered" /\ request[c].kind = "list" /\ answer'[c].status \in {200, 201}
           => answer'[c].view.users = Names(doc)
  BY ForClients DEF Calls, Serve
<1>3. UNCHANGED <<purpose, live, known>>
  BY DEF Serve, consoleVars
<1>4. Purposes'
  BY <1>2, <1>3 DEF Calls, Purposes
<1>5. Listed'
  <2>1. Names(file) \subseteq Names(doc)
    BY DEF Calls, Inv, Named
  <2>2. QED
    BY <1>2, <1>3, <2>1 DEF Calls, Listed
<1>6. QED
  BY <1>1, <1>2, <1>3, <1>4, <1>5 DEF Calls, CallTypes

LEMMA WorldCalls ==
  ASSUME Calls, World, UNCHANGED consoleVars PROVE Calls' /\ issued' = issued
<1>1. Inv' /\ Sound'
  BY WorldStep, WorldSound DEF Calls
<1>2. /\ UNCHANGED <<request, answer, file, issued, purpose, live, known>>
      /\ \A b \in Call : /\ pc'[b] = "unsent" => pc[b] = "unsent"
                         /\ pc'[b] = "answered" => pc[b] = "answered"
  BY DEF World, NextWindow, TokenExpires, Crash, store, tokens, consoleVars
<1>3. Purposes' /\ Listed'
  BY <1>2 DEF Calls, Purposes, Listed
<1>4. QED
  BY <1>1, <1>2, <1>3 DEF Calls, CallTypes

\* A request is sent, with or without a purpose.
LEMMA SendCalls ==
  ASSUME Calls, NEW c \in Call, NEW r, GoodRequest(r), Send(c, r),
         CallTypes', Fits(purpose'[c], r.kind), known'[c] \subseteq Names(file),
         \A b \in Call \ {c} :
           /\ known'[b] \subseteq known[b]
           /\ \/ purpose'[b] = purpose[b]
              \/ purpose'[b] = "done" /\ request[b].kind \in Changes /\ pc[b] # "unsent"
  PROVE  Calls' /\ issued' = issued
<1>1. Inv' /\ Sound'
  BY SendStep, SendSound DEF Calls
<1>2. /\ request'[c] = r /\ pc'[c] \in {"sent", "lost"}
      /\ \A b \in Call \ {c} : request'[b] = request[b] /\ pc'[b] = pc[b]
      /\ UNCHANGED <<answer, file, issued>>
  BY DEF Calls, Inv, Shapes, Send, store, tokens
<1>3. Purposes'
  BY <1>2 DEF Calls, Purposes, Fits, Form
<1>4. Listed'
  BY <1>2 DEF Calls, Listed
<1>5. QED
  BY <1>1, <1>2, <1>3, <1>4 DEF Calls

LEMMA AskCalls ==
  ASSUME Calls, NEW c \in Call, NEW r, NEW what \in Purpose, GoodRequest(r), Fits(what, r.kind),
         Ask(c, r, what)
  PROVE  Calls' /\ issued' = issued
<1>1. Users(Told) \subseteq Names(file) /\ Names(file) \subseteq User
  BY ToldListed, FileNames DEF Calls
<1>2. CallTypes'
  BY <1>1 DEF Calls, CallTypes, Ask
<1>3. /\ \A b \in Call : purpose'[b] = IF b = c THEN what ELSE purpose[b]
      /\ \A b \in Call : known'[b] = IF b = c THEN Users(Told) ELSE known[b]
  BY DEF Calls, CallTypes, Ask
<1>4. QED
  BY <1>1, <1>2, <1>3, SendCalls DEF Ask, Calls, Listed

LEMMA ThenCalls ==
  ASSUME Calls, NEW c \in Call, NEW d \in Call, NEW r, NEW what \in Purpose,
         request[c].kind \in Changes, pc[c] # "unsent", GoodRequest(r), Fits(what, r.kind),
         Then(c, d, r, what)
  PROVE  Calls' /\ issued' = issued
<1>1. c # d /\ UNCHANGED file
  BY DEF Then, Send, store
<1>2. Inv'
  BY SendStep DEF Calls, Then
<1>3. Users(Told)' \subseteq Names(file) /\ Names(file) \subseteq User
  BY <1>1, <1>2, ToldListed, FileNames DEF Calls
<1>4. CallTypes'
  <2>1. purpose' \in [Call -> Purpose]
    BY DEF Calls, CallTypes, Then, Purpose
  <2>2. known' \in [Call -> SUBSET User] /\ live' \subseteq Call
    BY <1>3 DEF Calls, CallTypes, Then
  <2>3. QED
    BY <2>1, <2>2 DEF CallTypes
<1>5. /\ \A b \in Call : purpose'[b] = IF b = d THEN what ELSE IF b = c THEN "done" ELSE purpose[b]
      /\ \A b \in Call : known'[b] = IF b = d THEN Users(Told)' ELSE IF b = c THEN {} ELSE known[b]
  BY <1>1 DEF Calls, CallTypes, Then
<1>6. \A b \in Call \ {d} :
        /\ known'[b] \subseteq known[b]
        /\ \/ purpose'[b] = purpose[b]
           \/ purpose'[b] = "done" /\ request[b].kind \in Changes /\ pc[b] # "unsent"
  BY <1>5
<1>7. known'[d] \subseteq Names(file) /\ Fits(purpose'[d], r.kind)
  BY <1>3, <1>5
<1>8. QED
  BY <1>4, <1>6, <1>7, SendCalls DEF Then

\* The console is done with a call.
LEMMA ForgetCalls ==
  ASSUME Calls, NEW c \in Call, pc[c] \in {"answered", "lost"}, Forget(c), live' \subseteq Call
  PROVE  Calls' /\ issued' = issued
<1>1. Inv' /\ Sound'
  BY ReleaseStep, ReleaseSound DEF Calls, Forget
<1>2. CallTypes'
  BY DEF Calls, CallTypes, Forget, Purpose
<1>3. /\ \A b \in Call : known'[b] = IF b = c THEN {} ELSE known[b]
      /\ \A b \in Call \ {c} : /\ purpose'[b] = purpose[b] /\ request'[b] = request[b]
                               /\ pc'[b] = pc[b] /\ answer'[b] = answer[b]
      /\ UNCHANGED <<file, issued>>
      /\ \/ purpose'[c] = "done" /\ request'[c].kind \in Changes /\ pc'[c] # "unsent"
         \/ purpose'[c] = "none"
  BY DEF Calls, CallTypes, Inv, Shapes, Forget, Release, serverVars, store, tokens
<1>4. Purposes'
  BY <1>3 DEF Calls, Purposes, Fits, Form
<1>5. Listed'
  BY <1>3 DEF Calls, Listed
<1>6. QED
  BY <1>1, <1>2, <1>3, <1>4, <1>5 DEF Calls

LEMMA SomebodyElseCalls == ASSUME Calls, SomebodyElse PROVE Calls' /\ issued' = issued
<1>1. UNCHANGED <<purpose, live, known>>
  BY DEF SomebodyElse, consoleVars
<1>2. PICK c \in Call :
        \/ \E r \in Outside : Send(c, r)
        \/ purpose[c] = "none" /\ pc[c] \in {"answered", "lost"} /\ Release(c)
  BY DEF SomebodyElse
<1>3. ASSUME NEW r \in Outside, Send(c, r)
      PROVE  Calls' /\ issued' = issued
  <2>1. GoodRequest(r)
    BY ConsoleAssumption, RequestsAreGood
  <2>2. purpose[c] = "none"
    BY <1>3 DEF Send, Calls, Purposes
  <2>3. CallTypes' /\ Fits(purpose'[c], r.kind) /\ known'[c] \subseteq Names(file)
    BY <1>1, <2>2 DEF Calls, CallTypes, Fits, Form, Listed
  <2>4. QED
    BY <1>1, <1>3, <2>1, <2>3, SendCalls
<1>4. CASE purpose[c] = "none" /\ pc[c] \in {"answered", "lost"} /\ Release(c)
  <2>1. Inv' /\ Sound'
    BY <1>4, ReleaseStep, ReleaseSound DEF Calls
  <2>2. /\ \A b \in Call \ {c} :
             request'[b] = request[b] /\ pc'[b] = pc[b] /\ answer'[b] = answer[b]
        /\ UNCHANGED <<file, issued>>
        /\ \/ UNCHANGED <<request, pc, answer>>
           \/ pc'[c] = "unsent"
    BY <1>4 DEF Calls, Inv, Shapes, Release, serverVars, store, tokens
  <2>3. Purposes' /\ Listed'
    BY <1>1, <1>4, <2>2 DEF Calls, Purposes, Listed, Fits, Form
  <2>4. QED
    BY <1>1, <2>1, <2>2, <2>3 DEF Calls, CallTypes
<1>5. QED
  BY <1>2, <1>3, <1>4

\* Logout, navigation and a reload leave the server alone.
LEMMA PlainCalls ==
  ASSUME Calls, UNCHANGED serverVars, live' \subseteq Call,
         \/ UNCHANGED <<purpose, known>>
         \/ purpose' = [c \in Call |-> "none"] /\ known' = [c \in Call |-> {}]
  PROVE  Calls' /\ issued' = issued
<1>1. UNCHANGED <<request, pc, answer, file, issued>>
  BY DEF serverVars, store, tokens
<1>2. Inv'
  BY IdleStep DEF Calls, serverVars
<1>3. Sound'
  BY DEF Calls, serverVars, store, tokens, Sound, ServerTypeOK, Admitted, Served
<1>4. CallTypes'
  BY DEF Calls, CallTypes, Purpose
<1>5. Purposes' /\ Listed'
  BY <1>1 DEF Calls, Purposes, Listed, Fits, Form
<1>6. QED
  BY <1>1, <1>2, <1>3, <1>4, <1>5 DEF Calls

\* What the component on the screen holds.
Session == {"loading", "authenticated", "anonymous"}
Table == [load : {"due", "asked", "shown", "error"},
          view : [users : SUBSET User, columns : SUBSET Column]]
Screen ==
  /\ token \in 0 .. Len(issued) /\ status \in Session
  /\ user \in User \cup {None} /\ page \in Page /\ busy \subseteq Form /\ table \in Table
  /\ polls \in 0 .. MaxPolls /\ seq \in [Call -> 0 .. MaxPolls] /\ snapshot \in 0 .. polls

ConsoleInv == Calls /\ Screen

LEMMA ConsoleInvTypes == ConsoleInv => TypeOK
BY DEF ConsoleInv, Calls, CallTypes, Sound, Screen, Session, Table, TypeOK

LEMMA TurnScreen ==
  ASSUME Screen, NEW p \in Page, NEW st \in Session, Turn(p, st), seq' = seq,
         token' \in 0 .. Len(issued)', user' \in User \cup {None}
  PROVE  Screen'
<1>1. Routed(p, st) \in Page
  BY DEF Routed, Page
<1>2. NoTable \in Table
  BY DEF NoTable, NoView, Table
<1>3. 0 \in 0 .. MaxPolls /\ 0 \in 0 .. 0
  BY ConsoleAssumption
<1>4. CASE UNCHANGED <<busy, table, polls, snapshot>>
  BY <1>1, <1>4 DEF Turn, Screen
<1>5. CASE busy' = {} /\ table' = NoTable /\ polls' = 0 /\ snapshot' = 0
  BY <1>1, <1>2, <1>3, <1>5 DEF Turn, Screen
<1>6. QED
  BY <1>4, <1>5 DEF Turn

\* What an answer brings.
LEMMA Brought ==
  ASSUME Calls, NEW c \in Call, NEW what, Landed(c, what)
  PROVE  /\ Fits(what, request[c].kind) /\ pc[c] \in {"answered", "lost"} /\ purpose[c] = what
         /\ answer[c].token \in 0 .. Len(issued)
         /\ answer[c].view \in [users : SUBSET User, columns : SUBSET Column]
         /\ Ok(c) /\ request[c].kind # "login" => Bearer(c) \in User
         /\ request[c].kind = "login" => request[c].user \in User
<1>1. Fits(what, request[c].kind) /\ pc[c] \in {"answered", "lost"} /\ purpose[c] = what
  BY DEF Landed, Calls, Purposes
<1>2. /\ answer[c].token \in 0 .. Len(issued)
      /\ answer[c].view \in [users : SUBSET User, columns : SUBSET Column]
  BY DEF Calls, Sound, ServerTypeOK
<1>3. ASSUME Ok(c), request[c].kind # "login"
      PROVE  Bearer(c) \in User
  <2>1. request[c].token \in 1 .. Len(issued) /\ issued \in Seq(User)
    BY <1>3 DEF Ok, Calls, Sound, ServerTypeOK, Admitted, Served
  <2>2. QED
    BY <2>1, ElementOfSeq DEF Bearer
<1>4. request[c].kind = "login" => request[c].user \in User
  BY DEF Calls, Sound, Admitted, GoodRequest
<1>5. QED
  BY <1>1, <1>2, <1>3, <1>4

LEMMA TokenStays ==
  ASSUME ConsoleInv, NEW c \in Call, issued' = issued
  PROVE  {0, token, TokenAfter(c)} \subseteq 0 .. Len(issued)' /\ token \in Nat
BY TypedParts DEF ConsoleInv, Calls, Screen, TokenAfter

LEMMA ReceiveConsole == ASSUME ConsoleInv, NEW c \in Call, Receive(c) PROVE ConsoleInv'
<1> USE DEF ConsoleInv
<1>1. ASSUME NEW what, Landed(c, what), Forget(c), live' \subseteq Call
      PROVE  Calls' /\ issued' = issued
  BY <1>1, ForgetCalls, Brought
<1>2. live \subseteq Call /\ Live \subseteq Call
  BY DEF Calls, CallTypes, Live
<1>3. ASSUME NEW what, Landed(c, what), Done(c)
      PROVE  Calls' /\ issued' = issued
  BY <1>1, <1>2, <1>3 DEF Done
<1>4. \A form : Freed(c, form) => busy' \subseteq Form
  BY DEF Freed, Screen
<1>5. ASSUME Clears(c), issued' = issued
      PROVE  token' \in 0 .. Len(issued)'
  BY <1>5, TokenStays DEF Clears
<1>6. CASE ReceiveBoot(c)
  <2>1. Landed(c, "boot") /\ Calls' /\ issued' = issued
    BY <1>1, <1>2, <1>6 DEF ReceiveBoot
  <2>2. Ok(c) => Bearer(c) \in User
    BY <2>1, Brought DEF Fits
  <2>3. token' \in 0 .. Len(issued)' /\ user' \in User \cup {None}
    BY <1>6, <2>1, <2>2, TokenStays DEF ReceiveBoot, Screen
  <2>4. page \in Page /\ {"authenticated", "anonymous"} \subseteq Session
    BY DEF Screen, Session
  <2>5. QED
    BY <1>6, <2>1, <2>3, <2>4, TurnScreen DEF ReceiveBoot
<1>7. CASE ReceiveLogin(c)
  <2>1. Landed(c, "login") /\ Calls' /\ issued' = issued
    BY <1>1, <1>2, <1>7 DEF ReceiveLogin
  <2>2. request[c].user \in User /\ answer[c].token \in 0 .. Len(issued)'
    BY <2>1, Brought DEF Fits, Form
  <2>3. CASE Ok(c)
    <3> DEFINE next == IF page = "users" THEN page ELSE "overview"
    <3>1. next \in Page /\ "authenticated" \in Session
      BY DEF Page, Session
    <3>2. /\ token' = answer[c].token /\ user' = request[c].user /\ seq' = seq
          /\ Turn(next, "authenticated")
      BY <1>7, <2>3 DEF ReceiveLogin
    <3> HIDE DEF next
    <3>3. Screen'
      BY <2>1, <2>2, <3>1, <3>2, TurnScreen
    <3>4. QED
      BY <2>1, <3>3
  <2>4. CASE ~Ok(c)
    BY <1>4, <1>5, <1>7, <2>1, <2>4 DEF ReceiveLogin, Screen
  <2>5. QED
    BY <2>3, <2>4
<1>8. CASE ReceiveTable(c)
  <2>1. PICK what \in {"table", "reload"} :
          Landed(c, what) /\ (UNCHANGED busy \/ Freed(c, "create"))
    BY <1>8 DEF ReceiveTable
  <2>2. Calls' /\ issued' = issued
    BY <1>3, <1>8, <2>1 DEF ReceiveTable
  <2>3. table' \in Table
    <3>1. answer[c].view \in [users : SUBSET User, columns : SUBSET Column]
      BY <2>1, Brought
    <3>2. QED
      BY <1>8, <3>1 DEF ReceiveTable, Screen, Table
  <2>4. QED
    BY <1>4, <1>5, <1>8, <2>1, <2>2, <2>3 DEF ReceiveTable, Screen, overview
<1>9. ASSUME NEW form \in {"create", "profile"}, NEW kind \in {"list", "me"}, NEW what \in Purpose,
             Landed(c, form), Fits(what, kind),
             IF Ok(c) THEN /\ \E d \in Call : Then(c, d, Plain(kind, token), what)
                           /\ UNCHANGED <<token, busy>>
             ELSE Fails(c, form),
             UNCHANGED <<status, user, page, table, overview>>
      PROVE  ConsoleInv'
  <2>1. CASE Ok(c)
    <3>1. PICK d \in Call : Then(c, d, Plain(kind, token), what)
      BY <1>9, <2>1
    <3>2. token \in Nat /\ kind \in Reads
      BY TypedParts DEF Calls, Screen, Reads
    <3>3. GoodRequest(Plain(kind, token)) /\ Plain(kind, token).kind = kind
      BY <3>2, PlainIsGood
    <3>4. request[c].kind \in Changes /\ pc[c] # "unsent"
      BY <1>9, Brought DEF Fits, Form, Changes
    <3>5. Calls' /\ issued' = issued
      BY <1>9, <3>1, <3>3, <3>4, ThenCalls
    <3>6. QED
      BY <1>9, <2>1, <3>5 DEF Screen, overview
  <2>2. CASE ~Ok(c)
    <3>1. Calls' /\ issued' = issued
      BY <1>3, <1>9, <2>2 DEF Fails
    <3>2. QED
      BY <1>4, <1>5, <1>9, <2>2, <3>1 DEF Fails, Screen, overview
  <2>3. QED
    BY <2>1, <2>2
<1>10. CASE ReceiveCreate(c)
  BY <1>9, <1>10 DEF ReceiveCreate, Fits, Form, Purpose
<1>11. CASE ReceiveProfile(c)
  BY <1>9, <1>11 DEF ReceiveProfile, Fits, Form, Purpose
<1>12. CASE ReceiveRefresh(c)
  <2>1. Landed(c, "refresh") /\ Calls' /\ issued' = issued
    BY <1>3, <1>12 DEF ReceiveRefresh
  <2>2. user' \in User \cup {None}
    BY <1>12, <2>1, Brought DEF ReceiveRefresh, Fits, Screen
  <2>3. QED
    BY <1>4, <1>5, <1>12, <2>1, <2>2 DEF ReceiveRefresh, Screen, overview
<1>13. CASE ReceiveColumn(c)
  <2>1. Landed(c, "column") /\ Calls' /\ issued' = issued
    BY <1>3, <1>13 DEF ReceiveColumn
  <2>2. table' \in Table
    <3>1. answer[c].view \in [users : SUBSET User, columns : SUBSET Column]
      BY <2>1, Brought
    <3>2. QED
      BY <1>13, <3>1 DEF ReceiveColumn, Screen, Table
  <2>3. QED
    BY <1>4, <1>5, <1>13, <2>1, <2>2 DEF ReceiveColumn, Screen, overview
<1>14. CASE ReceiveForm(c)
  <2>1. PICK form \in {"query", "password"} : Landed(c, form) /\ Freed(c, form)
    BY <1>14 DEF ReceiveForm
  <2>2. Calls' /\ issued' = issued
    BY <1>3, <1>14, <2>1 DEF ReceiveForm
  <2>3. QED
    BY <1>4, <1>5, <1>14, <2>1, <2>2 DEF ReceiveForm, Screen, overview
<1>15. CASE ReceiveObs(c)
  <2>1. Landed(c, "obs") /\ Calls' /\ issued' = issued
    BY <1>3, <1>15 DEF ReceiveObs
  <2>2. /\ snapshot' \in 0 .. polls
        /\ seq' \in [Call -> 0 .. MaxPolls]
    <3>1. seq[c] = polls => seq[c] \in 0 .. polls
      BY DEF Screen
    <3>2. 0 \in 0 .. MaxPolls
      BY ConsoleAssumption
    <3>3. QED
      BY <1>15, <3>1, <3>2 DEF ReceiveObs, Screen
  <2>3. QED
    BY <1>5, <1>15, <2>1, <2>2 DEF ReceiveObs, Screen
<1>16. QED
  BY <1>6, <1>7, <1>8, <1>10, <1>11, <1>12, <1>13, <1>14, <1>15 DEF Receive

LEMMA EffectsConsole == ASSUME ConsoleInv, Effects PROVE ConsoleInv'
<1> USE DEF ConsoleInv
<1>1. ASSUME NEW c \in Call, NEW kind \in Reads, NEW what \in Purpose, Fits(what, kind),
             Ask(c, Plain(kind, token), what)
      PROVE  Calls' /\ issued' = issued
  <2>1. token \in Nat
    BY TypedParts DEF Calls, Screen
  <2>2. GoodRequest(Plain(kind, token)) /\ Plain(kind, token).kind = kind
    BY <2>1, PlainIsGood
  <2>3. QED
    BY <1>1, <2>2, AskCalls
<1>2. /\ {"me", "list", "obs"} \subseteq Reads /\ {"boot", "table", "obs"} \subseteq Purpose
      /\ Fits("boot", "me") /\ Fits("table", "list") /\ Fits("obs", "obs")
  BY DEF Reads, Purpose, Fits, Form
<1>3. CASE Boot
  <2>1. CASE token = 0
    <3>1. /\ Turn(page, "anonymous")
          /\ UNCHANGED <<serverVars, token, user, purpose, live, seq, known>>
      BY <1>3, <2>1 DEF Boot
    <3>2. Calls' /\ issued' = issued
      BY <3>1, PlainCalls DEF Calls, CallTypes
    <3>3. page \in Page /\ "anonymous" \in Session
      BY DEF Screen, Session
    <3>4. QED
      BY <3>1, <3>2, <3>3, TurnScreen DEF Screen
  <2>2. CASE token # 0
    <3>1. PICK c \in Call : Ask(c, Plain("me", token), "boot")
      BY <1>3, <2>2 DEF Boot
    <3>2. Calls' /\ issued' = issued
      BY <1>1, <1>2, <3>1
    <3>3. UNCHANGED <<session, page, busy, table, overview>>
      BY <1>3, <2>2 DEF Boot
    <3>4. QED
      BY <3>2, <3>3 DEF Screen, session, overview
  <2>3. QED
    BY <2>1, <2>2
<1>4. CASE Load
  <2>1. PICK c \in Call : Ask(c, Plain("list", token), "table")
    BY <1>4 DEF Load
  <2>2. Calls' /\ issued' = issued
    BY <1>1, <1>2, <2>1
  <2>3. table' \in Table
    BY <1>4 DEF Load, Screen, Table
  <2>4. QED
    BY <1>4, <2>2, <2>3 DEF Load, Screen, session, overview
<1>5. CASE Poll
  <2>1. PICK c \in Call : Ask(c, Plain("obs", token), "obs") /\ seq' = [seq EXCEPT ![c] = polls']
    BY <1>5 DEF Poll
  <2>2. Calls' /\ issued' = issued
    BY <1>1, <1>2, <2>1
  <2>3. polls' \in 0 .. MaxPolls /\ snapshot' \in 0 .. polls'
    BY <1>5, ConsoleAssumption DEF Poll, Screen
  <2>4. seq' \in [Call -> 0 .. MaxPolls]
    BY <2>1, <2>3 DEF Screen
  <2>5. QED
    BY <1>5, <2>2, <2>3, <2>4 DEF Poll, Screen, session
<1>6. QED
  BY <1>3, <1>4, <1>5 DEF Effects

LEMMA ActConsole == ASSUME ConsoleInv, Act PROVE ConsoleInv'
<1> USE DEF ConsoleInv
<1>1. ASSUME NEW form \in Form, Submit(form)
      PROVE  ConsoleInv'
  <2>1. PICK c \in Call, r \in Typed : r.kind = form /\ Ask(c, [r EXCEPT !.token = token], form)
    BY <1>1 DEF Submit
  <2>2. token \in Nat
    BY TypedParts DEF Calls, Screen
  <2>3. GoodRequest([r EXCEPT !.token = token]) /\ [r EXCEPT !.token = token].kind = form
    BY <2>1, <2>2, ConsoleAssumption, RequestsAreGood
  <2>4. form \in Purpose /\ Fits(form, form)
    BY DEF Purpose, Fits, Form
  <2>5. Calls' /\ issued' = issued
    BY <2>1, <2>3, <2>4, AskCalls
  <2>6. QED
    BY <1>1, <2>5 DEF Submit, Screen, session, overview
<1>2. CASE SubmitLogin \/ SubmitUsers \/ SubmitProfile
  BY <1>1, <1>2 DEF SubmitLogin, SubmitUsers, SubmitProfile, Form
<1>3. live \subseteq Call /\ Live \subseteq Call
  BY DEF Calls, CallTypes, Live
<1>4. CASE Logout
  <2>1. Calls' /\ issued' = issued
    BY <1>3, <1>4, PlainCalls DEF Logout
  <2>2. token' \in 0 .. Len(issued)'
    BY <1>4, <2>1, TypedParts DEF Logout, Calls
  <2>3. "login" \in Page /\ "anonymous" \in Session
    BY DEF Page, Session
  <2>4. QED
    BY <1>4, <2>1, <2>2, <2>3, TurnScreen DEF Logout
<1>5. CASE Navigate
  <2>1. Calls' /\ issued' = issued
    BY <1>3, <1>5, PlainCalls DEF Navigate
  <2>2. PICK p \in {"overview", "users", "profile"} : Turn(p, status)
    BY <1>5 DEF Navigate
  <2>3. p \in Page
    BY DEF Page
  <2>4. QED
    BY <1>5, <2>1, <2>2, <2>3, TurnScreen DEF Navigate, Screen
<1>6. CASE Reload
  <2>1. Calls' /\ issued' = issued
    BY <1>6, PlainCalls DEF Reload
  <2>2. NoTable \in Table /\ "loading" \in Session /\ 0 \in 0 .. MaxPolls /\ 0 \in 0 .. 0
    BY ConsoleAssumption DEF NoTable, NoView, Table, Session
  <2>3. page' \in Page
    BY <1>6 DEF Reload, Screen, Page
  <2>4. QED
    BY <1>6, <2>1, <2>2, <2>3 DEF Reload, Screen
<1>7. QED
  BY <1>2, <1>4, <1>5, <1>6 DEF Act

LEMMA InitConsole == Init => ConsoleInv
<1> SUFFICES ASSUME Init PROVE ConsoleInv
  OBVIOUS
<1>1. issued \in Seq(User) /\ ServerInit /\ ConsoleInit(Len(issued))
  <2>1. \A u \in Stored : <<u>> \in Seq(User)
    BY ConsoleAssumption
  <2>2. QED
    BY <2>1, EmptySeq DEF Init
<1>2. Inv /\ Sound
  BY <1>1, InitInv, InitSound
<1>3. /\ Len(issued) \in 0 .. Len(issued) /\ 0 \in 0 .. MaxPolls /\ 0 \in 0 .. 0
      /\ NoTable \in Table /\ "loading" \in Session
      /\ {"login", "overview", "profile"} \subseteq Page
  BY <1>1, LenProperties, ConsoleAssumption DEF NoTable, NoView, Table, Session, Page
<1>4. Screen
  BY <1>1, <1>3 DEF ConsoleInit, Screen
<1>5. CallTypes
  BY <1>1 DEF ConsoleInit, CallTypes, Purpose
<1>6. Purposes /\ Listed
  BY <1>1 DEF ServerInit, ConsoleInit, Purposes, Listed, Fits, Form
<1>7. QED
  BY <1>2, <1>4, <1>5, <1>6 DEF ConsoleInv, Calls

LEMMA ConsoleInvariant == Spec => []ConsoleInv
<1>1. ConsoleInv /\ [Next]_vars => ConsoleInv'
  <2> SUFFICES ASSUME ConsoleInv, [Next]_vars PROVE ConsoleInv'
    OBVIOUS
  <2>1. ASSUME Calls', Len(issued) <= Len(issued)', UNCHANGED consoleVars
        PROVE  ConsoleInv'
    <3>1. Len(issued) \in Nat /\ Len(issued)' \in Nat
      BY <2>1, LenProperties DEF ConsoleInv, Calls, Sound, ServerTypeOK
    <3>2. 0 .. Len(issued) \subseteq 0 .. Len(issued)'
      BY <2>1, <3>1
    <3>3. QED
      BY <2>1, <3>2 DEF ConsoleInv, Screen, consoleVars, session, overview
  <2>2. ASSUME Calls', issued' = issued, UNCHANGED consoleVars
        PROVE  ConsoleInv'
    BY <2>2 DEF ConsoleInv, Screen, consoleVars, session, overview
  <2>3. CASE UNCHANGED vars
    BY <2>2, <2>3, PlainCalls DEF vars, consoleVars, ConsoleInv, Calls, CallTypes
  <2>4. CASE \E c \in Call : Serve(c)
    BY <2>1, <2>4, ServeCalls DEF ConsoleInv, Serve
  <2>5. CASE \E c \in Call : Receive(c)
    BY <2>5, ReceiveConsole
  <2>6. CASE SomebodyElse
    BY <2>2, <2>6, SomebodyElseCalls DEF ConsoleInv, SomebodyElse
  <2>7. CASE World /\ UNCHANGED consoleVars
    BY <2>2, <2>7, WorldCalls DEF ConsoleInv
  <2>8. QED
    BY <2>3, <2>4, <2>5, <2>6, <2>7, EffectsConsole, ActConsole DEF Next
<1>2. QED
  BY <1>1, InitConsole, PTL DEF Spec

\* Nothing the console, its answers in any order, somebody else or the server do
\* leaves a variable of either ill-typed: the token is one that was signed, the
\* profile shown is a user's, whatever was accepted had a subject
\* (AuthContext.tsx, client.ts, handlers.ts requireAuth()).
THEOREM ConsoleTyped == Spec => []TypeOK
<1>1. ConsoleInv => TypeOK
  BY ConsoleInvTypes
<1>2. QED
  BY <1>1, ConsoleInvariant, PTL

\* A list comes to be shown only as the answer to the call that asked for it.
LEMMA ListComes ==
  ASSUME ConsoleInv, Next, NEW c \in Call, purpose[c] \in {"table", "reload"},
         purpose'[c] = "none", table'.load = "shown"
  PROVE  ReceiveTable(c)
<1> USE DEF ConsoleInv, Calls, CallTypes
<1>1. purpose'[c] # purpose[c]
  OBVIOUS
<1>2. ASSUME NEW d \in Call, NEW r, Send(d, r)
      PROVE  d # c
  BY <1>2 DEF Send, Purposes
<1>3. ASSUME NEW d \in Call, NEW r, NEW what, Ask(d, r, what)
      PROVE  FALSE
  BY <1>1, <1>2, <1>3 DEF Ask
<1>4. ASSUME NEW b \in Call, NEW d \in Call, NEW r, NEW what, Then(b, d, r, what)
      PROVE  FALSE
  <2>1. d # c
    BY <1>2, <1>4 DEF Then
  <2>2. QED
    BY <1>1, <1>4, <2>1 DEF Then
<1>5. ASSUME NEW b \in Call, NEW what, Landed(b, what), Forget(b)
      PROVE  b = c /\ what \in {"table", "reload"}
  BY <1>1, <1>5 DEF Landed, Forget
<1>6. UNCHANGED consoleVars => FALSE
  BY <1>1 DEF consoleVars
<1>7. ASSUME NEW b \in Call, Receive(b)
      PROVE  ReceiveTable(c)
  <2>1. CASE ReceiveBoot(b)
    BY <1>5, <2>1 DEF ReceiveBoot
  <2>2. CASE ReceiveLogin(b)
    BY <1>5, <2>2 DEF ReceiveLogin
  <2>3. CASE ReceiveTable(b)
    <3>1. b = c
      BY <1>5, <2>3 DEF ReceiveTable, Done
    <3>2. QED
      BY <2>3, <3>1
  <2>4. CASE ReceiveCreate(b)
    BY <1>4, <1>5, <2>4 DEF ReceiveCreate, Fails, Done
  <2>5. CASE ReceiveProfile(b)
    BY <1>4, <1>5, <2>5 DEF ReceiveProfile, Fails, Done
  <2>6. CASE ReceiveRefresh(b)
    BY <1>5, <2>6 DEF ReceiveRefresh, Done
  <2>7. CASE ReceiveColumn(b)
    BY <1>5, <2>7 DEF ReceiveColumn, Done
  <2>8. CASE ReceiveForm(b)
    BY <1>5, <2>8 DEF ReceiveForm, Done
  <2>9. CASE ReceiveObs(b)
    BY <1>5, <2>9 DEF ReceiveObs, Done
  <2>10. QED
    BY <1>7, <2>1, <2>2, <2>3, <2>4, <2>5, <2>6, <2>7, <2>8, <2>9 DEF Receive
<1>8. ~Effects
  BY <1>1, <1>3 DEF Effects, Boot, Load, Poll
<1>9. ~Act
  <2>1. \A form : ~Submit(form)
    BY <1>3 DEF Submit
  <2>2. ~Logout /\ ~Navigate
    BY <1>1 DEF Logout, Navigate
  <2>3. ~Reload
    BY DEF Reload, NoTable
  <2>4. QED
    BY <2>1, <2>2, <2>3 DEF Act, SubmitLogin, SubmitUsers, SubmitProfile
<1>10. QED
  BY <1>6, <1>7, <1>8, <1>9 DEF Next, Serve, SomebodyElse

\* Whatever saves fail, whoever interferes and however often the server ends: the
\* list that is shown has every user whose creation the console had been told of
\* when it asked for it (UsersSqlTab.tsx loadUsers()).
THEOREM CreationsListed == Spec => CreatedUserListed
<1>1. ConsoleInv /\ [Next]_vars =>
        [\A c \in live :
           purpose[c] \in {"table", "reload"} /\ purpose'[c] = "none" /\ table'.load = "shown"
             => known[c] \subseteq table'.view.users]_vars
  <2> SUFFICES ASSUME ConsoleInv, Next, NEW c \in live, purpose[c] \in {"table", "reload"},
                      purpose'[c] = "none", table'.load = "shown"
               PROVE  known[c] \subseteq table'.view.users
    OBVIOUS
  <2>1. c \in Call /\ table \in Table
    BY DEF ConsoleInv, Calls, CallTypes, Screen
  <2>2. ReceiveTable(c)
    BY <2>1, ListComes
  <2>3. table' = IF Ok(c) THEN [load |-> "shown", view |-> answer[c].view]
                 ELSE [table EXCEPT !.load = "error"]
    BY <2>2 DEF ReceiveTable
  <2>4. Ok(c) /\ table'.view = answer[c].view
    BY <2>1, <2>3 DEF Table
  <2>5. request[c].kind = "list"
    BY <2>1, <2>2 DEF ConsoleInv, Calls, Purposes, Fits
  <2>6. QED
    BY <2>1, <2>4, <2>5 DEF ConsoleInv, Calls, Listed, Ok
<1>2. QED
  BY <1>1, ConsoleInvariant, PTL DEF Spec, CreatedUserListed

\* An overview that stays mounted never shows an older snapshot than it did: only
\* the answer to the newest poll is taken, and leaving the page starts the count
\* anew (OverviewTab.tsx load()).
THEOREM SnapshotsAdvance == Spec => NewestSnapshot
<1>1. ConsoleInv /\ [Next]_vars => [snapshot' >= snapshot \/ polls' = 0]_vars
  <2> SUFFICES ASSUME ConsoleInv, Next PROVE snapshot' >= snapshot \/ polls' = 0
    OBVIOUS
  <2>1. snapshot \in Nat /\ polls \in Nat /\ snapshot <= polls
    BY ConsoleAssumption DEF ConsoleInv, Screen
  <2>2. snapshot' = snapshot => snapshot' >= snapshot
    BY <2>1
  <2>3. \A p, st : Turn(p, st) => snapshot' = snapshot \/ polls' = 0
    BY DEF Turn
  <2>4. UNCHANGED overview \/ UNCHANGED consoleVars => snapshot' = snapshot
    BY DEF overview, consoleVars
  <2>5. CASE Effects
    BY <2>2, <2>3, <2>4, <2>5 DEF Effects, Boot, Load, Poll
  <2>6. CASE Act
    BY <2>2, <2>3, <2>4, <2>6
    DEF Act, SubmitLogin, SubmitUsers, SubmitProfile, Submit, Logout, Navigate, Reload
  <2>7. ASSUME NEW c \in Call, Receive(c)
        PROVE  snapshot' >= snapshot \/ polls' = 0
    <3>1. CASE ReceiveObs(c)
      <4>1. snapshot' = polls \/ snapshot' = snapshot
        BY <3>1 DEF ReceiveObs
      <4>2. QED
        BY <2>1, <4>1
    <3>2. CASE ReceiveBoot(c) \/ ReceiveLogin(c)
      BY <2>2, <2>3, <3>2 DEF ReceiveBoot, ReceiveLogin
    <3>3. CASE UNCHANGED overview
      BY <2>2, <2>4, <3>3
    <3>4. QED
      BY <2>7, <3>1, <3>2, <3>3
      DEF Receive, ReceiveTable, ReceiveCreate, ReceiveProfile, ReceiveRefresh, ReceiveColumn,
          ReceiveForm
  <2>8. QED
    BY <2>2, <2>4, <2>5, <2>6, <2>7 DEF Next, Serve, SomebodyElse
<1>2. QED
  BY <1>1, ConsoleInvariant, PTL DEF Spec, NewestSnapshot
=============================================================================
