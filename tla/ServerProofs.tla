------------------------------ MODULE ServerProofs ------------------------------
(***************************************************************************)
(* What the unified reasoning saves, what a chat answers, and what a start *)
(* of the server finds.                                                    *)
(*                                                                         *)
(* First the commits of the unified reasoning, for every board and number  *)
(* of pages.                                                               *)
(*                                                                         *)
(* Then the start of the server, for every databases a start may find.     *)
(* The programs that a start executes are put together of chunks, and the  *)
(* lemmas say of each chunk what it needs of the statements before it; so  *)
(* no statement of the whole program works on a table, a column or a key   *)
(* that is not there.  StartInv then follows the statements one by one.    *)
(*                                                                         *)
(* Last the chat, for any questions, contexts, words of the model and      *)
(* numbers of questions, events and faults.  ChatInv says of each request  *)
(* at work what of its question, session, context and answer is its own,   *)
(* and of a saved message what nothing takes from it any more.             *)
(***************************************************************************)
EXTENDS Reasoning, ServerStart, StructureChat, NaturalsInduction, WellFoundedInduction,
        SequenceTheorems, FiniteSetTheorems, TLAPS

-----------------------------------------------------------------------------
(* A set of numbers has a least one, a bounded one has a greatest one.     *)

LEMMA LeastNatural ==
    ASSUME NEW T, T \subseteq Nat, T # {}
    PROVE  \E x \in T : \A y \in T : x <= y
<1> DEFINE R == OpToRel(<, Nat)
<1>1. IsWellFoundedOn(R, Nat)
  BY NatLessThanWellFounded
<1>2. PICK x \in T : \A y \in T : ~(<<y, x>> \in R)
  <2> HIDE DEF R
  <2> QED
    BY <1>1, WFMin
<1>3. \A y \in T : ~(y < x)
  BY <1>2 DEF OpToRel
<1> QED
  BY <1>3

LEMMA GreatestBelow ==
    ASSUME NEW n \in Nat, NEW T, T \subseteq 0..n, T # {}
    PROVE  \E x \in T : \A y \in T : y <= x
<1> DEFINE U == {n - x : x \in T}
<1>1. U \subseteq Nat /\ U # {}
  <2>1. \A x \in T : n - x \in Nat
    OBVIOUS
  <2> QED
    BY <2>1
<1>2. PICK u \in U : \A v \in U : u <= v
  BY <1>1, LeastNatural
<1>3. PICK x \in T : u = n - x
  OBVIOUS
<1>4. \A y \in T : n - x <= n - y
  BY <1>2, <1>3
<1> QED
  BY <1>3, <1>4

-----------------------------------------------------------------------------
(* The unified reasoning. *)

Steps == {"run", "context", "attach", "log"}

(* One request at a time is between its commits, and its text is the       *)
(* latest: what it saves replaces nothing newer.  What it has passed is in *)
(* the tables.                                                             *)
SavesInv ==
    /\ \A q, p \in Requests :
          request[q].at \in Steps /\ request[p].at \in Steps => q = p
    /\ \A q \in Requests :
          /\ request[q].at \in Steps => request[q].text = texts
          /\ request[q].at \in {"context", "attach", "log"} => TextOf(q) \in reasoned
          /\ request[q].at \in {"attach", "log"} => TextOf(q) \in explained
    /\ \A table \in {reasoned, explained} : \A t \in table : t.text <= texts

ReasonInv == ReasoningTypeOK /\ SavesInv /\ GeneratedIsThere

-----------------------------------------------------------------------------
(* Sequences and tables.                                                   *)

LEMMA TheReasoningBounds ==
    /\ PerUser \in Nat /\ Cooldown \in Nat /\ MaxSnapshot \in Nat
    /\ MaxTime \in Nat /\ MaxChanges \in Nat /\ Names \in Seq(Symbols)
BY ReasoningBounds DEF Symbols

LEMMA BoardIsFinite ==
    ASSUME NEW S, S \subseteq Symbols
    PROVE  Cardinality(S) \in Nat
<1>1. Names \in [1..Len(Names) -> Symbols] /\ Len(Names) \in Nat
  BY TheReasoningBounds, LenProperties
<1>2. Names \in Surjection(1..Len(Names), Symbols)
  BY <1>1 DEF Surjection, Symbols, Range
<1>3. IsFiniteSet(1..Len(Names))
  BY <1>1, FS_Interval
<1>4. IsFiniteSet(Symbols)
  BY <1>2, <1>3, FS_Surjection
<1>5. IsFiniteSet(S)
  BY <1>4, FS_Subset
<1> QED
  BY <1>5, FS_CardinalityType

(* A round of the worker asks for symbols.                                 *)
LEMMA RoundsAreTyped ==
    ASSUME board \subseteq Symbols, NEW order \in Universe
    PROVE  Takes(PerUser, order) \in Seq(Symbols)
<1> DEFINE n == Cardinality(board)
<1>1. n \in Nat
  BY BoardIsFinite
<1>2. order \in [1..n -> Symbols]
  BY DEF Universe
<1> HIDE DEF n
<1>3. order \in Seq(Symbols) /\ Len(order) = n
  BY <1>1, <1>2, IsASeq, LenProperties
<1> DEFINE m == IF Len(order) < PerUser THEN Len(order) ELSE PerUser
<1>4. m \in Nat /\ m <= Len(order)
  BY <1>1, <1>3, TheReasoningBounds
<1> HIDE DEF m
<1>5. SubSeq(order, 1, m) \in Seq(Symbols)
  BY <1>3, <1>4, SubSeqProperties
<1> QED
  BY <1>5 DEF Takes, m

Keyed(table) ==
    \A x, y \in table : x.symbol = y.symbol /\ x.snapshot = y.snapshot => x = y

(* An upsert keeps one row for a symbol and a snapshot, and leaves for     *)
(* each text of a symbol one that is as new.                               *)
LEMMA UpsertRenews ==
    ASSUME NEW table, table \subseteq Texts, Keyed(table), NEW new \in Texts,
           \A t \in table : t.text <= new.text
    PROVE  /\ Upsert(table, new) \subseteq Texts
           /\ Keyed(Upsert(table, new))
           /\ new \in Upsert(table, new)
           /\ \A t \in Upsert(table, new) : t.text <= new.text
           /\ \A t \in table : \E u \in Upsert(table, new) :
                 u.symbol = t.symbol /\ u.text >= t.text
<1>1. new.text \in Nat /\ \A t \in table : t.text \in Nat
  BY DEF Texts
<1> QED
  BY <1>1 DEF Upsert, Keyed

-----------------------------------------------------------------------------
(* Steps of a request.                                                     *)

LEMMA RequestFields ==
    ASSUME ReasonInv, NEW q \in Requests
    PROVE  /\ request[q] \in Waiting \cup Working
           /\ request[q].queue \in Seq(Symbols)
           /\ request[q].at # "idle" => request[q] \in Working
BY DEF ReasonInv, ReasoningTypeOK, Waiting, Working

LEMMA RequestMoves ==
    ASSUME ReasonInv, NEW q \in Requests, NEW to \in Waiting \cup Working, Proceeds(q, to),
           to.at \notin Steps, UNCHANGED <<reasoned, explained, trail, texts>>
    PROVE  /\ request' \in [Requests -> Waiting \cup Working]
           /\ SavesInv' /\ GeneratedIsThere'
<1>1. request \in [Requests -> Waiting \cup Working]
  BY DEF ReasonInv, ReasoningTypeOK
<1>2. request'[q] = to /\ \A p \in Requests : p # q => request'[p] = request[p]
  BY <1>1 DEF Proceeds
<1>3. request' \in [Requests -> Waiting \cup Working]
  BY <1>1 DEF Proceeds
<1>4. GeneratedIsThere'
  BY DEF ReasonInv, GeneratedIsThere
<1>5. \A p \in Requests : request'[p].at \in Steps => p # q /\ request'[p] = request[p]
  BY <1>2
<1>6. \A p \in Requests : p # q => TextOf(p)' = TextOf(p)
  BY <1>2 DEF TextOf
<1>7. SavesInv'
  BY <1>2, <1>5, <1>6 DEF ReasonInv, SavesInv, Steps
<1> QED
  BY <1>3, <1>4, <1>7

LEMMA WorldMoves ==
    ASSUME ReasonInv, UNCHANGED <<reasoned, explained, trail, request, texts>>
    PROVE  SavesInv' /\ GeneratedIsThere'
BY DEF ReasonInv, SavesInv, GeneratedIsThere, TextOf

(* A commit: the request that holds the loop writes its text into tables,  *)
(* one of which it may have written already, and goes on.                  *)
LEMMA CommitMoves ==
    ASSUME ReasonInv, NEW q \in Requests, NEW step \in {"context", "attach", "log"},
           request[q].at \in Steps, Proceeds(q, [request[q] EXCEPT !.at = step]),
           reasoned' \in {reasoned, Upsert(reasoned, TextOf(q))},
           explained' \in {explained, Upsert(explained, TextOf(q))},
           UNCHANGED <<trail, texts>>,
           TextOf(q) \in reasoned', step # "context" => TextOf(q) \in explained'
    PROVE  /\ request' \in [Requests -> Waiting \cup Working]
           /\ reasoned' \subseteq Texts /\ Keyed(reasoned')
           /\ explained' \subseteq Texts /\ Keyed(explained')
           /\ SavesInv' /\ GeneratedIsThere'
<1> DEFINE to == [request[q] EXCEPT !.at = step]
           new == TextOf(q)
<1>1. request \in [Requests -> Waiting \cup Working] /\ request[q] \in Working
  BY RequestFields DEF ReasonInv, ReasoningTypeOK, Steps
<1>2. /\ to \in Working /\ to.at = step /\ to.symbol = request[q].symbol
      /\ to.snapshot = request[q].snapshot /\ to.text = request[q].text
  BY <1>1 DEF Working
<1> HIDE DEF to
<1>3. request'[q] = to /\ \A p \in Requests : p # q => request'[p] = request[p]
  BY <1>1 DEF Proceeds, to
<1>4. request' \in [Requests -> Waiting \cup Working]
  BY <1>1, <1>2 DEF Proceeds, to
<1>5. new \in Texts /\ new.text = texts
  BY <1>1 DEF TextOf, Texts, Working, ReasonInv, SavesInv
<1>6. TextOf(q)' = new /\ \A p \in Requests : p # q => request'[p].at \notin Steps
  BY <1>1, <1>2, <1>3 DEF TextOf, ReasonInv, SavesInv
<1> HIDE DEF new
<1>7. ASSUME NEW table, table \in {reasoned, explained}, NEW table2, table2 \in {table, Upsert(table, new)}
      PROVE  /\ table2 \subseteq Texts /\ Keyed(table2)
             /\ \A t \in table2 : t.text <= texts
             /\ \A l \in trail : \E t \in table2 : t.symbol = l.symbol /\ t.text >= l.text
  <2>1. /\ table \subseteq Texts /\ Keyed(table) /\ \A t \in table : t.text <= new.text
        /\ \A l \in trail : \E t \in table : t.symbol = l.symbol /\ t.text >= l.text
    BY <1>5, <1>7 DEF ReasonInv, ReasoningTypeOK, Keyed, SavesInv, GeneratedIsThere
  <2>2. CASE table2 = table
    BY <1>5, <2>1, <2>2
  <2>3. CASE table2 = Upsert(table, new)
    <3>1. /\ table2 \subseteq Texts /\ Keyed(table2) /\ \A t \in table2 : t.text <= new.text
          /\ \A t \in table : \E u \in table2 : u.symbol = t.symbol /\ u.text >= t.text
      BY <1>5, <2>1, <2>3, UpsertRenews
    <3>2. ASSUME NEW l \in trail
          PROVE \E t \in table2 : t.symbol = l.symbol /\ t.text >= l.text
      <4>1. PICK t \in table : t.symbol = l.symbol /\ t.text >= l.text
        BY <2>1
      <4>2. PICK u \in table2 : u.symbol = t.symbol /\ u.text >= t.text
        BY <3>1
      <4>3. t.text \in Nat /\ u.text \in Nat /\ l.text \in Nat
        BY <2>1, <3>1 DEF Texts, Logs, ReasonInv, ReasoningTypeOK
      <4> QED
        BY <4>1, <4>2, <4>3
    <3> QED
      BY <1>5, <3>1, <3>2
  <2> QED
    BY <1>7, <2>2, <2>3
<1>8. /\ reasoned' \subseteq Texts /\ Keyed(reasoned')
      /\ explained' \subseteq Texts /\ Keyed(explained')
      /\ \A t \in reasoned' \cup explained' : t.text <= texts
      /\ \A l \in trail : /\ \E t \in reasoned' : t.symbol = l.symbol /\ t.text >= l.text
                          /\ \E t \in explained' : t.symbol = l.symbol /\ t.text >= l.text
  BY <1>7 DEF new
<1>9. GeneratedIsThere'
  BY <1>8 DEF GeneratedIsThere
<1>10. SavesInv'
  <2>1. \A t \in reasoned' \cup explained' : t.text <= texts'
    BY <1>8
  <2>2. /\ new \in reasoned' /\ (step # "context" => new \in explained')
        /\ request[q].text = texts
    BY <1>5 DEF new, ReasonInv, SavesInv
  <2>3. request'[q].at = step /\ request'[q].text = texts'
    BY <1>2, <1>3, <2>2
  <2>4. ASSUME NEW p \in Requests
        PROVE  /\ request'[p].at \in Steps => request'[p].text = texts'
               /\ request'[p].at \in {"context", "attach", "log"} => TextOf(p)' \in reasoned'
               /\ request'[p].at \in {"attach", "log"} => TextOf(p)' \in explained'
    <3>1. CASE p = q
      BY <1>6, <2>2, <2>3, <3>1
    <3>2. CASE p # q
      BY <1>6, <3>2 DEF Steps
    <3> QED
      BY <3>1, <3>2
  <2>5. \A p, r \in Requests :
           request'[p].at \in Steps /\ request'[r].at \in Steps => p = r
    BY <1>6
  <2> QED
    BY <2>1, <2>4, <2>5 DEF SavesInv
<1> QED
  BY <1>4, <1>8, <1>9, <1>10

LEMMA Asked ==
    ASSUME ReasonInv, NEW q \in Requests, NEW s \in Symbols, NEW forced,
           NEW rest \in Seq(Symbols), Ask(q, s, forced, rest),
           UNCHANGED <<reasoned, explained, trail, texts>>
    PROVE  /\ request' \in [Requests -> Waiting \cup Working]
           /\ SavesInv' /\ GeneratedIsThere'
<1> DEFINE idle == [at |-> "idle", queue |-> rest]
           think == [ at |-> "think", symbol |-> s, snapshot |-> newest[s], text |-> 0,
                      queue |-> rest ]
<1>1. newest[s] \in 0..MaxSnapshot
  BY DEF ReasonInv, ReasoningTypeOK
<1>2. idle \in Waiting /\ idle.at \notin Steps
  BY DEF Waiting, Steps
<1>3. newest[s] # 0 => think \in Working
  BY <1>1, TheReasoningBounds DEF Working
<1>4. think.at \notin Steps
  BY DEF Steps
<1>5. Proceeds(q, idle) \/ (newest[s] # 0 /\ Proceeds(q, think))
  BY DEF Ask
<1> HIDE DEF idle, think
<1> QED
  BY <1>2, <1>3, <1>4, <1>5, RequestMoves

LEMMA Returned ==
    ASSUME ReasonInv, NEW q \in Requests, Returns(q),
           UNCHANGED <<reasoned, explained, trail, texts>>
    PROVE  /\ request' \in [Requests -> Waiting \cup Working]
           /\ SavesInv' /\ GeneratedIsThere'
<1> DEFINE to == [at |-> "idle", queue |-> request[q].queue]
<1>1. to \in Waiting /\ to.at \notin Steps
  BY RequestFields DEF Waiting, Steps
<1>2. Proceeds(q, to)
  BY DEF Returns
<1> HIDE DEF to
<1> QED
  BY <1>1, <1>2, RequestMoves

(* What is logged as generated can be read: whoever holds the loop between *)
(* the commits has the latest text, no upsert loses a newer one, and the   *)
(* log is the last of them (request_ai_reasoning,                          *)
(* save_unified_reasoning_result).                                         *)
THEOREM GeneratedCanBeRead == ReasoningSpec => []ReasoningSound
<1>1. ReasoningInit => ReasonInv
  <2> SUFFICES ASSUME ReasoningInit PROVE ReasonInv
    OBVIOUS
  <2>1. Free \in Waiting /\ Free.at = "idle"
    BY EmptySeq DEF Free, Waiting
  <2>2. ReasoningTypeOK
    BY <2>1, TheReasoningBounds DEF ReasoningInit, ReasoningTypeOK
  <2>3. SavesInv /\ GeneratedIsThere
    BY <2>1 DEF ReasoningInit, SavesInv, GeneratedIsThere, Steps
  <2> QED
    BY <2>2, <2>3 DEF ReasonInv
<1>2. ReasonInv /\ [ReasoningNext]_reasoningVars => ReasonInv'
  <2> SUFFICES ASSUME ReasonInv, [ReasoningNext]_reasoningVars PROVE ReasonInv'
    OBVIOUS
  <2> USE TheReasoningBounds
  <2>0. /\ board \subseteq Symbols /\ held \subseteq Symbols
        /\ clock \in 0..MaxTime /\ texts \in Nat /\ trail \subseteq Logs
        /\ newest \in [Symbols -> 0..MaxSnapshot] /\ changes \in 0..MaxChanges
        /\ request \in [Requests -> Waiting \cup Working]
        /\ reasoned \subseteq Texts /\ Keyed(reasoned)
        /\ explained \subseteq Texts /\ Keyed(explained)
    BY DEF ReasonInv, ReasoningTypeOK, Keyed
(* The rest of the types, once those of the tables and requests are known. *)
  <2>1. ASSUME request' \in [Requests -> Waiting \cup Working],
               SavesInv' /\ GeneratedIsThere',
               reasoned' \subseteq Texts, Keyed(reasoned'),
               explained' \subseteq Texts, Keyed(explained'),
               trail' \subseteq Logs, texts' \in Nat,
               UNCHANGED worldVars, changes' \in 0..MaxChanges
        PROVE  ReasonInv'
    BY <2>0, <2>1 DEF ReasonInv, ReasoningTypeOK, worldVars, Keyed
  <2>2. Changes => changes' \in 0..MaxChanges
    BY <2>0 DEF Changes
  <2>3. ASSUME request' \in [Requests -> Waiting \cup Working],
               SavesInv' /\ GeneratedIsThere',
               UNCHANGED <<worldVars, reasoned, explained, trail, texts>>,
               Changes \/ UNCHANGED changes
        PROVE  ReasonInv'
    BY <2>0, <2>1, <2>2, <2>3 DEF Keyed
  <2>4. CASE UNCHANGED reasoningVars
    BY <2>0, <2>3, <2>4, WorldMoves DEF reasoningVars, worldVars
  <2>5. CASE BoardChanges \/ TimePasses
    <3>1. SavesInv' /\ GeneratedIsThere'
      BY <2>5, WorldMoves DEF BoardChanges, TimePasses
    <3>2. board' \subseteq Symbols /\ held' \subseteq Symbols /\ clock' \in 0..MaxTime
      BY <2>0, <2>5 DEF BoardChanges, TimePasses
    <3>3. changes' \in 0..MaxChanges
          /\ UNCHANGED <<newest, reasoned, explained, trail, request, texts>>
      BY <2>0, <2>2, <2>5 DEF BoardChanges, TimePasses
    <3> QED
      BY <2>0, <3>1, <3>2, <3>3 DEF ReasonInv, ReasoningTypeOK, Keyed
  <2>6. ASSUME NEW s \in Symbols, NewSnapshot(s) PROVE ReasonInv'
    <3>1. SavesInv' /\ GeneratedIsThere'
      BY <2>6, WorldMoves DEF NewSnapshot
    <3>2. newest' \in [Symbols -> 0..MaxSnapshot]
      BY <2>0, <2>6 DEF NewSnapshot
    <3>3. UNCHANGED <<clock, board, held, reasoned, explained, trail, request, texts, changes>>
      BY <2>6 DEF NewSnapshot
    <3> QED
      BY <2>0, <3>1, <3>2, <3>3 DEF ReasonInv, ReasoningTypeOK, Keyed
  <2>7. CASE ProcessStops
    <3>1. Free \in Waiting /\ Free.at = "idle"
      BY EmptySeq DEF Free, Waiting
    <3>2. request' \in [Requests -> Waiting \cup Working]
          /\ \A q \in Requests : request'[q].at = "idle"
      BY <2>7, <3>1 DEF ProcessStops
    <3>3. UNCHANGED <<worldVars, reasoned, explained, trail, texts>> /\ Changes
      BY <2>7 DEF ProcessStops
    <3>4. SavesInv' /\ GeneratedIsThere'
      BY <3>2, <3>3 DEF ReasonInv, SavesInv, GeneratedIsThere, Steps
    <3> QED
      BY <2>3, <3>2, <3>3, <3>4
  <2>8. CASE WorkerTicks
    <3>1. PICK order \in Universe :
             Proceeds("worker", [at |-> "idle", queue |-> Takes(PerUser, order)])
      BY <2>8 DEF WorkerTicks
    <3> DEFINE to == [at |-> "idle", queue |-> Takes(PerUser, order)]
    <3>2. to \in Waiting /\ to.at \notin Steps /\ "worker" \in Requests
      BY <2>0, RoundsAreTyped DEF Waiting, Steps, Requests
    <3>3. UNCHANGED <<worldVars, reasoned, explained, trail, texts, changes>>
      BY <2>8 DEF WorkerTicks
    <3> HIDE DEF to
    <3> QED
      BY <2>3, <3>1, <3>2, <3>3, RequestMoves DEF to
  <2>9. CASE WorkerAsks
    <3> DEFINE queue == request["worker"].queue
    <3>1. /\ "worker" \in Requests /\ queue # <<>>
          /\ Ask("worker", Head(queue), FALSE, Tail(queue))
          /\ UNCHANGED <<worldVars, reasoned, explained, trail, texts, changes>>
      BY <2>9 DEF WorkerAsks, Requests
    <3>2. queue \in Seq(Symbols)
      BY <3>1, RequestFields
    <3>3. Head(queue) \in Symbols /\ Tail(queue) \in Seq(Symbols)
      BY <3>1, <3>2, HeadTailProperties
    <3> HIDE DEF queue
    <3> QED
      BY <2>3, <3>1, <3>3, Asked
  <2>10. ASSUME NEW p \in Pages, PageAsks(p) PROVE ReasonInv'
    <3>1. PICK s \in Symbols, forced \in BOOLEAN : Ask(p, s, forced, <<>>)
      BY <2>10 DEF PageAsks
    <3>2. /\ p \in Requests /\ <<>> \in Seq(Symbols)
          /\ UNCHANGED <<worldVars, reasoned, explained, trail, texts>> /\ Changes
      BY <2>10, EmptySeq DEF PageAsks, Requests
    <3> QED
      BY <2>3, <3>1, <3>2, Asked
  <2>11. ASSUME NEW q \in Requests, Answers(q) PROVE ReasonInv'
    <3> DEFINE to == [request[q] EXCEPT !.at = "extract"]
    <3>1. request[q] \in Working
      BY <2>11, RequestFields DEF Answers, RequestAt
    <3>2. to \in Working /\ to.at \notin Steps
      BY <3>1 DEF Working, Steps
    <3>3. /\ Proceeds(q, to)
          /\ UNCHANGED <<worldVars, reasoned, explained, trail, texts, changes>>
      BY <2>11 DEF Answers
    <3> HIDE DEF to
    <3> QED
      BY <2>3, <3>2, <3>3, RequestMoves
  <2>12. ASSUME NEW q \in Requests, AnswerFails(q) \/ SaveRaises(q) PROVE ReasonInv'
    <3>1. /\ Returns(q) /\ Changes
          /\ UNCHANGED <<worldVars, reasoned, explained, trail, texts>>
      BY <2>12 DEF AnswerFails, SaveRaises
    <3> QED
      BY <2>3, <3>1, Returned
  <2>13. ASSUME NEW q \in Requests, Extracts(q) PROVE ReasonInv'
    <3> DEFINE next == texts + 1
               to == [request[q] EXCEPT !.at = "run", !.text = next]
    <3>1. request[q] \in Working /\ next \in Nat
      BY <2>0, <2>13, RequestFields DEF Extracts, RequestAt
    <3> HIDE DEF next
    <3>2. to \in Working /\ to.at = "run" /\ to.text = next
      BY <3>1 DEF Working
    <3>3. /\ Proceeds(q, to) /\ texts' = next
          /\ UNCHANGED <<worldVars, reasoned, explained, trail, changes>>
          /\ \A p \in Requests : request[p].at \notin Steps
      BY <2>13 DEF Extracts, LoopFree, Steps, next
    <3> HIDE DEF to
    <3>4. /\ request' \in [Requests -> Waiting \cup Working]
          /\ request'[q] = to /\ \A p \in Requests : p # q => request'[p] = request[p]
      BY <2>0, <3>2, <3>3 DEF Proceeds
    <3>5. \A table \in {reasoned, explained} : \A t \in table : t.text <= texts'
      BY <2>0, <3>3 DEF ReasonInv, SavesInv, Texts, next
    <3>6. SavesInv'
      <4>1. \A p \in Requests : request'[p].at \in Steps => p = q
        BY <3>3, <3>4
      <4>2. request'[q].at = "run" /\ request'[q].text = texts'
        BY <3>2, <3>3, <3>4
      <4> QED
        BY <3>3, <3>5, <4>1, <4>2 DEF SavesInv, Steps
    <3>7. GeneratedIsThere'
      BY <3>3 DEF ReasonInv, GeneratedIsThere
    <3>8. texts' \in Nat
      BY <3>1, <3>3
    <3> QED
      BY <2>0, <2>1, <3>3, <3>4, <3>6, <3>7, <3>8
  <2>14. ASSUME NEW q \in Requests, SavesRun(q) \/ SavesContext(q) \/ AttachesRun(q)
         PROVE ReasonInv'
    <3>1. request[q] \in Working /\ request[q].at \in Steps
      BY <2>14, RequestFields DEF SavesRun, SavesContext, AttachesRun, RequestAt, Steps
    <3>2. TextOf(q) \in Texts /\ (request[q].at # "run" => TextOf(q) \in reasoned)
          /\ (request[q].at = "attach" => TextOf(q) \in explained)
      BY <3>1 DEF TextOf, Texts, Working, ReasonInv, SavesInv, Steps
    <3>3. \A table : TextOf(q) \in Upsert(table, TextOf(q))
      BY DEF Upsert
    <3>4. PICK step \in {"context", "attach", "log"} :
             /\ Proceeds(q, [request[q] EXCEPT !.at = step])
             /\ reasoned' \in {reasoned, Upsert(reasoned, TextOf(q))}
             /\ explained' \in {explained, Upsert(explained, TextOf(q))}
             /\ TextOf(q) \in reasoned' /\ (step # "context" => TextOf(q) \in explained')
      BY <2>14, <3>2, <3>3 DEF SavesRun, SavesContext, AttachesRun, RequestAt
    <3>5. UNCHANGED <<worldVars, trail, texts, changes>>
      BY <2>14 DEF SavesRun, SavesContext, AttachesRun
    <3>6. /\ request' \in [Requests -> Waiting \cup Working]
          /\ reasoned' \subseteq Texts /\ Keyed(reasoned')
          /\ explained' \subseteq Texts /\ Keyed(explained')
          /\ SavesInv' /\ GeneratedIsThere'
      BY <3>1, <3>4, <3>5, CommitMoves
    <3> QED
      BY <2>0, <2>1, <3>5, <3>6
  <2>15. ASSUME NEW q \in Requests, Logged(q) PROVE ReasonInv'
    <3> DEFINE log == [symbol |-> request[q].symbol, at |-> clock, text |-> request[q].text]
               to == [at |-> "idle", queue |-> request[q].queue]
    <3>1. request[q] \in Working /\ request[q].at = "log"
      BY <2>15, RequestFields DEF Logged, RequestAt
    <3>2. log \in Logs /\ to \in Waiting /\ to.at = "idle"
      BY <2>0, <3>1 DEF Logs, Working, Waiting
    <3>3. /\ trail' = trail \cup {log} /\ Proceeds(q, to)
          /\ UNCHANGED <<worldVars, reasoned, explained, texts, changes>>
      BY <2>15 DEF Logged, LogsText, Returns
    <3>4. \A table \in {reasoned, explained} :
             \E t \in table : t.symbol = log.symbol /\ t.text >= log.text
      <4>1. TextOf(q) \in reasoned /\ TextOf(q) \in explained
        BY <3>1 DEF ReasonInv, SavesInv
      <4>2. /\ TextOf(q).symbol = log.symbol /\ TextOf(q).text = log.text /\ log.text \in Nat
        BY <3>1 DEF TextOf, Working
      <4> HIDE DEF log
      <4>3. TextOf(q).text >= log.text
        BY <4>2
      <4> QED
        BY <4>1, <4>2, <4>3
    <3> HIDE DEF log, to
    <3>5. GeneratedIsThere'
      BY <3>3, <3>4 DEF ReasonInv, GeneratedIsThere
    <3>6. /\ request' \in [Requests -> Waiting \cup Working]
          /\ request'[q] = to /\ \A p \in Requests : p # q => request'[p] = request[p]
      BY <2>0, <3>2, <3>3 DEF Proceeds
    <3>7. \A p \in Requests : request'[p].at \notin Steps
      BY <3>1, <3>2, <3>6 DEF ReasonInv, SavesInv, Steps
    <3>8. SavesInv'
      BY <3>3, <3>7 DEF ReasonInv, SavesInv, Steps
    <3>9. trail' \subseteq Logs
      BY <2>0, <3>2, <3>3
    <3> QED
      BY <2>0, <2>1, <3>3, <3>5, <3>6, <3>8, <3>9
  <2> QED
    BY <2>4, <2>5, <2>6, <2>7, <2>8, <2>9, <2>10, <2>11, <2>12, <2>13, <2>14, <2>15
    DEF ReasoningNext
<1>3. ReasonInv => ReasoningSound
  BY DEF ReasonInv, ReasoningSound
<1> QED
  BY <1>1, <1>2, <1>3, PTL DEF ReasoningSpec

-----------------------------------------------------------------------------
(* Programs: what their statements are, what each of them needs, and which *)
(* follow each other.                                                      *)

(* The tables that foreign keys name, and those that statements work on,   *)
(* with their keys.                                                        *)
Parents ==
    {"users", "trade_import_batches", "coach_events", "watchlist_groups", "paper_accounts",
     "paper_replay_runs", "paper_intents"}

KeysOf(t) ==
    IF t \in {"users", "scan_results", "paper_feature_cache"} THEN {}
    ELSE IF t = "watchlist_items" THEN {"watchlist_groups"}
    ELSE User

Made(t) == Create(t, KeysOf(t))

(* The statements that read and write no row.                              *)
Plain(x) ==
    /\ x.do \in {"create", "add", "index"}
    /\ x.do = "create" => x.refs \subseteq Parents
    /\ x.do = "add" =>
          x.of \in DOMAIN Moved \ {"paper_feature_cache"} /\ x.column \in Moved[x.of]
    /\ x.do = "index" => x.on \in {"trades", "alerts"}

Follow == {"recreate", "refill", "fill", "split baostock"}
Lead == {"rename", "recreate", "preset", "split tdx"}

Proper(x) ==
    \/ Plain(x)
    \/ x.do \in {"klines", "rename", "recreate", "refill"} /\ x.of \in Sources
    \/ x.do \in {"preset", "fill", "trades", "alerts", "split tdx", "split baostock", "user"}

(* What must have been executed before a statement; an index of the schema *)
(* does not wait for its column.                                           *)
Needed(x, tolerated) ==
    CASE x.do = "index" ->
            {Made(x.on)} \cup
            (IF tolerated /\ x.column # "" THEN {Add(x.on, x.column)} ELSE {})
      [] x.do = "add" -> {Made(x.of)}
      [] x.do \in {"preset", "fill"} -> {Made("paper_feature_cache")}
      [] x.do \in {"trades", "alerts"} -> {Made(x.do)}
      [] x.do = "user" -> {Made("users")}
      [] x.do \in {"rename", "recreate", "refill"} -> {Lake("klines", x.of)}
      [] x.do \in {"split tdx", "split baostock"} -> {Lake("klines", s) : s \in Sources}
      [] OTHER -> {}

Members(p) == {p[k] : k \in 1..Len(p)}
Listed(p) == p \in Seq(Members(p)) /\ Len(p) > 0
Earlier(p, k) == {p[j] : j \in 1..(k - 1)}

(* Every statement of p finds what it needs, after the statements past.    *)
Founded(past, p, tolerated) ==
    \A k \in 1..Len(p) : Needed(p[k], tolerated) \subseteq past \cup Earlier(p, k)

(* Of the statements that go together each has the other beside it.        *)
Next2(x, y) ==
    /\ y.do = "recreate" <=> x.do = "rename"
    /\ y.do = "refill" <=> x.do = "recreate"
    /\ y.do \in {"recreate", "refill"} => y.of = x.of
    /\ y.do = "fill" <=> x.do = "preset"
    /\ y.do = "split baostock" <=> x.do = "split tdx"

Linked(p) ==
    /\ Len(p) > 0 /\ p[1].do \notin Follow /\ p[Len(p)].do \notin Lead
    /\ \A k \in 1..(Len(p) - 1) : Next2(p[k], p[k + 1])

LEMMA Places ==
    ASSUME NEW p, Listed(p)
    PROVE  /\ Len(p) \in Nat \ {0} /\ \A k \in 1..Len(p) : p[k] \in Members(p)
BY LenProperties DEF Listed, Members

LEMMA Joined ==
    ASSUME NEW p, NEW q, Listed(p), Listed(q)
    PROVE  /\ Len(p \o q) = Len(p) + Len(q)
           /\ \A k \in 1..Len(p) : (p \o q)[k] = p[k]
           /\ \A k \in 1..Len(q) : (p \o q)[Len(p) + k] = q[k]
           /\ \A k \in 1..Len(p \o q) :
                 \/ k \in 1..Len(p)
                 \/ k - Len(p) \in 1..Len(q) /\ k = Len(p) + (k - Len(p))
           /\ Members(p \o q) = Members(p) \cup Members(q)
           /\ Listed(p \o q)
<1> DEFINE S == Members(p) \cup Members(q)
<1>1. p \in Seq(S) /\ q \in Seq(S)
  BY SeqMonotonic DEF Listed
<1>2. /\ p \o q \in Seq(S) /\ Len(p \o q) = Len(p) + Len(q)
      /\ \A i \in 1 .. Len(p) + Len(q) : (p \o q)[i] =
                     IF i <= Len(p) THEN p[i] ELSE q[i - Len(p)]
  BY <1>1, ConcatProperties
<1>3. Len(p) \in Nat \ {0} /\ Len(q) \in Nat \ {0}
  BY Places
<1>4. ASSUME NEW k \in 1..Len(p) PROVE (p \o q)[k] = p[k]
  <2>1. k \in 1..Len(p) + Len(q) /\ k <= Len(p)
    BY <1>3
  <2> QED
    BY <1>2, <2>1
<1>5. ASSUME NEW k \in 1..Len(q) PROVE (p \o q)[Len(p) + k] = q[k]
  <2>1. Len(p) + k \in 1..Len(p) + Len(q) /\ ~(Len(p) + k <= Len(p))
        /\ (Len(p) + k) - Len(p) = k
    BY <1>3
  <2> QED
    BY <1>2, <2>1
<1>6. \A k \in 1..Len(p \o q) :
         \/ k \in 1..Len(p)
         \/ k - Len(p) \in 1..Len(q) /\ k = Len(p) + (k - Len(p))
  BY <1>2, <1>3
<1>7. ASSUME NEW x \in Members(p) PROVE x \in Members(p \o q)
  BY <1>2, <1>3, <1>4 DEF Members
<1>8. ASSUME NEW x \in Members(q) PROVE x \in Members(p \o q)
  <2>1. PICK k \in 1..Len(q) : x = q[k]
    BY DEF Members
  <2>2. Len(p) + k \in 1..Len(p \o q) /\ (p \o q)[Len(p) + k] = x
    BY <2>1, <1>2, <1>3, <1>5
  <2> QED
    BY <2>2 DEF Members
<1>9. ASSUME NEW x \in Members(p \o q) PROVE x \in Members(p) \cup Members(q)
  <2>1. PICK k \in 1..Len(p \o q) : x = (p \o q)[k]
    BY <1>9 DEF Members
  <2>2. CASE k \in 1..Len(p)
    BY <2>1, <2>2, <1>4 DEF Members
  <2>3. CASE k - Len(p) \in 1..Len(q) /\ k = Len(p) + (k - Len(p))
    BY <2>1, <2>3, <1>5 DEF Members
  <2> QED
    BY <2>2, <2>3, <1>6
<1>10. Members(p \o q) = S
  BY <1>7, <1>8, <1>9
<1>11. Listed(p \o q)
  BY <1>2, <1>3, <1>10 DEF Listed
<1> QED
  BY <1>2, <1>4, <1>5, <1>6, <1>10, <1>11

LEMMA JoinedFounded ==
    ASSUME NEW p, NEW q, Listed(p), Listed(q), NEW past, NEW tolerated,
           Founded(past, p, tolerated), Founded(past \cup Members(p), q, tolerated)
    PROVE  Founded(past, p \o q, tolerated)
<1> SUFFICES ASSUME NEW k \in 1..Len(p \o q), NEW x \in Needed((p \o q)[k], tolerated)
             PROVE  x \in past \cup Earlier(p \o q, k)
  BY DEF Founded
<1>1. CASE k \in 1..Len(p)
  <2>1. x \in past \cup Earlier(p, k)
    BY <1>1, Joined DEF Founded
  <2>2. ASSUME NEW j \in 1..(k - 1), x = p[j] PROVE x \in Earlier(p \o q, k)
    <3>1. j \in 1..Len(p)
      BY <1>1, Places
    <3> QED
      BY <2>2, <3>1, Joined DEF Earlier
  <2> QED
    BY <2>1, <2>2 DEF Earlier
<1>2. CASE k - Len(p) \in 1..Len(q) /\ k = Len(p) + (k - Len(p))
  <2> DEFINE i == k - Len(p)
  <2>1. i \in 1..Len(q) /\ (p \o q)[k] = q[i] /\ Len(p) \in Nat
    BY <1>2, Joined, Places
  <2>2. x \in past \cup Members(p) \cup Earlier(q, i)
    BY <2>1 DEF Founded
  <2>3. ASSUME x \in Members(p) PROVE x \in Earlier(p \o q, k)
    <3>1. PICK j \in 1..Len(p) : x = p[j]
      BY <2>3 DEF Members
    <3>2. j \in 1..(k - 1) /\ (p \o q)[j] = p[j]
      BY <1>2, <2>1, Joined
    <3> QED
      BY <3>1, <3>2 DEF Earlier
  <2>4. ASSUME x \in Earlier(q, i) PROVE x \in Earlier(p \o q, k)
    <3>1. PICK j \in 1..(i - 1) : x = q[j]
      BY <2>4 DEF Earlier
    <3>2. j \in 1..Len(q) /\ Len(p) + j \in 1..(k - 1)
      BY <2>1, Places
    <3>3. (p \o q)[Len(p) + j] = x
      BY <3>1, <3>2, Joined
    <3> QED
      BY <3>2, <3>3 DEF Earlier
  <2> QED
    BY <2>2, <2>3, <2>4
<1> QED
  BY <1>1, <1>2, Joined

LEMMA JoinedLinked ==
    ASSUME NEW p, NEW q, Listed(p), Listed(q), Linked(p), Linked(q)
    PROVE  Linked(p \o q)
<1> DEFINE r == p \o q
<1>1. /\ Len(r) = Len(p) + Len(q) /\ Len(p) \in Nat /\ Len(q) \in Nat
      /\ Len(p) > 0 /\ Len(q) > 0
  BY Joined, Places
<1>2. r[1] = p[1] /\ r[Len(r)] = q[Len(q)]
  <2>1. 1 \in 1..Len(p) /\ Len(q) \in 1..Len(q)
    BY <1>1
  <2> QED
    BY <1>1, <2>1, Joined
<1>3. ASSUME NEW k \in 1..(Len(r) - 1) PROVE Next2(r[k], r[k + 1])
  <2>1. CASE k < Len(p)
    <3>1. k \in 1..Len(p) /\ k + 1 \in 1..Len(p) /\ k \in 1..(Len(p) - 1)
      BY <1>1, <2>1
    <3> QED
      BY <3>1, Joined DEF Linked
  <2>2. CASE k = Len(p)
    <3>1. k \in 1..Len(p) /\ 1 \in 1..Len(q)
      BY <1>1, <2>2
    <3>2. r[k] = p[Len(p)] /\ r[k + 1] = q[1]
      BY <3>1, <2>2, Joined
    <3> QED
      BY <3>2 DEF Linked, Next2, Lead, Follow
  <2>3. CASE k > Len(p)
    <3>1. k - Len(p) \in 1..(Len(q) - 1) /\ k - Len(p) \in 1..Len(q)
          /\ (k - Len(p)) + 1 \in 1..Len(q)
      BY <1>1, <2>3
    <3>2. Len(p) + (k - Len(p)) = k /\ Len(p) + ((k - Len(p)) + 1) = k + 1
      BY <1>1
    <3>3. r[k] = q[k - Len(p)] /\ r[k + 1] = q[(k - Len(p)) + 1]
      BY <3>1, <3>2, Joined
    <3> QED
      BY <3>1, <3>3 DEF Linked
  <2> QED
    BY <1>1, <2>1, <2>2, <2>3
<1> QED
  BY <1>1, <1>2, <1>3 DEF Linked

LEMMA Wider ==
    ASSUME NEW past, NEW more, NEW p, NEW tolerated,
           Founded(past, p, tolerated), past \subseteq more
    PROVE  Founded(more, p, tolerated)
BY DEF Founded

LEMMA NothingEarlier ==
    ASSUME NEW p, NEW past, NEW tolerated,
           \A x \in Members(p) : Needed(x, tolerated) \subseteq past
    PROVE  Founded(past, p, tolerated)
BY DEF Founded, Members

LEMMA PlainLinked ==
    ASSUME NEW p, Listed(p), \A x \in Members(p) : Plain(x)
    PROVE  Linked(p)
<1>1. Len(p) \in Nat \ {0} /\ \A k \in 1..Len(p) : p[k] \in Members(p)
  BY Places
<1>2. \A k \in 1..Len(p) : p[k].do \in {"create", "add", "index"}
  BY <1>1 DEF Plain
<1>3. \A k \in 1..Len(p) : p[k].do \notin Follow \cup Lead
  BY <1>2 DEF Lead, Follow
<1>4. ASSUME NEW k \in 1..(Len(p) - 1) PROVE Next2(p[k], p[k + 1])
  <2>1. k \in 1..Len(p) /\ k + 1 \in 1..Len(p)
    BY <1>1
  <2>2. p[k].do \in {"create", "add", "index"} /\ p[k + 1].do \in {"create", "add", "index"}
    BY <1>2, <2>1
  <2> QED
    BY <2>2 DEF Next2
<1>5. 1 \in 1..Len(p) /\ Len(p) \in 1..Len(p)
  BY <1>1
<1> QED
  BY <1>1, <1>3, <1>4, <1>5 DEF Linked

LEMMA Lists ==
    /\ \A x : Listed(<<x>>) /\ Members(<<x>>) = {x}
    /\ \A x, y : Listed(<<x, y>>) /\ Members(<<x, y>>) = {x, y}
    /\ \A x, y, z : Listed(<<x, y, z>>) /\ Members(<<x, y, z>>) = {x, y, z}
    /\ \A x, y, z, w : Listed(<<x, y, z, w>>) /\ Members(<<x, y, z, w>>) = {x, y, z, w}
<1>1. ASSUME NEW x PROVE Listed(<<x>>) /\ Members(<<x>>) = {x}
  <2>1. Members(<<x>>) = {x}
    BY DEF Members
  <2> QED
    BY <2>1 DEF Listed
<1>2. ASSUME NEW x, NEW y PROVE Listed(<<x, y>>) /\ Members(<<x, y>>) = {x, y}
  <2>1. Members(<<x, y>>) = {x, y}
    BY DEF Members
  <2> QED
    BY <2>1 DEF Listed
<1>3. ASSUME NEW x, NEW y, NEW z
      PROVE  Listed(<<x, y, z>>) /\ Members(<<x, y, z>>) = {x, y, z}
  <2>1. Members(<<x, y, z>>) = {x, y, z}
    BY DEF Members
  <2> QED
    BY <2>1 DEF Listed
<1>4. ASSUME NEW x, NEW y, NEW z, NEW w
      PROVE  Listed(<<x, y, z, w>>) /\ Members(<<x, y, z, w>>) = {x, y, z, w}
  <2>1. Members(<<x, y, z, w>>) = {x, y, z, w}
    BY DEF Members
  <2> QED
    BY <2>1 DEF Listed
<1> QED
  BY <1>1, <1>2, <1>3, <1>4

LEMMA LongLists ==
    /\ \A x, y, z, w, v : LET p == <<x, y, z, w, v>>
                          IN  Listed(p) /\ Members(p) = {x, y, z, w, v}
    /\ \A x, y, z, w, v, u, t : LET p == <<x, y, z, w, v, u, t>>
                                IN  Listed(p) /\ Members(p) = {x, y, z, w, v, u, t}
<1>1. ASSUME NEW x, NEW y, NEW z, NEW w, NEW v
      PROVE  LET p == <<x, y, z, w, v>> IN Listed(p) /\ Members(p) = {x, y, z, w, v}
  <2>1. Members(<<x, y, z, w, v>>) = {x, y, z, w, v}
    BY DEF Members
  <2> QED
    BY <2>1 DEF Listed
<1>2. ASSUME NEW x, NEW y, NEW z, NEW w, NEW v, NEW u, NEW t
      PROVE  LET p == <<x, y, z, w, v, u, t>>
             IN  Listed(p) /\ Members(p) = {x, y, z, w, v, u, t}
  <2>1. Members(<<x, y, z, w, v, u, t>>) = {x, y, z, w, v, u, t}
    BY DEF Members
  <2> QED
    BY <2>1 DEF Listed
<1> QED
  BY <1>1, <1>2

LEMMA CreatesOf ==
    ASSUME NEW names, NEW refs, Listed(names)
    PROVE  /\ Listed(Of(names, refs))
           /\ Members(Of(names, refs)) = {Create(t, refs) : t \in Members(names)}
<1> DEFINE p == Of(names, refs)
<1>1. Len(names) \in Nat \ {0} /\ \A k \in 1..Len(names) : names[k] \in Members(names)
  BY Places
<1>2. p \in [1..Len(names) -> {Create(t, refs) : t \in Members(names)}]
  BY <1>1 DEF Of
<1>3. p \in Seq({Create(t, refs) : t \in Members(names)})
  BY <1>1, <1>2, SeqDef
<1>4. Len(p) = Len(names)
  BY <1>1, <1>2, <1>3, LenProperties
<1>5. Members(p) = {Create(t, refs) : t \in Members(names)}
  BY <1>4 DEF Members, Of
<1> QED
  BY <1>1, <1>3, <1>4, <1>5 DEF Listed

LEMMA AddsOf ==
    ASSUME NEW t, NEW names, Listed(names)
    PROVE  /\ Listed(Adds(t, names))
           /\ Members(Adds(t, names)) = {Add(t, c) : c \in Members(names)}
<1> DEFINE p == Adds(t, names)
<1>1. Len(names) \in Nat \ {0} /\ \A k \in 1..Len(names) : names[k] \in Members(names)
  BY Places
<1>2. p \in [1..Len(names) -> {Add(t, c) : c \in Members(names)}]
  BY <1>1 DEF Adds
<1>3. p \in Seq({Add(t, c) : c \in Members(names)})
  BY <1>1, <1>2, SeqDef
<1>4. Len(p) = Len(names)
  BY <1>1, <1>2, <1>3, LenProperties
<1>5. Members(p) = {Add(t, c) : c \in Members(names)}
  BY <1>4 DEF Members, Adds
<1> QED
  BY <1>1, <1>3, <1>4, <1>5 DEF Listed

-----------------------------------------------------------------------------
(* The program of the server.                                              *)

Chunk(p) == Listed(p) /\ \A x \in Members(p) : Plain(x)

Makes(p) == Chunk(p) /\ \A x \in Members(p) : x.do = "create"

LEMMA JoinedMakes ==
    ASSUME NEW p, NEW q, Makes(p), Makes(q)
    PROVE  Makes(p \o q) /\ Members(p \o q) = Members(p) \cup Members(q)
BY Joined DEF Makes, Chunk

LEMMA JoinedChunks ==
    ASSUME NEW p, NEW q, Chunk(p), Chunk(q)
    PROVE  Chunk(p \o q) /\ Members(p \o q) = Members(p) \cup Members(q)
BY Joined DEF Chunk

LEMMA Columns4 ==
    /\ Listed(PositionColumns)
    /\ Members(PositionColumns) = {"entry_date", "strategy_type", "m5_entry_zg", "entry_thesis_json"}
    /\ Listed(ImportColumns)
    /\ Members(ImportColumns) = {"broker", "is_aggregated", "import_batch_id", "import_draft_id"}
    /\ Listed(ContextColumns)
    /\ Members(ContextColumns) = {"reasoning_json", "main_level", "trigger_level", "coach_summary"}
<1>1. Listed(PositionColumns) /\ Members(PositionColumns) =
          {"entry_date", "strategy_type", "m5_entry_zg", "entry_thesis_json"}
  BY Lists DEF PositionColumns
<1>2. Listed(ImportColumns) /\ Members(ImportColumns) =
          {"broker", "is_aggregated", "import_batch_id", "import_draft_id"}
  BY Lists DEF ImportColumns
<1>3. Listed(ContextColumns) /\ Members(ContextColumns) =
          {"reasoning_json", "main_level", "trigger_level", "coach_summary"}
  BY Lists DEF ContextColumns
<1> QED
  BY <1>1, <1>2, <1>3

LEMMA ShortColumns ==
    /\ Listed(StrategyColumns) /\ Listed(PlanColumns) /\ Listed(CoachColumns)
    /\ Listed(<<"fundamental">>) /\ Listed(<<"engine_preset">>)
    /\ Members(<<"fundamental">>) = {"fundamental"}
    /\ Members(<<"engine_preset">>) = {"engine_preset"}
BY Lists DEF StrategyColumns, PlanColumns, CoachColumns

LEMMA TradeColumns ==
    /\ Listed(PlanColumns \o ImportColumns)
    /\ Members(PlanColumns \o ImportColumns) = Members(PlanColumns) \cup Members(ImportColumns)
BY ShortColumns, Columns4, Joined

LEMMA SetOfMembers ==
    ASSUME NEW p, Listed(p)
    PROVE  ToSet(p) = Members(p)
<1>1. DOMAIN p = 1..Len(p)
  BY LenProperties DEF Listed
<1> QED
  BY <1>1 DEF ToSet, Members

LEMMA MovedColumns ==
    /\ DOMAIN Moved = {"positions", "trades", "scan_results", "alerts", "ai_structure_contexts",
                       "watchlist_items", "paper_feature_cache"}
    /\ Moved["positions"] = Members(PositionColumns)
    /\ Moved["trades"] = Members(PlanColumns) \cup Members(ImportColumns)
    /\ Moved["scan_results"] = {"fundamental"}
    /\ Moved["alerts"] = Members(StrategyColumns)
    /\ Moved["ai_structure_contexts"] = Members(ContextColumns)
    /\ Moved["watchlist_items"] = Members(CoachColumns)
    /\ Moved["paper_feature_cache"] = {"engine_preset"}
<1>1. /\ Moved["positions"] = ToSet(PositionColumns)
      /\ Moved["trades"] = ToSet(PlanColumns \o ImportColumns)
      /\ Moved["scan_results"] = ToSet(<<"fundamental">>)
      /\ Moved["alerts"] = ToSet(StrategyColumns)
      /\ Moved["ai_structure_contexts"] = ToSet(ContextColumns)
      /\ Moved["watchlist_items"] = ToSet(CoachColumns)
      /\ Moved["paper_feature_cache"] = ToSet(<<"engine_preset">>)
  BY DEF Moved
<1>2. DOMAIN Moved = {"positions", "trades", "scan_results", "alerts", "ai_structure_contexts",
                      "watchlist_items", "paper_feature_cache"}
  BY DEF Moved
<1> QED
  BY <1>1, <1>2, Columns4, ShortColumns, TradeColumns, SetOfMembers

LEMMA StatementKinds ==
    /\ \A t, refs : refs \subseteq Parents => Plain(Create(t, refs)) /\ Create(t, refs).do = "create"
    /\ \A i, t, c : t \in {"trades", "alerts"} => Plain(Index(i, t, c))
    /\ \A t, c : t \in DOMAIN Moved \ {"paper_feature_cache"} /\ c \in Moved[t] =>
          Plain(Add(t, c))
<1>1. ASSUME NEW t, NEW refs, refs \subseteq Parents 
      PROVE  Plain(Create(t, refs)) /\ Create(t, refs).do = "create"
  BY <1>1 DEF Plain, Create
<1>2. ASSUME NEW i, NEW t, NEW c, t \in {"trades", "alerts"} PROVE Plain(Index(i, t, c))
  BY <1>2 DEF Plain, Index
<1>3. ASSUME NEW t, NEW c, t \in DOMAIN Moved \ {"paper_feature_cache"}, c \in Moved[t]
      PROVE  Plain(Add(t, c))
  BY <1>3 DEF Plain, Add
<1> QED
  BY <1>1, <1>2, <1>3

LEMMA CreatesChunk ==
    ASSUME NEW names, NEW refs, Listed(names), refs \subseteq Parents
    PROVE  /\ Makes(Of(names, refs))
           /\ \A t \in Members(names) : Create(t, refs) \in Members(Of(names, refs))
BY CreatesOf, StatementKinds DEF Chunk, Makes

LEMMA AddsChunk ==
    ASSUME NEW t \in DOMAIN Moved, t # "paper_feature_cache",
           NEW names, Listed(names), Members(names) \subseteq Moved[t]
    PROVE  /\ Chunk(Adds(t, names))
           /\ \A c \in Members(names) : Add(t, c) \in Members(Adds(t, names))
BY AddsOf, StatementKinds DEF Chunk

LEMMA TablesNamed ==
    /\ Made("users") = Create("users", {}) /\ Made("scan_results") = Create("scan_results", {})
    /\ Made("paper_feature_cache") = Create("paper_feature_cache", {})
    /\ Made("watchlist_items") = Create("watchlist_items", {"watchlist_groups"})
    /\ Made("trades") = Create("trades", User) /\ Made("alerts") = Create("alerts", User)
    /\ Made("positions") = Create("positions", User)
    /\ Made("ai_structure_contexts") = Create("ai_structure_contexts", User)
BY DEF Made, KeysOf

LEMMA KeysAreParents ==
    /\ {} \subseteq Parents /\ User \subseteq Parents /\ Account \subseteq Parents
    /\ InRun \subseteq Parents /\ InRun \cup {"paper_intents"} \subseteq Parents
    /\ {"users", "trade_import_batches"} \subseteq Parents
    /\ {"users", "coach_events"} \subseteq Parents
    /\ {"watchlist_groups"} \subseteq Parents /\ {"paper_accounts"} \subseteq Parents
BY DEF User, Account, InRun, Parents

LEMMA TradeChunk ==
    /\ Makes(TradeTables)
    /\ {Made("trades"), Made("alerts"), Made("positions"),
        Create("trade_import_batches", User)} \subseteq Members(TradeTables)
<1> DEFINE a == <<"trades", "trade_import_batches">>
           b == <<"positions", "alerts", "behavior_stats">>
           c == <<Create("trade_import_drafts", {"users", "trade_import_batches"})>>
<1>1. Listed(a) /\ Members(a) = {"trades", "trade_import_batches"}
      /\ Listed(b) /\ Members(b) = {"positions", "alerts", "behavior_stats"}
  BY Lists
<1>2. Makes(c)
  BY Lists, StatementKinds, KeysAreParents DEF Makes, Chunk
<1> HIDE DEF a, b, c
<1>3. TradeTables = (Of(a, User) \o c) \o Of(b, User)
  BY DEF TradeTables, a, b, c
<1>4. /\ Makes(Of(a, User)) /\ Makes(Of(b, User))
      /\ {Create("trades", User), Create("trade_import_batches", User)} \subseteq Members(Of(a, User))
      /\ {Create("alerts", User), Create("positions", User)} \subseteq Members(Of(b, User))
  BY <1>1, CreatesChunk, KeysAreParents
<1>5. Makes(TradeTables)
      /\ Members(TradeTables) = Members(Of(a, User)) \cup Members(c) \cup Members(Of(b, User))
  BY <1>2, <1>3, <1>4, JoinedMakes
<1> QED
  BY <1>4, <1>5, TablesNamed

LEMMA StructureChunk ==
    Makes(StructureTables) /\ Made("ai_structure_contexts") \in Members(StructureTables)
<1> DEFINE a == <<"structure_snapshots", "structure_snapshot_jobs">>
           b == <<"ai_structure_contexts", "ai_structure_reasoning_runs", "ai_trigger_logs">>
<1>1. Listed(a) /\ Listed(b) /\ "ai_structure_contexts" \in Members(b)
  BY Lists
<1> HIDE DEF a, b
<1>2. Makes(Of(a, {})) /\ Makes(Of(b, User))
      /\ Create("ai_structure_contexts", User) \in Members(Of(b, User))
  BY <1>1, CreatesChunk, KeysAreParents
<1>3. StructureTables = Of(a, {}) \o Of(b, User)
  BY DEF StructureTables, a, b
<1> QED
  BY <1>2, <1>3, JoinedMakes, TablesNamed

LEMMA ScenarioChunk == Makes(ScenarioTables)
<1> DEFINE a == <<"ai_structure_context_jobs", "scenario_branches", "ai_structure_chat_sessions",
                  "ai_structure_chat_messages", "ai_structure_reminder_links",
                  "scenario_outcomes", "ai_symbol_memory_profiles">>
<1>1. Listed(a)
  BY LongLists
<1> HIDE DEF a
<1>2. Makes(Of(a, User))
  BY <1>1, CreatesChunk, KeysAreParents
<1>3. ScenarioTables = Of(a, User)
  BY DEF ScenarioTables, a
<1> QED
  BY <1>2, <1>3

LEMMA IndexChunk ==
    /\ Chunk(TradeIndexes)
    /\ Members(TradeIndexes) = {Index("idx_trades_user", "trades", ""), UniqueImport,
                                Index("idx_alerts_user", "alerts", "")}
<1> DEFINE a == Index("idx_trades_user", "trades", "")
           b == Index("idx_alerts_user", "alerts", "")
<1>1. Plain(a) /\ Plain(b)
  BY DEF Plain, Index
<1>2. Plain(UniqueImport)
  BY StatementKinds DEF UniqueImport
<1>3. TradeIndexes = <<a, UniqueImport, b>>
  BY DEF TradeIndexes
<1> HIDE DEF a, b
<1>4. Listed(TradeIndexes) /\ Members(TradeIndexes) = {a, UniqueImport, b}
  BY <1>3, Lists
<1> QED
  BY <1>1, <1>2, <1>4 DEF Chunk, a, b

LEMMA EventChunk ==
    Makes(EventTables) /\ Create("coach_events", User) \in Members(EventTables)
<1> DEFINE x == Create("coach_events", User)
           y == Create("strategy_triggers", {"users", "coach_events"})
           z == Create("alert_deliveries", {"users", "coach_events"})
<1>1. /\ Plain(x) /\ Plain(y) /\ Plain(z)
      /\ x.do = "create" /\ y.do = "create" /\ z.do = "create"
  BY StatementKinds, KeysAreParents
<1> HIDE DEF x, y, z
<1>2. EventTables = <<x, y, z>>
  BY DEF EventTables, x, y, z
<1>3. Listed(EventTables) /\ Members(EventTables) = {x, y, z}
  BY <1>2, Lists
<1> QED
  BY <1>1, <1>3 DEF Makes, Chunk, x

LEMMA WatchChunk ==
    /\ Makes(WatchTables)
    /\ {Made("watchlist_items"), Made("scan_results"), Create("coach_events", User),
        Create("watchlist_groups", User)} \subseteq Members(WatchTables)
<1> DEFINE x == Create("watchlist_groups", User)
           y == Create("watchlist_items", {"watchlist_groups"})
           z == Create("scan_results", {})
<1>1. /\ Plain(x) /\ Plain(y) /\ Plain(z)
      /\ x.do = "create" /\ y.do = "create" /\ z.do = "create"
  BY StatementKinds, KeysAreParents
<1>2. y = Made("watchlist_items") /\ z = Made("scan_results")
  BY TablesNamed
<1> HIDE DEF x, y, z
<1>3. WatchTables = (<<x, y>> \o EventTables) \o <<z>>
  BY DEF WatchTables, x, y, z
<1>4. Makes(<<x, y>>) /\ Members(<<x, y>>) = {x, y} /\ Makes(<<z>>) /\ Members(<<z>>) = {z}
  BY <1>1, Lists DEF Makes, Chunk
<1>5. Makes(WatchTables) /\ Members(WatchTables) = {x, y} \cup Members(EventTables) \cup {z}
  BY <1>3, <1>4, EventChunk, JoinedMakes
<1> QED
  BY <1>2, <1>5, EventChunk DEF x

LEMMA PaperChunk ==
    /\ Makes(PaperTables)
    /\ {Create("paper_accounts", User), Create("paper_replay_runs", Account),
        Create("paper_intents", InRun), Made("paper_feature_cache")} \subseteq Members(PaperTables)
<1> DEFINE a == Create("paper_accounts", User)
           b == Create("paper_positions", {"paper_accounts"})
           c == Create("paper_replay_runs", Account)
           d == Create("paper_intents", InRun)
           e == Create("paper_decisions", InRun \cup {"paper_intents"})
           f == Create("paper_fills", InRun \cup {"paper_intents"})
           g == Create("paper_feature_cache", {})
<1>1. /\ Plain(a) /\ Plain(b) /\ Plain(c) /\ Plain(d) /\ Plain(e) /\ Plain(f) /\ Plain(g)
      /\ \A x \in {a, b, c, d, e, f, g} : x.do = "create"
  <2>1. \A t, refs : refs \subseteq Parents => Plain(Create(t, refs)) /\ Create(t, refs).do = "create"
    BY StatementKinds
  <2> QED
    BY <2>1, KeysAreParents
<1>2. g = Made("paper_feature_cache")
  BY TablesNamed
<1> HIDE DEF a, b, c, d, e, f, g
<1>3. PaperTables = <<a, b, c, d, e, f, g>>
  BY DEF PaperTables, a, b, c, d, e, f, g
<1>4. Listed(PaperTables) /\ Members(PaperTables) = {a, b, c, d, e, f, g}
  BY <1>3, LongLists
<1> QED
  BY <1>1, <1>2, <1>4 DEF Makes, Chunk, a, c, d

LEMMA ColumnChunk ==
    /\ Chunk(ColumnMigrations)
    /\ \A t \in {"positions", "scan_results", "alerts", "ai_structure_contexts", "trades"} :
          \A c \in Moved[t] : Add(t, c) \in Members(ColumnMigrations)
<1> DEFINE a == Adds("positions", PositionColumns)
           b == Adds("trades", PlanColumns \o ImportColumns)
           c == Adds("scan_results", <<"fundamental">>)
           d == Adds("alerts", StrategyColumns)
           e == Adds("ai_structure_contexts", ContextColumns)
<1>1. Chunk(a) /\ \A x \in Moved["positions"] : Add("positions", x) \in Members(a)
  BY MovedColumns, Columns4, AddsChunk
<1>2. Chunk(b) /\ \A x \in Moved["trades"] : Add("trades", x) \in Members(b)
  BY MovedColumns, TradeColumns, AddsChunk
<1>3. Chunk(c) /\ \A x \in Moved["scan_results"] : Add("scan_results", x) \in Members(c)
  BY MovedColumns, ShortColumns, AddsChunk
<1>4. Chunk(d) /\ \A x \in Moved["alerts"] : Add("alerts", x) \in Members(d)
  BY MovedColumns, ShortColumns, AddsChunk
<1>5. Chunk(e) /\ \A x \in Moved["ai_structure_contexts"] :
                     Add("ai_structure_contexts", x) \in Members(e)
  BY MovedColumns, Columns4, AddsChunk
<1> HIDE DEF a, b, c, d, e
<1>6. ColumnMigrations = (((a \o b) \o c) \o d) \o e
  BY DEF ColumnMigrations, a, b, c, d, e
<1>7. Chunk(a \o b) /\ Members(a \o b) = Members(a) \cup Members(b)
  BY <1>1, <1>2, JoinedChunks
<1>8. Chunk((a \o b) \o c) /\ Members((a \o b) \o c) = Members(a) \cup Members(b) \cup Members(c)
  BY <1>3, <1>7, JoinedChunks
<1>9. Chunk(((a \o b) \o c) \o d) /\ Members(((a \o b) \o c) \o d) =
          Members(a) \cup Members(b) \cup Members(c) \cup Members(d)
  BY <1>4, <1>8, JoinedChunks
<1>10. Chunk(ColumnMigrations) /\ Members(ColumnMigrations) =
          Members(a) \cup Members(b) \cup Members(c) \cup Members(d) \cup Members(e)
  BY <1>5, <1>6, <1>9, JoinedChunks
<1> QED
  BY <1>1, <1>2, <1>3, <1>4, <1>5, <1>10

LEMMA ImportChunk ==
    /\ Chunk(ImportMigrations)
    /\ {Index("idx_trades_import_batch", "trades", "import_batch_id"), UniqueImport}
          \subseteq Members(ImportMigrations)
    /\ \A x \in Members(ImportMigrations) :
          \/ x.do = "create"
          \/ x \in {Index("idx_trades_import_batch", "trades", "import_batch_id"), UniqueImport}
<1> DEFINE a == Create("trade_import_batches", User)
           b == Create("trade_import_drafts", {"users", "trade_import_batches"})
           c == Index("idx_trades_import_batch", "trades", "import_batch_id")
           p == <<a, b, c, UniqueImport>>
<1>1. Plain(a) /\ Plain(b) /\ Plain(c) /\ Plain(UniqueImport) /\ a.do = "create" /\ b.do = "create"
  BY StatementKinds, KeysAreParents DEF UniqueImport, Create
<1> HIDE DEF a, b, c
<1>2. Listed(p) /\ Members(p) = {a, b, c, UniqueImport}
  BY Lists
<1>3. Chunk(p)
  BY <1>1, <1>2 DEF Chunk
<1> HIDE DEF p
<1>4. ImportMigrations = EventTables \o p
  BY DEF ImportMigrations, a, b, c, p
<1>5. Chunk(ImportMigrations) /\ Members(ImportMigrations) = Members(EventTables) \cup Members(p)
  BY <1>3, <1>4, EventChunk, JoinedChunks DEF Makes
<1>6. \A x \in Members(EventTables) : x.do = "create"
  BY EventChunk DEF Makes
<1> QED
  BY <1>1, <1>2, <1>5, <1>6 DEF c

LEMMA CoachChunk ==
    /\ Chunk(CoachMigrations)
    /\ \A c \in Moved["watchlist_items"] : Add("watchlist_items", c) \in Members(CoachMigrations)
    /\ \A x \in Members(CoachMigrations) : x.do \in {"create", "add"}
<1> DEFINE a == <<Create("t0_state_cache", {})>>
           b == Adds("watchlist_items", CoachColumns)
           c == <<Create("market_data_batches", {})>>
<1>1. Chunk(a) /\ Chunk(c) /\ \A x \in Members(a) \cup Members(c) : x.do = "create"
  <2>1. Plain(Create("t0_state_cache", {})) /\ Create("t0_state_cache", {}).do = "create"
        /\ Plain(Create("market_data_batches", {})) /\ Create("market_data_batches", {}).do = "create"
    BY StatementKinds, KeysAreParents DEF Create
  <2> QED
    BY <2>1, Lists DEF Chunk
<1>2. Chunk(b) /\ \A x \in Moved["watchlist_items"] : Add("watchlist_items", x) \in Members(b)
  BY MovedColumns, ShortColumns, AddsChunk
<1>3. \A x \in Members(b) : x.do = "add"
  BY ShortColumns, AddsOf DEF Add
<1> HIDE DEF a, b, c
<1>4. CoachMigrations = (a \o b) \o c
  BY DEF CoachMigrations, a, b, c
<1>5. Chunk(a \o b) /\ Members(a \o b) = Members(a) \cup Members(b)
  BY <1>1, <1>2, JoinedChunks
<1>6. Chunk(CoachMigrations)
      /\ Members(CoachMigrations) = Members(a) \cup Members(b) \cup Members(c)
  BY <1>1, <1>4, <1>5, JoinedChunks
<1> QED
  BY <1>1, <1>2, <1>3, <1>6

SchemaTables == {"positions", "trades", "scan_results", "alerts", "ai_structure_contexts",
         "watchlist_items", "paper_feature_cache", "users"}

LEMMA SchemaChunk ==
    /\ Chunk(Schema) /\ Founded({}, Schema, FALSE)
    /\ \A t \in SchemaTables : Made(t) \in Members(Schema)
    /\ Members(TradeIndexes) \subseteq Members(Schema)
    /\ \A t \in Parents : \E x \in Members(Schema) : x.do = "create" /\ x.of = t
    /\ Schema[1].do = "create"
<1> DEFINE a == <<Made("users")>>
           b == <<Create("portfolio_strategies", User)>>
           c == <<Create("market_data_batches", {})>>
           p == ((((a \o TradeTables) \o StructureTables) \o ScenarioTables) \o b)
           q == p \o TradeIndexes
           r == (q \o WatchTables) \o PaperTables
<1>1. Makes(a) /\ Makes(b) /\ Makes(c) /\ Members(a) = {Made("users")}
  <2>1. Plain(Made("users")) /\ Made("users").do = "create"
    BY StatementKinds, KeysAreParents, TablesNamed
  <2>2. /\ Plain(Create("portfolio_strategies", User))
        /\ Create("portfolio_strategies", User).do = "create"
        /\ Plain(Create("market_data_batches", {}))
        /\ Create("market_data_batches", {}).do = "create"
    BY StatementKinds, KeysAreParents
  <2> QED
    BY <2>1, <2>2, Lists DEF Makes, Chunk
<1>2. Schema = r \o c
  BY TablesNamed DEF Schema
<1> HIDE DEF a, b, c
<1>3. Makes(a \o TradeTables)
      /\ Members(a \o TradeTables) = Members(a) \cup Members(TradeTables)
  BY <1>1, TradeChunk, JoinedMakes
<1>4. Makes((a \o TradeTables) \o StructureTables)
      /\ Members((a \o TradeTables) \o StructureTables) =
            Members(a) \cup Members(TradeTables) \cup Members(StructureTables)
  BY <1>3, StructureChunk, JoinedMakes
<1>5. Makes(((a \o TradeTables) \o StructureTables) \o ScenarioTables)
      /\ Members(a) \cup Members(TradeTables) \cup Members(StructureTables)
            \subseteq Members(((a \o TradeTables) \o StructureTables) \o ScenarioTables)
  BY <1>4, ScenarioChunk, JoinedMakes
<1>6. Makes(p) /\ Members(a) \cup Members(TradeTables) \cup Members(StructureTables)
                     \subseteq Members(p)
  BY <1>1, <1>5, JoinedMakes
<1> HIDE DEF p
<1>7. Chunk(p) /\ \A x \in Members(p) : x.do = "create"
  BY <1>6 DEF Makes
<1>8. Founded({}, p, FALSE)
  BY <1>7, NothingEarlier DEF Needed
<1>9. Chunk(q) /\ Members(q) = Members(p) \cup Members(TradeIndexes)
  BY <1>7, IndexChunk, JoinedChunks
<1>10. Founded({} \cup Members(p), TradeIndexes, FALSE)
  <2>1. \A x \in Members(TradeIndexes) : x.do = "index" /\ x.on \in {"trades", "alerts"}
    <3>1. \A i, t, d : Index(i, t, d).do = "index" /\ Index(i, t, d).on = t
      BY DEF Index
    <3>2. UniqueImport.do = "index" /\ UniqueImport.on = "trades"
      BY <3>1 DEF UniqueImport
    <3> DEFINE m == Index("idx_trades_user", "trades", "")
               n == Index("idx_alerts_user", "alerts", "")
    <3>3. m.do = "index" /\ m.on = "trades" /\ n.do = "index" /\ n.on = "alerts"
      BY <3>1
    <3>4. Members(TradeIndexes) = {m, UniqueImport, n}
      BY IndexChunk
    <3> HIDE DEF m, n
    <3> QED
      BY <3>2, <3>3, <3>4
  <2>2. {Made("trades"), Made("alerts")} \subseteq Members(p)
    BY <1>6, TradeChunk
  <2>3. ASSUME NEW x \in Members(TradeIndexes)
        PROVE  Needed(x, FALSE) \subseteq {} \cup Members(p)
    <3>1. Needed(x, FALSE) = {Made(x.on)}
      BY <2>1 DEF Needed
    <3> QED
      BY <2>1, <2>2, <3>1
  <2> QED
    BY <2>3, NothingEarlier
<1>11. Founded({}, q, FALSE)
  BY <1>7, <1>8, <1>10, IndexChunk, JoinedFounded DEF Chunk
<1> HIDE DEF q
<1>12. ASSUME NEW past, NEW m, Makes(m) PROVE Founded(past, m, FALSE)
  BY <1>12, NothingEarlier DEF Needed, Makes
<1>13. /\ Chunk(q \o WatchTables) /\ Founded({}, q \o WatchTables, FALSE)
       /\ Members(q \o WatchTables) = Members(q) \cup Members(WatchTables)
  <2>1. Makes(WatchTables) /\ Chunk(WatchTables)
    BY WatchChunk DEF Makes
  <2>2. Founded({} \cup Members(q), WatchTables, FALSE)
    BY <1>12, <2>1
  <2> QED
    BY <1>9, <1>11, <2>1, <2>2, JoinedChunks, JoinedFounded DEF Chunk
<1>14. /\ Chunk(r) /\ Founded({}, r, FALSE)
       /\ Members(r) = Members(q) \cup Members(WatchTables) \cup Members(PaperTables)
  <2>1. Makes(PaperTables) /\ Chunk(PaperTables)
    BY PaperChunk DEF Makes
  <2>2. Founded({} \cup Members(q \o WatchTables), PaperTables, FALSE)
    BY <1>12, <2>1
  <2> QED
    BY <1>13, <2>1, <2>2, JoinedChunks, JoinedFounded DEF Chunk
<1> HIDE DEF r
<1>15. /\ Chunk(Schema) /\ Founded({}, Schema, FALSE)
       /\ Members(r) \subseteq Members(Schema)
  <2>1. Chunk(c)
    BY <1>1 DEF Makes
  <2>2. Founded({} \cup Members(r), c, FALSE)
    BY <1>1, <1>12
  <2>3. Chunk(r \o c) /\ Members(r) \subseteq Members(r \o c)
    BY <1>14, <2>1, JoinedChunks
  <2>4. Founded({}, r \o c, FALSE)
    BY <1>14, <2>1, <2>2, JoinedFounded DEF Chunk
  <2> QED
    BY <1>2, <2>3, <2>4
<1>16. \A t \in SchemaTables : Made(t) \in Members(Schema)
  <2>1. {Made("users"), Made("trades"), Made("alerts"), Made("positions"),
         Made("ai_structure_contexts")} \subseteq Members(p)
    BY <1>1, <1>6, TradeChunk, StructureChunk
  <2> QED
    BY <1>9, <1>14, <1>15, <2>1, WatchChunk, PaperChunk DEF SchemaTables
<1>17. \A t \in Parents : \E x \in Members(Schema) : x.do = "create" /\ x.of = t
  <2>1. {Made("users"), Create("trade_import_batches", User)} \subseteq Members(p)
    BY <1>1, <1>6, TradeChunk
  <2>2. {Create("trade_import_batches", User), Create("coach_events", User),
         Create("watchlist_groups", User), Create("paper_accounts", User),
         Create("paper_replay_runs", Account), Create("paper_intents", InRun)}
            \subseteq Members(Schema)
    BY <1>9, <1>14, <1>15, <2>1, WatchChunk, PaperChunk
  <2>3. Create("users", {}) \in Members(Schema)
    BY <1>9, <1>14, <1>15, <2>1, TablesNamed
  <2>4. \A t, refs : Create(t, refs).do = "create" /\ Create(t, refs).of = t
    BY DEF Create
  <2> QED
    BY <2>2, <2>3, <2>4 DEF Parents
<1>18. Schema[1].do = "create"
  <2>1. 1 \in 1..Len(p) /\ p[1].do = "create"
    BY <1>7, Places DEF Chunk
  <2>2. Listed(p) /\ Listed(TradeIndexes) /\ Listed(q) /\ Listed(WatchTables)
        /\ Listed(PaperTables) /\ Listed(q \o WatchTables) /\ Listed(r) /\ Listed(c)
    BY <1>1, <1>7, <1>9, <1>13, <1>14, IndexChunk, WatchChunk, PaperChunk DEF Chunk, Makes
  <2>3. 1 \in 1..Len(q) /\ q[1] = p[1]
    BY <2>1, <2>2, Joined, Places DEF q
  <2>4. 1 \in 1..Len(q \o WatchTables) /\ (q \o WatchTables)[1] = p[1]
    BY <2>2, <2>3, Joined, Places
  <2>5. 1 \in 1..Len(r) /\ r[1] = p[1]
    BY <2>2, <2>4, Joined, Places DEF r
  <2> QED
    BY <1>2, <2>1, <2>2, <2>5, Joined
<1> QED
  BY <1>9, <1>14, <1>15, <1>16, <1>17, <1>18

(* A part of the program that finds what it needs among the statements     *)
(* past and its own.                                                       *)
Solid(past, p) ==
    Listed(p) /\ (\A x \in Members(p) : Proper(x)) /\ Linked(p) /\ Founded(past, p, TRUE)

LEMMA JoinedSolid ==
    ASSUME NEW past, NEW p, NEW q, Solid(past, p), Solid(past \cup Members(p), q)
    PROVE  Solid(past, p \o q) /\ Members(p \o q) = Members(p) \cup Members(q)
BY Joined, JoinedLinked, JoinedFounded DEF Solid

LEMMA SolidAside ==
    ASSUME NEW past, NEW p, NEW q, Solid(past, p), Solid(past, q)
    PROVE  Solid(past, p \o q) /\ Members(p \o q) = Members(p) \cup Members(q)
<1>1. Founded(past \cup Members(p), q, TRUE)
  BY Wider DEF Solid
<1>2. Listed(p) /\ Listed(q) /\ Linked(p) /\ Linked(q) /\ Founded(past, p, TRUE)
  BY DEF Solid
<1>3. Founded(past, p \o q, TRUE) /\ Linked(p \o q)
  BY <1>1, <1>2, JoinedFounded, JoinedLinked
<1>4. Listed(p \o q) /\ Members(p \o q) = Members(p) \cup Members(q)
  BY <1>2, Joined
<1>5. \A x \in Members(p \o q) : Proper(x)
  BY <1>4 DEF Solid
<1> QED
  BY <1>3, <1>4, <1>5 DEF Solid

LEMMA PlainSolid ==
    ASSUME NEW past, NEW p, Chunk(p), \A x \in Members(p) : Needed(x, TRUE) \subseteq past
    PROVE  Solid(past, p)
BY PlainLinked, NothingEarlier DEF Chunk, Solid, Proper

LEMMA MakesSolid ==
    ASSUME NEW past, NEW p, Makes(p)
    PROVE  Solid(past, p)
<1>1. \A x \in Members(p) : Needed(x, TRUE) = {}
  BY DEF Makes, Needed
<1> QED
  BY <1>1, PlainSolid DEF Makes

LEMMA AddsNeed ==
    ASSUME NEW t \in DOMAIN Moved, NEW c
    PROVE  Needed(Add(t, c), TRUE) \subseteq Members(Schema)
<1>1. Needed(Add(t, c), TRUE) = {Made(t)}
  BY DEF Needed, Add
<1>2. t \in SchemaTables
  BY MovedColumns DEF SchemaTables
<1> QED
  BY <1>1, <1>2, SchemaChunk

LEMMA AddsSolid ==
    ASSUME NEW t \in DOMAIN Moved, t # "paper_feature_cache",
           NEW names, Listed(names), Members(names) \subseteq Moved[t]
    PROVE  Solid(Members(Schema), Adds(t, names))
<1>1. ASSUME NEW x \in Members(Adds(t, names))
      PROVE  Needed(x, TRUE) \subseteq Members(Schema)
  <2>1. PICK c \in Members(names) : x = Add(t, c)
    BY AddsOf
  <2> QED
    BY <2>1, AddsNeed
<1> HIDE DEF Adds
<1>2. Chunk(Adds(t, names))
  BY AddsChunk
<1> QED
  BY <1>1, <1>2, PlainSolid

LEMMA ColumnSolid == Solid(Members(Schema), ColumnMigrations)
<1> DEFINE a == Adds("positions", PositionColumns)
           b == Adds("trades", PlanColumns \o ImportColumns)
           c == Adds("scan_results", <<"fundamental">>)
           d == Adds("alerts", StrategyColumns)
           e == Adds("ai_structure_contexts", ContextColumns)
           P == Members(Schema)
<1>1. Solid(P, a) /\ Solid(P, e)
  BY MovedColumns, Columns4, AddsSolid
<1>2. Solid(P, b)
  BY MovedColumns, TradeColumns, AddsSolid
<1>3. Solid(P, c) /\ Solid(P, d)
  BY MovedColumns, ShortColumns, AddsSolid
<1> HIDE DEF a, b, c, d, e, P
<1>4. ColumnMigrations = (((a \o b) \o c) \o d) \o e
  BY DEF ColumnMigrations, a, b, c, d, e
<1>5. Solid(P, a \o b)
  BY <1>1, <1>2, SolidAside
<1>6. Solid(P, (a \o b) \o c)
  BY <1>3, <1>5, SolidAside
<1>7. Solid(P, ((a \o b) \o c) \o d)
  BY <1>3, <1>6, SolidAside
<1>8. Solid(P, (((a \o b) \o c) \o d) \o e)
  BY <1>1, <1>7, SolidAside
<1> QED
  BY <1>4, <1>8 DEF P

(* The columns that the indexes of the migrations are on.                  *)
LEMMA ImportColumnsAdded ==
    {Add("trades", "import_batch_id"), Add("trades", "import_draft_id")}
        \subseteq Members(ColumnMigrations)
<1>1. {"import_batch_id", "import_draft_id"} \subseteq Moved["trades"]
  BY MovedColumns, Columns4
<1> QED
  BY <1>1, ColumnChunk

LEMMA ImportSolid == Solid(Members(Schema) \cup Members(ColumnMigrations), ImportMigrations)
<1> DEFINE c == Index("idx_trades_import_batch", "trades", "import_batch_id")
           P == Members(Schema) \cup Members(ColumnMigrations)
<1>1. Needed(c, TRUE) \subseteq {Made("trades"), Add("trades", "import_batch_id")}
  BY DEF Needed, Index
<1>2. Needed(UniqueImport, TRUE) \subseteq {Made("trades"), Add("trades", "import_draft_id")}
  BY DEF Needed, UniqueImport, Index
<1>3. Made("trades") \in Members(Schema)
  BY SchemaChunk DEF SchemaTables
<1> HIDE DEF c
<1>4. Needed(c, TRUE) \subseteq P /\ Needed(UniqueImport, TRUE) \subseteq P
  BY <1>1, <1>2, <1>3, ImportColumnsAdded
<1>5. \A x \in Members(ImportMigrations) : x.do = "create" \/ x \in {c, UniqueImport}
  BY ImportChunk DEF c
<1>6. \A x : x.do = "create" => Needed(x, TRUE) = {}
  BY DEF Needed
<1>7. \A x \in Members(ImportMigrations) : Needed(x, TRUE) \subseteq P
  BY <1>4, <1>5, <1>6
<1> HIDE DEF P
<1>8. Solid(P, ImportMigrations)
  BY <1>7, ImportChunk, PlainSolid
<1> QED
  BY <1>8 DEF P

LEMMA CoachSolid == Solid(Members(Schema), CoachMigrations)
<1>1. \A x : x.do = "create" => Needed(x, TRUE) = {}
  BY DEF Needed
<1>2. \A x : x.do = "add" => Needed(x, TRUE) = {Made(x.of)}
  BY DEF Needed
<1>3. ASSUME NEW x \in Members(CoachMigrations), x.do = "add"
      PROVE  Made(x.of) \in Members(Schema)
  <2>1. x.of \in DOMAIN Moved
    BY <1>3, CoachChunk DEF Chunk, Plain
  <2> QED
    BY <2>1, MovedColumns, SchemaChunk DEF SchemaTables
<1>4. \A x \in Members(CoachMigrations) : Needed(x, TRUE) \subseteq Members(Schema)
  BY <1>1, <1>2, <1>3, CoachChunk
<1> QED
  BY <1>4, CoachChunk, PlainSolid

LEMMA OneSolid ==
    ASSUME NEW past, NEW x, Proper(x), x.do \notin Follow, x.do \notin Lead,
           Needed(x, TRUE) \subseteq past
    PROVE  Solid(past, <<x>>) /\ Members(<<x>>) = {x}
<1> DEFINE p == <<x>>
<1>1. Listed(p) /\ Members(p) = {x} /\ Len(p) = 1 /\ p[1] = x
  BY Lists
<1> HIDE DEF p
<1>2. Linked(p)
  BY <1>1 DEF Linked
<1>3. Founded(past, p, TRUE)
  BY <1>1, NothingEarlier
<1> QED
  BY <1>1, <1>2, <1>3 DEF Solid, p

LEMMA PresetSolid == Solid(Members(Schema), <<Do("preset"), Do("fill")>>)
<1> DEFINE x == Do("preset")
           y == Do("fill")
           p == <<x, y>>
<1>1. x.do = "preset" /\ y.do = "fill"
  BY DEF Do
<1> HIDE DEF x, y
<1>2. Listed(p) /\ Members(p) = {x, y} /\ Len(p) = 2 /\ p[1] = x /\ p[2] = y
  BY Lists
<1> HIDE DEF p
<1>3. Linked(p)
  <2>1. p[1].do \notin Follow /\ p[Len(p)].do \notin Lead
    BY <1>1, <1>2 DEF Follow, Lead
  <2>2. Next2(p[1], p[2])
    BY <1>1, <1>2 DEF Next2
  <2>3. 1..(Len(p) - 1) = {1} /\ 1 + 1 = 2 /\ Len(p) > 0
    BY <1>2
  <2> QED
    BY <2>1, <2>2, <2>3 DEF Linked
<1>4. Needed(x, TRUE) = {Made("paper_feature_cache")} /\ Needed(y, TRUE) = {Made("paper_feature_cache")}
  BY <1>1 DEF Needed
<1>5. Founded(Members(Schema), p, TRUE)
  BY <1>2, <1>4, SchemaChunk, NothingEarlier DEF SchemaTables
<1>6. Proper(x) /\ Proper(y)
  BY <1>1 DEF Proper
<1> QED
  BY <1>2, <1>3, <1>5, <1>6 DEF Solid, p, x, y

LEMMA MigrationsSolid ==
    /\ Solid(Members(Schema), Migrations)
    /\ Members(ColumnMigrations) \cup Members(ImportMigrations) \cup Members(CoachMigrations)
          \cup {Do("preset"), Do("fill"), Do("trades"), Do("alerts")} \subseteq Members(Migrations)
<1> DEFINE P == Members(Schema)
           a == ColumnMigrations
           b == ImportMigrations
           c == PaperMigrations
           d == StructureMigrations
           e == ScenarioMigrations
           f == CoachMigrations
           g == <<Do("preset"), Do("fill")>>
           h == Adds("trades", ImportColumns)
           i == <<Do("trades")>>
           j == Adds("alerts", StrategyColumns)
           k == <<Do("alerts")>>
<1>1. Solid(P, a) /\ Solid(P \cup Members(a), b)
  BY ColumnSolid, ImportSolid
<1>2. Solid(P, c) /\ Solid(P, d) /\ Solid(P, e) /\ Solid(P, f)
  BY PaperChunk, StructureChunk, ScenarioChunk, MakesSolid, CoachSolid
     DEF PaperMigrations, StructureMigrations, ScenarioMigrations
<1>3. Solid(P, g) /\ Members(g) = {Do("preset"), Do("fill")}
  BY PresetSolid, Lists
<1>4. Solid(P, h) /\ Solid(P, j)
  BY MovedColumns, Columns4, ShortColumns, AddsSolid
<1>5. /\ Solid(P, i) /\ Members(i) = {Do("trades")}
      /\ Solid(P, k) /\ Members(k) = {Do("alerts")}
  <2> DEFINE x == Do("trades")
             y == Do("alerts")
  <2>1. x.do = "trades" /\ y.do = "alerts"
    BY DEF Do
  <2> HIDE DEF x, y
  <2>2. Proper(x) /\ Proper(y) /\ x.do \notin Follow \cup Lead /\ y.do \notin Follow \cup Lead
    BY <2>1 DEF Proper, Follow, Lead
  <2>3. Needed(x, TRUE) = {Made("trades")} /\ Needed(y, TRUE) = {Made("alerts")}
    BY <2>1 DEF Needed
  <2>4. {Made("trades"), Made("alerts")} \subseteq P
    BY SchemaChunk DEF SchemaTables
  <2>5. Solid(P, <<x>>) /\ Members(<<x>>) = {x} /\ Solid(P, <<y>>) /\ Members(<<y>>) = {y}
    BY <2>2, <2>3, <2>4, OneSolid
  <2> QED
    BY <2>5 DEF x, y
<1> HIDE DEF P, a, b, c, d, e, f, g, h, i, j, k
<1>6. Migrations = (((((((((a \o b) \o c) \o d) \o e) \o f) \o g) \o h) \o i) \o j) \o k
  BY DEF Migrations, a, b, c, d, e, f, g, h, i, j, k
<1>7. Solid(P, a \o b) /\ Members(a \o b) = Members(a) \cup Members(b)
  BY <1>1, JoinedSolid
<1> DEFINE abc == (a \o b) \o c
           abcd == abc \o d
           abcde == abcd \o e
           abcdef == abcde \o f
           g0 == abcdef \o g
           h0 == g0 \o h
           i0 == h0 \o i
           j0 == i0 \o j
<1> HIDE DEF abc, abcd, abcde, abcdef, g0, h0, i0, j0
<1>8. Solid(P, abc) /\ Members(abc) = Members(a \o b) \cup Members(c)
  <2>1. Solid(P, abc)
    BY <1>2, <1>7, SolidAside DEF abc
  <2>2. Members(abc) = Members(a \o b) \cup Members(c)
    BY <1>2, <1>7, Joined DEF Solid, abc
  <2> QED
    BY <2>1, <2>2
<1>9. Solid(P, abcd) /\ Members(abcd) = Members(abc) \cup Members(d)
  <2>1. Solid(P, abcd)
    BY <1>2, <1>8, SolidAside DEF abcd
  <2>2. Members(abcd) = Members(abc) \cup Members(d)
    BY <1>2, <1>8, Joined DEF Solid, abcd
  <2> QED
    BY <2>1, <2>2
<1>10. Solid(P, abcde) /\ Members(abcde) = Members(abcd) \cup Members(e)
  <2>1. Solid(P, abcde)
    BY <1>2, <1>9, SolidAside DEF abcde
  <2>2. Members(abcde) = Members(abcd) \cup Members(e)
    BY <1>2, <1>9, Joined DEF Solid, abcde
  <2> QED
    BY <2>1, <2>2
<1>11. Solid(P, abcdef) /\ Members(abcdef) = Members(abcde) \cup Members(f)
  <2>1. Solid(P, abcdef)
    BY <1>2, <1>10, SolidAside DEF abcdef
  <2>2. Members(abcdef) = Members(abcde) \cup Members(f)
    BY <1>2, <1>10, Joined DEF Solid, abcdef
  <2> QED
    BY <2>1, <2>2
<1>12. Solid(P, g0) /\ Members(g0) = Members(abcdef) \cup Members(g)
  <2>1. Solid(P, g0)
    BY <1>3, <1>11, SolidAside DEF g0
  <2>2. Members(g0) = Members(abcdef) \cup Members(g)
    BY <1>3, <1>11, Joined DEF Solid, g0
  <2> QED
    BY <2>1, <2>2
<1>13. Solid(P, h0) /\ Members(h0) = Members(g0) \cup Members(h)
  <2>1. Solid(P, h0)
    BY <1>4, <1>12, SolidAside DEF h0
  <2>2. Members(h0) = Members(g0) \cup Members(h)
    BY <1>4, <1>12, Joined DEF Solid, h0
  <2> QED
    BY <2>1, <2>2
<1>14. Solid(P, i0) /\ Members(i0) = Members(h0) \cup Members(i)
  <2>1. Solid(P, i0)
    BY <1>5, <1>13, SolidAside DEF i0
  <2>2. Members(i0) = Members(h0) \cup Members(i)
    BY <1>5, <1>13, Joined DEF Solid, i0
  <2> QED
    BY <2>1, <2>2
<1>15. Solid(P, j0) /\ Members(j0) = Members(i0) \cup Members(j)
  <2>1. Solid(P, j0)
    BY <1>4, <1>14, SolidAside DEF j0
  <2>2. Members(j0) = Members(i0) \cup Members(j)
    BY <1>4, <1>14, Joined DEF Solid, j0
  <2> QED
    BY <2>1, <2>2
<1>16. Solid(P, j0 \o k) /\ Members(j0 \o k) = Members(j0) \cup Members(k)
  <2>1. Solid(P, j0 \o k)
    BY <1>5, <1>15, SolidAside
  <2>2. Members(j0 \o k) = Members(j0) \cup Members(k)
    BY <1>5, <1>15, Joined DEF Solid
  <2> QED
    BY <2>1, <2>2
<1>17. Migrations = j0 \o k
  BY <1>6 DEF abc, abcd, abcde, abcdef, g0, h0, i0, j0
<1>18. Solid(P, Migrations)
  BY <1>16, <1>17
<1>19. Members(a) \cup Members(b) \cup Members(f)
          \cup {Do("preset"), Do("fill"), Do("trades"), Do("alerts")} \subseteq Members(Migrations)
  <2>1. Members(a) \cup Members(b) \cup Members(f) \subseteq Members(abcdef)
    BY <1>7, <1>8, <1>9, <1>10, <1>11
  <2>2. Members(abcdef) \cup Members(g) \cup Members(i) \cup Members(k) \subseteq Members(j0 \o k)
    BY <1>12, <1>13, <1>14, <1>15, <1>16
  <2> QED
    BY <2>1, <2>2, <1>3, <1>5, <1>17
<1> QED
  BY <1>18, <1>19 DEF P, a, b, f

LEMMA LakeSolid ==
    ASSUME NEW past, NEW s \in Sources
    PROVE  Solid(past, InitLake(s)) /\ Lake("klines", s) \in Members(InitLake(s))
<1> DEFINE x == Lake("klines", s)
           y == Lake("rename", s)
           z == Lake("recreate", s)
           w == Lake("refill", s)
           p == <<x, y, z, w>>
<1>1. /\ x.do = "klines" /\ y.do = "rename" /\ z.do = "recreate" /\ w.do = "refill"
      /\ x.of = s /\ y.of = s /\ z.of = s /\ w.of = s
  BY DEF Lake
<1>2. InitLake(s) = p
  BY DEF InitLake
<1>3. \A v : v.do \in {"rename", "recreate", "refill"} /\ v.of = s => Needed(v, TRUE) = {x}
  BY DEF Needed
<1> HIDE DEF x, y, z, w
<1>4. /\ Listed(p) /\ Members(p) = {x, y, z, w} /\ Len(p) = 4
      /\ p[1] = x /\ p[2] = y /\ p[3] = z /\ p[4] = w
  BY Lists
<1> HIDE DEF p
<1>5. Linked(p)
  <2>1. p[1].do \notin Follow /\ p[Len(p)].do \notin Lead
    BY <1>1, <1>4 DEF Follow, Lead
  <2>2. Next2(p[1], p[2]) /\ Next2(p[2], p[3]) /\ Next2(p[3], p[4])
    BY <1>1, <1>4 DEF Next2
  <2>3. \A k \in 1..(Len(p) - 1) : k = 1 \/ k = 2 \/ k = 3
    BY <1>4
  <2>4. Len(p) > 0 /\ 1 + 1 = 2 /\ 2 + 1 = 3 /\ 3 + 1 = 4
    BY <1>4
  <2> QED
    BY <2>1, <2>2, <2>3, <2>4 DEF Linked
<1>6. Founded(past, p, TRUE)
  <2>1. Needed(x, TRUE) = {}
    BY <1>1 DEF Needed
  <2>2. Needed(y, TRUE) = {x} /\ Needed(z, TRUE) = {x} /\ Needed(w, TRUE) = {x}
    BY <1>1, <1>3
  <2>3. \A k \in 2..4 : x \in Earlier(p, k)
    BY <1>4 DEF Earlier
  <2>4. \A k \in 1..Len(p) : k = 1 \/ k = 2 \/ k = 3 \/ k = 4
    BY <1>4
  <2>5. ASSUME NEW k \in 1..Len(p) PROVE Needed(p[k], TRUE) \subseteq past \cup Earlier(p, k)
    <3>1. ASSUME k # 1 PROVE Needed(p[k], TRUE) \subseteq Earlier(p, k)
      <4>1. k \in 2..4 /\ p[k] \in {y, z, w}
        BY <3>1, <1>4, <2>4
      <4>2. Needed(p[k], TRUE) = {x}
        BY <4>1, <2>2
      <4> QED
        BY <4>1, <4>2, <2>3
    <3>2. ASSUME k = 1 PROVE Needed(p[k], TRUE) = {}
      BY <3>2, <1>4, <2>1
    <3> QED
      BY <3>1, <3>2
  <2> QED
    BY <2>5 DEF Founded
<1>7. Proper(x) /\ Proper(y) /\ Proper(z) /\ Proper(w)
  BY <1>1 DEF Proper
<1>8. Solid(past, p)
  BY <1>4, <1>5, <1>6, <1>7 DEF Solid
<1> QED
  BY <1>2, <1>4, <1>8 DEF x

LEMMA TailSolid ==
    ASSUME NEW past, \A s \in Sources : Lake("klines", s) \in past, Made("users") \in past
    PROVE  LET p == <<Do("split tdx"), Do("split baostock"), Do("user")>>
           IN  Solid(past, p) /\ {Do("split baostock"), Do("user")} \subseteq Members(p)
<1> DEFINE x == Do("split tdx")
           y == Do("split baostock")
           z == Do("user")
           p == <<x, y, z>>
<1>1. x.do = "split tdx" /\ y.do = "split baostock" /\ z.do = "user"
  BY DEF Do
<1> HIDE DEF x, y, z
<1>2. /\ Listed(p) /\ Members(p) = {x, y, z} /\ Len(p) = 3
      /\ p[1] = x /\ p[2] = y /\ p[3] = z
  BY Lists
<1> HIDE DEF p
<1>3. Linked(p)
  <2>1. p[1].do \notin Follow /\ p[Len(p)].do \notin Lead
    BY <1>1, <1>2 DEF Follow, Lead
  <2>2. Next2(p[1], p[2]) /\ Next2(p[2], p[3])
    BY <1>1, <1>2 DEF Next2
  <2>3. \A k \in 1..(Len(p) - 1) : k = 1 \/ k = 2
    BY <1>2
  <2>4. Len(p) > 0 /\ 1 + 1 = 2 /\ 2 + 1 = 3
    BY <1>2
  <2> QED
    BY <2>1, <2>2, <2>3, <2>4 DEF Linked
<1>4. /\ Needed(x, TRUE) = {Lake("klines", s) : s \in Sources}
      /\ Needed(y, TRUE) = {Lake("klines", s) : s \in Sources}
      /\ Needed(z, TRUE) = {Made("users")}
  BY <1>1 DEF Needed
<1>5. Founded(past, p, TRUE)
  <2>1. \A v \in Members(p) : v = x \/ v = y \/ v = z
    BY <1>2
  <2>2. Needed(x, TRUE) \subseteq past /\ Needed(y, TRUE) \subseteq past
        /\ Needed(z, TRUE) \subseteq past
    BY <1>4
  <2> QED
    BY <2>1, <2>2, NothingEarlier
<1>6. Proper(x) /\ Proper(y) /\ Proper(z)
  BY <1>1 DEF Proper
<1>7. Solid(past, p)
  BY <1>2, <1>3, <1>5, <1>6 DEF Solid
<1> QED
  BY <1>2, <1>7 DEF p, x, y, z

(* A program that begins with the schema and finds what it needs.          *)
Whole(p) ==
    /\ Listed(p) /\ Linked(p) /\ (\A x \in Members(p) : Proper(x))
    /\ p[1].do = "create" /\ Len(Schema) <= Len(p)
    /\ \A k \in 1..Len(Schema) : Needed(p[k], FALSE) \subseteq Earlier(p, k)
    /\ \A k \in (Len(Schema) + 1)..Len(p) : Needed(p[k], TRUE) \subseteq Earlier(p, k)

LEMMA EarlierIn ==
    ASSUME NEW p, NEW q, Listed(p), Listed(q), NEW k \in 1..(Len(p) + 1)
    PROVE  Earlier(p \o q, k) = Earlier(p, k)
<1>1. \A j \in 1..(k - 1) : j \in 1..Len(p)
  BY Places
<1> QED
  BY <1>1, Joined DEF Earlier

LEMMA EarlierBeyond ==
    ASSUME NEW p, NEW q, Listed(p), Listed(q), NEW k \in 1..Len(q)
    PROVE  Earlier(p \o q, Len(p) + k) = Members(p) \cup Earlier(q, k)
<1>1. Len(p) \in Nat /\ Len(q) \in Nat
  BY Places
<1>2. ASSUME NEW x \in Earlier(p \o q, Len(p) + k) PROVE x \in Members(p) \cup Earlier(q, k)
  <2>1. PICK j \in 1..(Len(p) + k - 1) : x = (p \o q)[j]
    BY DEF Earlier
  <2>2. CASE j <= Len(p)
    <3>1. j \in 1..Len(p)
      BY <1>1, <2>1, <2>2
    <3> QED
      BY <2>1, <3>1, Joined DEF Members
  <2>3. CASE j > Len(p)
    <3>1. j - Len(p) \in 1..(k - 1) /\ j - Len(p) \in 1..Len(q) /\ Len(p) + (j - Len(p)) = j
      BY <1>1, <2>1, <2>3
    <3>2. x = q[j - Len(p)]
      BY <2>1, <3>1, Joined
    <3> QED
      BY <3>1, <3>2 DEF Earlier
  <2> QED
    BY <1>1, <2>1, <2>2, <2>3
<1>3. ASSUME NEW x \in Members(p) PROVE x \in Earlier(p \o q, Len(p) + k)
  <2>1. PICK j \in 1..Len(p) : x = p[j]
    BY DEF Members
  <2>2. j \in 1..(Len(p) + k - 1) /\ (p \o q)[j] = x
    BY <1>1, <2>1, Joined
  <2> QED
    BY <2>2 DEF Earlier
<1>4. ASSUME NEW x \in Earlier(q, k) PROVE x \in Earlier(p \o q, Len(p) + k)
  <2>1. PICK j \in 1..(k - 1) : x = q[j]
    BY DEF Earlier
  <2>2. j \in 1..Len(q) /\ Len(p) + j \in 1..(Len(p) + k - 1)
    BY <1>1
  <2>3. (p \o q)[Len(p) + j] = x
    BY <2>1, <2>2, Joined
  <2> QED
    BY <2>2, <2>3 DEF Earlier
<1> QED
  BY <1>2, <1>3, <1>4

LEMMA Extended ==
    ASSUME NEW p, NEW q, Whole(p), NEW past, Solid(past, q), past \subseteq Members(p)
    PROVE  Whole(p \o q) /\ Members(p \o q) = Members(p) \cup Members(q)
<1> DEFINE r == p \o q
           n == Len(Schema)
<1>1. Listed(p) /\ Listed(q) /\ Linked(p) /\ Linked(q)
  BY DEF Whole, Solid
<1>2. Listed(r) /\ Linked(r) /\ Members(r) = Members(p) \cup Members(q)
  BY <1>1, Joined, JoinedLinked
<1>3. \A x \in Members(r) : Proper(x)
  BY <1>2 DEF Whole, Solid
<1>4. /\ Len(p) \in Nat \ {0} /\ Len(q) \in Nat \ {0} /\ Len(r) = Len(p) + Len(q)
      /\ n \in Nat /\ n <= Len(p)
  <2>1. Listed(Schema)
    BY SchemaChunk DEF Chunk
  <2> QED
    BY <1>1, <2>1, Joined, Places DEF Whole
<1>5. r[1].do = "create" /\ n <= Len(r)
  <2>1. 1 \in 1..Len(p)
    BY <1>4
  <2>2. r[1] = p[1]
    BY <1>1, <2>1, Joined
  <2> QED
    BY <1>4, <2>2 DEF Whole
<1>6. ASSUME NEW k \in 1..Len(p) PROVE r[k] = p[k] /\ Earlier(r, k) = Earlier(p, k)
  <2>1. k \in 1..(Len(p) + 1)
    BY <1>4
  <2> QED
    BY <1>1, <2>1, Joined, EarlierIn
<1>7. ASSUME NEW k \in 1..n PROVE Needed(r[k], FALSE) \subseteq Earlier(r, k)
  <2>1. k \in 1..Len(p)
    BY <1>4
  <2> QED
    BY <1>6, <2>1 DEF Whole
<1>8. ASSUME NEW k \in (n + 1)..Len(r) PROVE Needed(r[k], TRUE) \subseteq Earlier(r, k)
  <2>1. CASE k <= Len(p)
    <3>1. k \in 1..Len(p) /\ k \in (n + 1)..Len(p)
      BY <1>4, <2>1
    <3> QED
      BY <1>6, <3>1 DEF Whole
  <2>2. CASE k > Len(p)
    <3> DEFINE i == k - Len(p)
    <3>1. i \in 1..Len(q) /\ Len(p) + i = k
      BY <1>4, <2>2
    <3> HIDE DEF i
    <3>2. r[k] = q[i] /\ Earlier(r, k) = Members(p) \cup Earlier(q, i)
      BY <1>1, <3>1, Joined, EarlierBeyond
    <3>3. Needed(q[i], TRUE) \subseteq past \cup Earlier(q, i)
      BY <3>1 DEF Solid, Founded
    <3> QED
      BY <3>2, <3>3
  <2>3. k <= Len(p) \/ k > Len(p)
    BY <1>4
  <2> QED
    BY <2>1, <2>2, <2>3
<1> HIDE DEF r
<1>9. Whole(r)
  BY <1>2, <1>3, <1>5, <1>7, <1>8 DEF Whole
<1> QED
  BY <1>2, <1>9 DEF r

LEMMA SchemaWhole == Whole(Schema)
<1>1. Listed(Schema) /\ \A x \in Members(Schema) : Proper(x)
  BY SchemaChunk DEF Chunk, Proper
<1>2. Linked(Schema)
  BY SchemaChunk, PlainLinked DEF Chunk
<1>3. Len(Schema) \in Nat
  BY <1>1, Places
<1>4. (Len(Schema) + 1)..Len(Schema) = {} /\ Len(Schema) <= Len(Schema)
  BY <1>3
<1>5. \A k \in 1..Len(Schema) : Needed(Schema[k], FALSE) \subseteq Earlier(Schema, k)
  BY SchemaChunk DEF Founded
<1> QED
  BY <1>1, <1>2, <1>4, <1>5, SchemaChunk DEF Whole

(* What must be in the program for a server that comes up to be current.   *)
Musts ==
    {Do("preset"), Do("trades"), Do("alerts"), Do("split baostock"),
     Index("idx_trades_user", "trades", ""), UniqueImport, Index("idx_alerts_user", "alerts", ""),
     Index("idx_trades_import_batch", "trades", "import_batch_id")}

LEMMA ProgramWhole ==
    /\ Whole(Program) /\ Musts \subseteq Members(Program)
    /\ \A t \in DOMAIN Moved \ {"paper_feature_cache"} :
          \A c \in Moved[t] : Add(t, c) \in Members(Program)
    /\ Members(Schema) \subseteq Members(Program)
<1> DEFINE tail == <<Do("split tdx"), Do("split baostock"), Do("user")>>
           q == Migrations
           p0 == Schema \o q
           p1 == p0 \o InitLake("tdx")
           p2 == p1 \o InitLake("baostock")
           p3 == p2 \o InitLake("qmt")
           p4 == p3 \o InitLake("intraday")
           K(s) == Lake("klines", s)
<1>1. Program = p4 \o tail
  BY DEF Program
<1> HIDE DEF tail, q, p0, p1, p2, p3, p4, K
<1>2. Whole(p0) /\ Members(p0) = Members(Schema) \cup Members(q)
  BY SchemaWhole, MigrationsSolid, Extended DEF p0, q
<1>3. /\ Solid({}, InitLake("tdx")) /\ K("tdx") \in Members(InitLake("tdx"))
      /\ Solid({}, InitLake("baostock")) /\ K("baostock") \in Members(InitLake("baostock"))
      /\ Solid({}, InitLake("qmt")) /\ K("qmt") \in Members(InitLake("qmt"))
      /\ Solid({}, InitLake("intraday")) /\ K("intraday") \in Members(InitLake("intraday"))
  BY LakeSolid DEF Sources, K
<1>4. Whole(p1) /\ Members(p1) = Members(p0) \cup Members(InitLake("tdx"))
  BY <1>2, <1>3, Extended DEF p1
<1>5. Whole(p2) /\ Members(p2) = Members(p1) \cup Members(InitLake("baostock"))
  BY <1>3, <1>4, Extended DEF p2
<1>6. Whole(p3) /\ Members(p3) = Members(p2) \cup Members(InitLake("qmt"))
  BY <1>3, <1>5, Extended DEF p3
<1>7. Whole(p4) /\ Members(p4) = Members(p3) \cup Members(InitLake("intraday"))
  BY <1>3, <1>6, Extended DEF p4
<1>8. Members(Schema) \cup Members(q) \subseteq Members(p4)
  BY <1>2, <1>4, <1>5, <1>6, <1>7
<1>9. \A s \in Sources : K(s) \in Members(p4)
  BY <1>3, <1>4, <1>5, <1>6, <1>7 DEF Sources
<1>10. Made("users") \in Members(p4)
  BY <1>8, SchemaChunk DEF SchemaTables
<1>11. Solid(Members(p4), tail) /\ Do("split baostock") \in Members(tail)
  BY <1>9, <1>10, TailSolid DEF tail, K
<1>12. Whole(p4 \o tail) /\ Members(p4 \o tail) = Members(p4) \cup Members(tail)
  BY <1>7, <1>11, Extended
<1>13. Whole(Program) /\ Members(Program) = Members(p4) \cup Members(tail)
  BY <1>1, <1>12
<1>14. Members(ColumnMigrations) \cup Members(ImportMigrations) \cup Members(CoachMigrations)
          \cup {Do("preset"), Do("fill"), Do("trades"), Do("alerts")} \subseteq Members(Program)
  BY <1>8, <1>13, MigrationsSolid DEF q
<1>15. Members(TradeIndexes) \subseteq Members(Program)
  BY <1>8, <1>13, SchemaChunk
<1>16. Musts \subseteq Members(Program)
  BY <1>11, <1>13, <1>14, <1>15, IndexChunk, ImportChunk DEF Musts
<1>17. \A t \in DOMAIN Moved \ {"paper_feature_cache"} :
          \A c \in Moved[t] : Add(t, c) \in Members(Program)
  <2>1. DOMAIN Moved \ {"paper_feature_cache"} =
            {"positions", "scan_results", "alerts", "ai_structure_contexts", "trades",
             "watchlist_items"}
    BY MovedColumns
  <2> QED
    BY <2>1, <1>14, ColumnChunk, CoachChunk
<1> QED
  BY <1>8, <1>13, <1>16, <1>17

LEMMA ProgramLaws ==
    /\ Len(Program) \in Nat \ {0} /\ DOMAIN Program = 1..Len(Program)
    /\ \A k \in 1..Len(Program) : Proper(Program[k])
    /\ Program[1].do = "create" /\ Program[1].do \notin Follow
    /\ \A k \in 1..Len(Program) : Program[k].do \in Lead => k + 1 \in 1..Len(Program)
    /\ \A k \in 1..Len(Program) : k + 1 \in 1..Len(Program) => Next2(Program[k], Program[k + 1])
    /\ \A k \in 1..Len(Program) :
          /\ Program[k].do = "index" => Made(Program[k].on) \in Earlier(Program, k)
          /\ Program[k].do # "index" => Needed(Program[k], TRUE) \subseteq Earlier(Program, k)
          /\ Program[k].do = "index" /\ k > Len(Schema) /\ Program[k].column # "" =>
                Add(Program[k].on, Program[k].column) \in Earlier(Program, k)
<1>1. Len(Program) \in Nat \ {0} /\ Listed(Program)
  BY ProgramWhole, Places DEF Whole
<1>2. DOMAIN Program = 1..Len(Program)
  BY <1>1, LenProperties DEF Listed
<1>3. \A k \in 1..Len(Program) : Proper(Program[k])
  BY <1>1, ProgramWhole, Places DEF Whole
<1>4. Linked(Program) /\ Program[1].do = "create"
  BY ProgramWhole DEF Whole
<1>5. ASSUME NEW k \in 1..Len(Program), Program[k].do \in Lead PROVE k + 1 \in 1..Len(Program)
  <2>1. k # Len(Program)
    BY <1>4, <1>5 DEF Linked
  <2> QED
    BY <1>1, <2>1
<1>6. ASSUME NEW k \in 1..Len(Program), k + 1 \in 1..Len(Program)
      PROVE  Next2(Program[k], Program[k + 1])
  <2>1. k \in 1..(Len(Program) - 1)
    BY <1>1, <1>6
  <2> QED
    BY <1>4, <2>1 DEF Linked
<1>7. Len(Schema) \in Nat
  BY SchemaChunk, Places DEF Chunk
<1>8. ASSUME NEW k \in 1..Len(Program)
      PROVE  /\ Program[k].do = "index" => Made(Program[k].on) \in Earlier(Program, k)
             /\ Program[k].do # "index" => Needed(Program[k], TRUE) \subseteq Earlier(Program, k)
             /\ Program[k].do = "index" /\ k > Len(Schema) /\ Program[k].column # "" =>
                   Add(Program[k].on, Program[k].column) \in Earlier(Program, k)
  <2> DEFINE x == Program[k]
  <2>1. CASE k <= Len(Schema)
    <3>1. k \in 1..Len(Schema) /\ ~(k > Len(Schema))
      BY <1>7, <2>1
    <3>2. Needed(x, FALSE) \subseteq Earlier(Program, k)
      BY <3>1, ProgramWhole DEF Whole
    <3> HIDE DEF x
    <3>3. x.do = "index" => Made(x.on) \in Needed(x, FALSE)
      BY DEF Needed
    <3>4. x.do # "index" => Needed(x, TRUE) = Needed(x, FALSE)
      BY DEF Needed
    <3> QED
      BY <3>1, <3>2, <3>3, <3>4 DEF x
  <2>2. CASE k > Len(Schema)
    <3>1. k \in (Len(Schema) + 1)..Len(Program)
      BY <1>1, <1>7, <2>2
    <3>2. Needed(x, TRUE) \subseteq Earlier(Program, k)
      BY <3>1, ProgramWhole DEF Whole
    <3> HIDE DEF x
    <3>3. x.do = "index" => Made(x.on) \in Needed(x, TRUE)
      BY DEF Needed
    <3>4. x.do = "index" /\ x.column # "" => Add(x.on, x.column) \in Needed(x, TRUE)
      BY DEF Needed
    <3> QED
      BY <3>2, <3>3, <3>4 DEF x
  <2>3. k <= Len(Schema) \/ k > Len(Schema)
    BY <1>7
  <2> QED
    BY <2>1, <2>2, <2>3
<1> QED
  BY <1>1, <1>2, <1>3, <1>4, <1>5, <1>6, <1>8 DEF Follow

LEMMA Long == Len(Program) \in Nat \ {0}
BY ProgramLaws

LEMMA TablesThere ==
    /\ \A k \in 1..Len(Program) : Program[k].do = "create" => Program[k].of \in Tables
    /\ \A t \in Tables : \E k \in 1..Len(Program) : Program[k].do = "create" /\ Program[k].of = t
    /\ Parents \subseteq Tables \ {"trades", "alerts"}
    /\ SchemaTables \subseteq Tables /\ User \subseteq Tables \ {"trades", "alerts"}
    /\ \A t \in DOMAIN Moved : t \in SchemaTables /\ Moved[t] \subseteq Columns
<1>1. /\ \A k \in 1..Len(Program) : Program[k].do = "create" => Program[k].of \in Tables
      /\ \A t \in Tables : \E k \in 1..Len(Program) : Program[k].do = "create" /\ Program[k].of = t
  BY ProgramLaws DEF Tables
<1>2. \A x \in Members(Program) : x.do = "create" => x.of \in Tables
  BY <1>1 DEF Members
<1>3. Parents \subseteq Tables
  BY <1>2, SchemaChunk, ProgramWhole
<1>4. SchemaTables \subseteq Tables
  <2>1. \A t : Made(t).do = "create" /\ Made(t).of = t
    BY DEF Made, Create
  <2> QED
    BY <1>2, <2>1, SchemaChunk, ProgramWhole
<1>5. "trades" \notin Parents /\ "alerts" \notin Parents
  BY DEF Parents
<1>6. User \subseteq Parents
  BY DEF User, Parents
<1>7. \A t \in DOMAIN Moved : t \in SchemaTables
  BY MovedColumns DEF SchemaTables
<1>8. \A t \in DOMAIN Moved : Moved[t] \subseteq Columns
  BY DEF Columns
<1> QED
  BY <1>1, <1>3, <1>4, <1>5, <1>6, <1>7, <1>8

-----------------------------------------------------------------------------
(* The state of a start.                                                   *)

Cache == "paper_feature_cache"

LakeBars(s) == UNION {lakes[s][n].rows : n \in DOMAIN lakes[s]}

NothingSplit == oldLake # {} /\ LakeBars("tdx") \cup LakeBars("baostock") = {}

Done(x) ==
    /\ x.do = "create" => x.of \in DOMAIN db
    /\ x.do = "index" => x.of \in indexes
    /\ x.do = "add" =>
          x.of \in DOMAIN db \cap DOMAIN Moved /\ x.column \in db[x.of].cols \cap Moved[x.of]
    /\ x.do = "preset" => Cache \in DOMAIN db /\ "engine_preset" \in db[Cache].cols
    /\ x.do \in {"trades", "alerts"} => x.do \in DOMAIN db /\ db[x.do].wide
    /\ x.do = "klines" => DOMAIN lakes[x.of] # {}
    /\ x.do = "split baostock" => ~NothingSplit

Past ==
    phase \in {"starting", "up"} => \A k \in 1..Len(Program) : k < at => Done(Program[k])

ControlInv ==
    /\ phase \in {"off", "starting", "up", "failed"}
    /\ at \in 1..(Len(Program) + 1) /\ (phase = "up" => at = Len(Program) + 1)

TableInv ==
    /\ DOMAIN db \subseteq Tables /\ \A t \in DOMAIN db : db[t] \in FoundTables
    /\ \A t \in DOMAIN db \ {"trades", "alerts"} : db[t].wide
    /\ Cache \in DOMAIN db => db[Cache].rows \subseteq Rows
    /\ DOMAIN found.rows \subseteq DOMAIN db
    /\ \A t \in DOMAIN found.rows : found.rows[t] \subseteq db[t].rows

PresetInv ==
    Cache \in DOMAIN db /\ "engine_preset" \in db[Cache].cols /\ ~Due("fill") =>
        db[Cache].filled = db[Cache].rows

Mid(what, s) == Due(what) /\ Now.of = s

Pending(s) ==
    IF Due("split baostock") THEN IF s = "baostock" THEN ShareOf(s) ELSE {}
    ELSE IF NothingSplit THEN ShareOf(s) ELSE {}

LakeShape(s) ==
    /\ Mid("recreate", s) => DOMAIN lakes[s] = {"klines_old"}
    /\ Mid("refill", s) =>
          DOMAIN lakes[s] = {"klines", "klines_old"} /\ lakes[s]["klines"].rows = {}
    /\ ~Mid("recreate", s) /\ ~Mid("refill", s) => DOMAIN lakes[s] \subseteq {"klines"}

LakeInv ==
    /\ DOMAIN lakes = Sources /\ DOMAIN marks = Sources
    /\ Due("split baostock") => oldLake \cap RawDays \subseteq LakeBars("tdx")
    /\ \A s \in Sources :
          /\ LakeShape(s)
          /\ marks[s] \subseteq LakeBars(s) /\ marks[s] \subseteq oldLake \cup found.bars[s]
          /\ found.bars[s] \subseteq LakeBars(s) \cup Pending(s)

StartInv == ControlInv /\ TableInv /\ PresetInv /\ LakeInv /\ Past

(* The statements that a part of a migration waits for.                    *)
StillLakes ==
    ~Due("split baostock") /\ \A s \in Sources : ~Mid("recreate", s) /\ ~Mid("refill", s)

Still == StillLakes /\ ~Due("fill")

LEMMA OneOn ==
    ASSUME ControlInv, phase = "starting", at <= Len(Program), at' = at + 1, phase' = phase
    PROVE  /\ ControlInv'
           /\ \A s \in Sources :
                 /\ Mid("recreate", s)' <=> (Now.do = "rename" /\ Now.of = s)
                 /\ Mid("refill", s)' <=> (Now.do = "recreate" /\ Now.of = s)
           /\ Due("fill")' <=> Now.do = "preset"
           /\ Due("split baostock")' <=> Now.do = "split tdx"
<1>1. at \in 1..Len(Program) /\ Len(Program) \in Nat
  BY Long DEF ControlInv
<1>2. ControlInv'
  BY <1>1 DEF ControlInv
<1>3. CASE at + 1 \in 1..Len(Program)
  <2>1. Next2(Program[at], Program[at + 1])
    BY <1>1, <1>3, ProgramLaws
  <2>2. Now = Program[at] /\ Now' = Program[at + 1]
    BY DEF Now
  <2>3. \A what : Due(what)' <=> Now'.do = what
    BY <1>1, <1>3 DEF Due
  <2> QED
    BY <1>2, <2>1, <2>2, <2>3 DEF Mid, Next2
<1>4. CASE at + 1 \notin 1..Len(Program)
  <2>1. Program[at].do \notin Lead
    BY <1>1, <1>4, ProgramLaws
  <2>2. \A what : ~Due(what)'
    BY <1>1, <1>4 DEF Due
  <2> QED
    BY <1>2, <2>1, <2>2 DEF Mid, Now, Lead
<1> QED
  BY <1>3, <1>4

LEMMA StillAfter ==
    ASSUME ControlInv, phase = "starting", at <= Len(Program), at' = at + 1, phase' = phase,
           Now.do \notin Lead
    PROVE  ControlInv' /\ Still'
BY OneOn DEF Still, StillLakes, Lead

LEMMA StillElse ==
    ASSUME phase' # "starting" \/ at' = 1
    PROVE  Still'
<1>1. CASE phase' # "starting"
  BY <1>1 DEF Still, StillLakes, Mid, Due
<1>2. CASE at' = 1
  <2>1. Now'.do \notin Follow
    BY <1>2, ProgramLaws DEF Now
  <2> QED
    BY <2>1 DEF Still, StillLakes, Mid, Due, Follow
<1> QED
  BY <1>1, <1>2

Skipping == Now.do \in {"preset", "split tdx"}

LEMMA SkipsOne ==
    ASSUME ControlInv, phase = "starting", at <= Len(Program), at' = at + 2, phase' = phase,
           Skipping
    PROVE  /\ ControlInv' /\ Still' /\ at + 1 \in 1..Len(Program)
           /\ Now.do = "preset" => Program[at + 1].do = "fill"
           /\ Now.do = "split tdx" => Program[at + 1].do = "split baostock"
<1>1. at \in 1..Len(Program) /\ Len(Program) \in Nat
  BY Long DEF ControlInv
<1>2. at + 1 \in 1..Len(Program)
  BY <1>1, ProgramLaws DEF Now, Lead, Skipping
<1>3. ControlInv'
  BY <1>1, <1>2 DEF ControlInv
<1>4. Next2(Program[at], Program[at + 1])
  BY <1>1, <1>2, ProgramLaws
<1>5. /\ Now.do = "preset" => Program[at + 1].do = "fill"
      /\ Now.do = "split tdx" => Program[at + 1].do = "split baostock"
      /\ Program[at + 1].do \in {"fill", "split baostock"}
  BY <1>4 DEF Next2, Now, Skipping
<1>6. CASE at + 2 \in 1..Len(Program)
  <2>1. Next2(Program[at + 1], Program[at + 2])
    <3>1. (at + 1) + 1 = at + 2
      BY <1>1
    <3> QED
      BY <1>2, <1>6, <3>1, ProgramLaws
  <2>2. Now' = Program[at + 2]
    BY DEF Now
  <2>3. Now'.do \notin Follow
    BY <1>5, <2>1, <2>2 DEF Next2, Follow
  <2> QED
    BY <1>2, <1>3, <1>5, <2>3 DEF Still, StillLakes, Mid, Due, Follow
<1>7. CASE at + 2 \notin 1..Len(Program)
  <2>1. ~(at + 2 <= Len(Program))
    BY <1>1, <1>7
  <2> QED
    BY <1>2, <1>3, <1>5, <2>1 DEF Still, StillLakes, Mid, Due
<1> QED
  BY <1>6, <1>7

LEMMA SkipsTwo ==
    ASSUME ControlInv, phase = "starting", at <= Len(Program), at' = at + 3, phase' = phase,
           Now.do = "rename"
    PROVE  /\ ControlInv' /\ Still' /\ at + 1 \in 1..Len(Program) /\ at + 2 \in 1..Len(Program)
           /\ Program[at + 1].do = "recreate" /\ Program[at + 2].do = "refill"
<1>1. at \in 1..Len(Program) /\ Len(Program) \in Nat
  BY Long DEF ControlInv
<1>2. at + 1 \in 1..Len(Program)
  BY <1>1, ProgramLaws DEF Now, Lead
<1>3. Program[at + 1].do = "recreate"
  BY <1>1, <1>2, ProgramLaws DEF Next2, Now
<1>4. at + 2 \in 1..Len(Program) /\ (at + 1) + 1 = at + 2 /\ (at + 2) + 1 = at + 3
  <2>1. (at + 1) + 1 \in 1..Len(Program)
    BY <1>2, <1>3, ProgramLaws DEF Lead
  <2> QED
    BY <1>1, <2>1
<1>5. Program[at + 2].do = "refill"
  <2>1. Next2(Program[at + 1], Program[at + 2])
    BY <1>2, <1>4, ProgramLaws
  <2> QED
    BY <1>3, <2>1 DEF Next2
<1>6. ControlInv'
  BY <1>1, <1>4 DEF ControlInv
<1>7. CASE at + 3 \in 1..Len(Program)
  <2>1. Next2(Program[at + 2], Program[at + 3])
    BY <1>4, <1>7, ProgramLaws
  <2>2. Now' = Program[at + 3]
    BY DEF Now
  <2>3. Now'.do \notin Follow
    BY <1>5, <2>1, <2>2 DEF Next2, Follow
  <2> QED
    BY <1>2, <1>3, <1>4, <1>5, <1>6, <2>3 DEF Still, StillLakes, Mid, Due, Follow
<1>8. CASE at + 3 \notin 1..Len(Program)
  <2>1. ~(at + 3 <= Len(Program))
    BY <1>1, <1>8
  <2> QED
    BY <1>2, <1>3, <1>4, <1>5, <1>6, <2>1 DEF Still, StillLakes, Mid, Due
<1> QED
  BY <1>7, <1>8

(* Nothing that was made is taken away.                                    *)
Grown ==
    /\ DOMAIN db \subseteq DOMAIN db' /\ indexes \subseteq indexes'
    /\ \A t \in DOMAIN db : db[t].wide => db'[t].wide
    /\ \A t \in DOMAIN db \cap DOMAIN Moved :
          db[t].cols \cap Moved[t] \subseteq db'[t].cols
    /\ \A s \in Sources : DOMAIN lakes[s] # {} => DOMAIN lakes'[s] # {}
    /\ \A s \in Sources : LakeBars(s) \subseteq LakeBars(s)'
    /\ oldLake' = oldLake

LEMMA DoneStays ==
    ASSUME Grown, NEW k \in 1..Len(Program), Done(Program[k])
    PROVE  Done(Program[k])'
<1> DEFINE x == Program[k]
<1>1. x.do = "klines" => x.of \in Sources
  BY ProgramLaws DEF Proper, Plain
<1>2. Cache \in DOMAIN Moved /\ Moved[Cache] = {"engine_preset"}
  BY MovedColumns DEF Cache
<1> HIDE DEF x
<1>3. x.do = "split baostock" => ~NothingSplit'
  BY DEF Grown, Done, NothingSplit, Sources, x
<1>4. x.do = "klines" => DOMAIN lakes'[x.of] # {}
  BY <1>1 DEF Grown, Done, x
<1>5. x.do = "preset" => Cache \in DOMAIN db' /\ "engine_preset" \in db'[Cache].cols
  BY <1>2 DEF Grown, Done, x
<1>6. x.do = "add" =>
          x.of \in DOMAIN db' \cap DOMAIN Moved /\ x.column \in db'[x.of].cols \cap Moved[x.of]
  BY DEF Grown, Done, x
<1>7. /\ x.do = "create" => x.of \in DOMAIN db'
      /\ x.do = "index" => x.of \in indexes'
      /\ x.do \in {"trades", "alerts"} => x.do \in DOMAIN db' /\ db'[x.do].wide
  BY DEF Grown, Done, x
<1> QED
  BY <1>3, <1>4, <1>5, <1>6, <1>7 DEF Done, x

LEMMA PastGrows ==
    ASSUME ControlInv, Past, phase \in {"starting", "up"}, Grown, at' \in Nat,
           \A k \in 1..Len(Program) : k >= at /\ k < at' => Done(Program[k])'
    PROVE  Past'
<1>1. ASSUME NEW k \in 1..Len(Program), k < at' PROVE Done(Program[k])'
  <2>1. CASE k < at
    BY <2>1, DoneStays DEF Past
  <2>2. CASE k >= at
    BY <1>1, <2>2
  <2> QED
    BY <2>1, <2>2 DEF ControlInv
<1> QED
  BY <1>1 DEF Past

LEMMA PastElse ==
    ASSUME phase' \notin {"starting", "up"} \/ at' = 1
    PROVE  Past'
BY DEF Past

LEMMA Needs ==
    ASSUME ControlInv, Past, phase = "starting", at <= Len(Program)
    PROVE  /\ Proper(Now)
           /\ Now.do = "index" => Now.on \in DOMAIN db
           /\ Now.do = "index" /\ Tolerated => Now.column \in db[Now.on].cols \cup {""}
           /\ Now.do = "add" => Now.of \in DOMAIN db
           /\ Now.do \in {"preset", "fill"} => Cache \in DOMAIN db
           /\ Now.do \in {"trades", "alerts"} => Now.do \in DOMAIN db
           /\ Now.do = "user" => "users" \in DOMAIN db
           /\ Now.do \in {"rename", "recreate", "refill"} => DOMAIN lakes[Now.of] # {}
           /\ Now.do \in {"split tdx", "split baostock"} =>
                 \A s \in Sources : DOMAIN lakes[s] # {}
<1> DEFINE x == Now
<1>1. at \in 1..Len(Program)
  BY Long DEF ControlInv
<1>2. ASSUME NEW y, y \in Earlier(Program, at) PROVE Done(y)
  <2>1. PICK j \in 1..(at - 1) : y = Program[j]
    BY <1>2 DEF Earlier
  <2>2. j \in 1..Len(Program) /\ j < at
    BY <1>1, Long
  <2> QED
    BY <2>1, <2>2 DEF Past
<1>3. x = Program[at]
  BY DEF Now
<1>4. Proper(x)
  BY <1>1, <1>3, ProgramLaws
<1>5. ASSUME NEW t, Made(t) \in Earlier(Program, at) PROVE t \in DOMAIN db
  <2>1. Made(t).do = "create" /\ Made(t).of = t
    BY DEF Made, Create
  <2>2. Done(Made(t))
    BY <1>2, <1>5
  <2> QED
    BY <2>1, <2>2 DEF Done
<1>6. ASSUME NEW t, NEW c, Add(t, c) \in Earlier(Program, at) PROVE c \in db[t].cols
  <2>1. Add(t, c).do = "add" /\ Add(t, c).of = t /\ Add(t, c).column = c
    BY DEF Add
  <2>2. Done(Add(t, c))
    BY <1>2, <1>6
  <2> QED
    BY <2>1, <2>2 DEF Done
<1>7. \A s : Lake("klines", s) \in Earlier(Program, at) => DOMAIN lakes[s] # {}
  <2>1. \A s : Lake("klines", s).do = "klines" /\ Lake("klines", s).of = s
    BY DEF Lake
  <2> QED
    BY <1>2, <2>1 DEF Done
<1>8. /\ x.do = "index" => Made(x.on) \in Earlier(Program, at)
      /\ x.do # "index" => Needed(x, TRUE) \subseteq Earlier(Program, at)
      /\ x.do = "index" /\ at > Len(Schema) /\ x.column # "" =>
            Add(x.on, x.column) \in Earlier(Program, at)
  BY <1>1, <1>3, ProgramLaws
<1> HIDE DEF x
<1>9. x.do = "index" => x.on \in DOMAIN db
  BY <1>5, <1>8
<1>10. x.do = "index" /\ Tolerated => x.column \in db[x.on].cols \cup {""}
  BY <1>6, <1>8 DEF Tolerated
<1>11. x.do = "add" => x.of \in DOMAIN db
  <2>1. x.do = "add" => Needed(x, TRUE) = {Made(x.of)}
    BY DEF Needed
  <2> QED
    BY <1>5, <1>8, <2>1
<1>12. x.do \in {"preset", "fill"} => Cache \in DOMAIN db
  <2>1. x.do \in {"preset", "fill"} => Needed(x, TRUE) = {Made(Cache)}
    BY DEF Needed, Cache
  <2> QED
    BY <1>5, <1>8, <2>1
<1>13. x.do \in {"trades", "alerts"} => x.do \in DOMAIN db
  <2>1. x.do \in {"trades", "alerts"} => Needed(x, TRUE) = {Made(x.do)}
    BY DEF Needed
  <2> QED
    BY <1>5, <1>8, <2>1
<1>14. x.do = "user" => "users" \in DOMAIN db
  <2>1. x.do = "user" => Needed(x, TRUE) = {Made("users")}
    BY DEF Needed
  <2> QED
    BY <1>5, <1>8, <2>1
<1>15. x.do \in {"rename", "recreate", "refill"} => DOMAIN lakes[x.of] # {}
  <2>1. x.do \in {"rename", "recreate", "refill"} => Needed(x, TRUE) = {Lake("klines", x.of)}
    BY DEF Needed
  <2> QED
    BY <1>7, <1>8, <2>1
<1>16. x.do \in {"split tdx", "split baostock"} => \A s \in Sources : DOMAIN lakes[s] # {}
  <2>1. x.do \in {"split tdx", "split baostock"} =>
            Needed(x, TRUE) = {Lake("klines", s) : s \in Sources}
    BY DEF Needed
  <2> QED
    BY <1>7, <1>8, <2>1
<1> QED
  BY <1>4, <1>9, <1>10, <1>11, <1>12, <1>13, <1>14, <1>15, <1>16 DEF x

-----------------------------------------------------------------------------
(* What a statement leaves alone.                                          *)

LEMMA StillNow ==
    ASSUME phase # "starting" \/ ~(at <= Len(Program)) \/ Now.do \notin Follow
    PROVE  Still
BY DEF Still, StillLakes, Mid, Due, Follow

LEMMA LakeFrame ==
    ASSUME LakeInv, StillLakes, StillLakes', UNCHANGED <<lakes, marks, oldLake, found>>
    PROVE  LakeInv' /\ \A s \in Sources : LakeBars(s)' = LakeBars(s)
<1>1. \A s : LakeBars(s)' = LakeBars(s)
  BY DEF LakeBars
<1>2. NothingSplit' <=> NothingSplit
  BY <1>1 DEF NothingSplit
<1>3. \A s : ShareOf(s)' = ShareOf(s)
  BY DEF ShareOf
<1>4. ASSUME NEW s \in Sources PROVE Pending(s)' = Pending(s)
  BY <1>2, <1>3 DEF Pending, Still, StillLakes
<1>5. ASSUME NEW s \in Sources PROVE LakeShape(s)'
  BY DEF LakeShape, StillLakes, LakeInv
<1> QED
  BY <1>1, <1>4, <1>5 DEF LakeInv, StillLakes

LEMMA TableFrame ==
    ASSUME TableInv, db' = db, found' = found
    PROVE  TableInv'
BY DEF TableInv

LEMMA PresetFrame ==
    ASSUME PresetInv, Still, db' = db
    PROVE  PresetInv'
BY DEF PresetInv, Still, StillLakes

(* What a statement is for holds after it.                                 *)
DoneHere == \A k \in 1..Len(Program) : k = at => Done(Program[k])'

Starting == StartInv /\ phase = "starting" /\ at <= Len(Program)

(* A statement on tables, of those that do not go together with others.    *)
LEMMA TableStep ==
    ASSUME Starting, Now.do \notin Lead, Now.do \notin Follow,
           at' = at + 1, phase' = phase, UNCHANGED <<lakes, marks, oldLake, found>>,
           DOMAIN db \subseteq DOMAIN db', indexes \subseteq indexes',
           \A t \in DOMAIN db : db[t].wide => db'[t].wide,
           \A t \in DOMAIN db \cap DOMAIN Moved : db[t].cols \cap Moved[t] \subseteq db'[t].cols,
           DoneHere, TableInv',
           Cache \in DOMAIN db' /\ "engine_preset" \in db'[Cache].cols =>
               db'[Cache].filled = db'[Cache].rows
    PROVE  StartInv'
<1>1. Still
  BY StillNow
<1>2. Still' /\ ControlInv'
  BY StillAfter DEF Starting, StartInv
<1>3. LakeInv' /\ \A s \in Sources : LakeBars(s)' = LakeBars(s)
  BY <1>1, <1>2, LakeFrame DEF Starting, StartInv, Still
<1>4. PresetInv'
  BY DEF PresetInv
<1>5. Grown
  BY <1>3 DEF Grown
<1>6. at \in Nat /\ at' \in Nat /\ \A k \in 1..Len(Program) : k >= at /\ k < at' => k = at
  BY Long DEF Starting, StartInv, ControlInv
<1>7. Past'
  BY <1>5, <1>6, PastGrows DEF Starting, StartInv, DoneHere
<1> QED
  BY <1>2, <1>3, <1>4, <1>7 DEF StartInv

LEMMA Place ==
    ASSUME Starting
    PROVE  at \in 1..Len(Program) /\ Now = Program[at] /\ Len(Program) \in Nat
BY Long DEF Starting, StartInv, ControlInv, Now

LEMMA OneStep ==
    ASSUME Starting, at' = at + 1
    PROVE  at' \in Nat /\ \A k \in 1..Len(Program) : k >= at /\ k < at' => k = at
BY Place

LEMMA TwoSteps ==
    ASSUME Starting, at' = at + 2
    PROVE  at' \in Nat /\ \A k \in 1..Len(Program) : k >= at /\ k < at' => k = at \/ k = at + 1
BY Place

LEMMA WithValues ==
    ASSUME NEW f, NEW x, NEW y
    PROVE  /\ DOMAIN With(f, x, y) = DOMAIN f \cup {x} /\ With(f, x, y)[x] = y
           /\ \A z \in DOMAIN f : z # x => With(f, x, y)[z] = f[z]
BY DEF With

LEMMA NewTables ==
    ASSUME NEW t \in Tables, NEW refs, refs \subseteq Tables \ {"trades", "alerts"}
    PROVE  /\ NewTable(t, refs) \in FoundTables /\ NewTable(t, refs).wide
           /\ NewTable(t, refs).rows = {} /\ NewTable(t, refs).filled = {}
           /\ t \in {"trades", "alerts"} => NewTable(t, refs).cols = Moved[t]
<1> DEFINE c == IF t \in DOMAIN Moved \ {"watchlist_items"} THEN Moved[t] ELSE {}
<1>1. NewTable(t, refs) = [refs |-> refs, cols |-> c, wide |-> TRUE, rows |-> {}, filled |-> {}]
  BY DEF NewTable
<1>2. c \subseteq Columns
  BY TablesThere
<1>3. t \in {"trades", "alerts"} => c = Moved[t]
  BY MovedColumns
<1> HIDE DEF c
<1> QED
  BY <1>1, <1>2, <1>3 DEF FoundTables

LEMMA CreateTableInv ==
    ASSUME StartInv, CreateTable
    PROVE  StartInv'
<1>1. /\ Starting /\ Now.do = "create" /\ at' = at + 1 /\ phase' = phase
      /\ UNCHANGED <<indexes, lakes, marks, oldLake, found>>
      /\ db' = IF Now.of \in DOMAIN db THEN db ELSE With(db, Now.of, NewTable(Now.of, Now.refs))
  BY DEF CreateTable, Due, Go, Starting
<1>2. at \in 1..Len(Program) /\ Now = Program[at]
  BY <1>1, Place
<1>3. Now.of \in Tables /\ Now.refs \subseteq Tables \ {"trades", "alerts"}
  BY <1>1, <1>2, TablesThere, ProgramLaws DEF Proper, Plain
<1>4. Now.do \notin Lead /\ Now.do \notin Follow
  BY <1>1 DEF Lead, Follow
<1> DEFINE n == NewTable(Now.of, Now.refs)
<1>5. n \in FoundTables /\ n.wide /\ n.rows = {} /\ n.filled = {}
  BY <1>3, NewTables
<1> HIDE DEF n
<1>6. /\ DOMAIN db' = DOMAIN db \cup {Now.of}
      /\ \A t \in DOMAIN db : db'[t] = db[t]
      /\ Now.of \notin DOMAIN db => db'[Now.of] = n
  <2>1. CASE Now.of \in DOMAIN db
    BY <1>1, <2>1
  <2>2. CASE Now.of \notin DOMAIN db
    <3>1. db' = With(db, Now.of, n)
      BY <1>1, <2>2 DEF n
    <3>2. /\ DOMAIN With(db, Now.of, n) = DOMAIN db \cup {Now.of}
          /\ With(db, Now.of, n)[Now.of] = n
          /\ \A z \in DOMAIN db : z # Now.of => With(db, Now.of, n)[z] = db[z]
      BY DEF With
    <3>3. \A z \in DOMAIN db : z # Now.of
      BY <2>2
    <3> QED
      BY <3>1, <3>2, <3>3
  <2> QED
    BY <2>1, <2>2
<1>7. TableInv'
  BY <1>1, <1>3, <1>5, <1>6 DEF Starting, StartInv, TableInv
<1>8. DoneHere
  BY <1>1, <1>2, <1>6 DEF DoneHere, Done
<1>9. Cache \in DOMAIN db' /\ "engine_preset" \in db'[Cache].cols =>
          db'[Cache].filled = db'[Cache].rows
  <2>1. ~Due("fill")
    BY <1>1 DEF Due
  <2>2. CASE Cache \in DOMAIN db
    BY <1>1, <1>6, <2>1, <2>2 DEF Starting, StartInv, PresetInv
  <2>3. CASE Cache \notin DOMAIN db
    BY <1>5, <1>6, <2>3
  <2> QED
    BY <2>2, <2>3
<1>10. /\ DOMAIN db \subseteq DOMAIN db' /\ indexes \subseteq indexes'
       /\ \A t \in DOMAIN db : db[t].wide => db'[t].wide
       /\ \A t \in DOMAIN db \cap DOMAIN Moved : db[t].cols \cap Moved[t] \subseteq db'[t].cols
  BY <1>1, <1>6
<1> QED
  BY <1>1, <1>4, <1>7, <1>8, <1>9, <1>10, TableStep

LEMMA CreateIndexInv ==
    ASSUME StartInv, CreateIndex
    PROVE  StartInv'
<1> DEFINE possible == Now.column \in db[Now.on].cols \cup {""}
<1>1. /\ Starting /\ Now.do = "index" /\ at' = at + 1
      /\ UNCHANGED <<db, lakes, marks, oldLake, found>>
      /\ indexes' = IF possible THEN indexes \cup {Now.of} ELSE indexes
      /\ phase' = IF possible \/ Tolerated THEN phase ELSE "failed"
  BY DEF CreateIndex, Due, Go, Starting
<1>2. at \in 1..Len(Program) /\ Now = Program[at] /\ Len(Program) \in Nat
  BY <1>1, Place
<1>3. Now.do \notin Lead /\ Now.do \notin Follow
  BY <1>1 DEF Lead, Follow
<1>4. TableInv'
  BY <1>1, TableFrame DEF StartInv
<1>5. Tolerated => possible
  BY <1>1, Needs DEF Starting, StartInv
<1>6. ~Due("fill")
  BY <1>1 DEF Due
<1>7. Cache \in DOMAIN db' /\ "engine_preset" \in db'[Cache].cols =>
          db'[Cache].filled = db'[Cache].rows
  BY <1>1, <1>6 DEF StartInv, PresetInv
<1> HIDE DEF possible
<1>8. CASE possible
  <2>1. DoneHere
    BY <1>1, <1>2, <1>8 DEF DoneHere, Done
  <2> QED
    BY <1>1, <1>3, <1>4, <1>7, <1>8, <2>1, TableStep
<1>9. CASE ~possible
  <2>1. phase' = "failed"
    BY <1>1, <1>5, <1>9
  <2>2. Still /\ Still'
    BY <1>3, <2>1, StillNow, StillElse
  <2>3. LakeInv'
    BY <1>1, <2>2, LakeFrame DEF StartInv, Still
  <2>4. ControlInv'
    BY <1>1, <1>2, <2>1 DEF ControlInv
  <2>5. PresetInv'
    BY <1>7 DEF PresetInv
  <2>6. Past'
    BY <2>1, PastElse
  <2> QED
    BY <1>4, <2>3, <2>4, <2>5, <2>6 DEF StartInv
<1> QED
  BY <1>8, <1>9

LEMMA AddColumnInv ==
    ASSUME StartInv, AddColumn
    PROVE  StartInv'
<1>1. /\ Starting /\ Now.do = "add" /\ at' = at + 1 /\ phase' = phase
      /\ UNCHANGED <<indexes, lakes, marks, oldLake, found>>
      /\ db' = [db EXCEPT ![Now.of].cols = @ \cup {Now.column}]
  BY DEF AddColumn, Due, Go, Starting
<1>2. at \in 1..Len(Program) /\ Now = Program[at]
  BY <1>1, Place
<1>3. /\ Now.of \in DOMAIN Moved /\ Now.column \in Moved[Now.of] /\ Now.of # Cache
      /\ Now.of \in DOMAIN db
  BY <1>1, <1>2, ProgramLaws, Needs DEF Proper, Plain, Cache, Starting, StartInv
<1>4. Now.do \notin Lead /\ Now.do \notin Follow
  BY <1>1 DEF Lead, Follow
<1> DEFINE r == db[Now.of]
           n == [r EXCEPT !.cols = r.cols \cup {Now.column}]
<1>5. r \in FoundTables /\ DOMAIN found.rows \subseteq DOMAIN db
  BY <1>3 DEF StartInv, TableInv
<1>6. n \in FoundTables /\ n.cols = r.cols \cup {Now.column} /\ n.wide = r.wide /\ n.rows = r.rows
  <2>1. Now.column \in Columns
    BY <1>3, TablesThere
  <2> HIDE DEF r
  <2> QED
    BY <1>5, <2>1, ZenonT(60) DEF FoundTables
<1>7. /\ DOMAIN db' = DOMAIN db /\ db'[Now.of] = n
      /\ \A t \in DOMAIN db : t # Now.of => db'[t] = db[t]
  BY <1>1, <1>3
<1> HIDE DEF n
<1>8. TableInv'
  <2>1. \A t \in DOMAIN db : /\ db'[t] \in FoundTables /\ db'[t].rows = db[t].rows
                             /\ db'[t].wide = db[t].wide
    BY <1>5, <1>6, <1>7 DEF StartInv, TableInv
  <2> QED
    BY <1>1, <1>5, <1>7, <2>1 DEF StartInv, TableInv
<1>9. DoneHere
  BY <1>1, <1>2, <1>3, <1>6, <1>7 DEF DoneHere, Done
<1>10. Cache \in DOMAIN db' /\ "engine_preset" \in db'[Cache].cols =>
           db'[Cache].filled = db'[Cache].rows
  <2>1. ~Due("fill")
    BY <1>1 DEF Due
  <2> QED
    BY <1>3, <1>7, <2>1 DEF StartInv, PresetInv
<1>11. /\ DOMAIN db \subseteq DOMAIN db' /\ indexes \subseteq indexes'
       /\ \A t \in DOMAIN db : db[t].wide => db'[t].wide
       /\ \A t \in DOMAIN db \cap DOMAIN Moved : db[t].cols \cap Moved[t] \subseteq db'[t].cols
  BY <1>1, <1>6, <1>7
<1> QED
  BY <1>1, <1>4, <1>8, <1>9, <1>10, <1>11, TableStep

(* A row keeps its type when one of its fields is set.                     *)
LEMMA Fields ==
    ASSUME NEW r \in FoundTables
    PROVE  /\ \A c \in SUBSET Columns :
                 LET n == [r EXCEPT !.cols = c]
                 IN  n \in FoundTables /\ n.cols = c /\ n.wide = r.wide /\ n.rows = r.rows
                     /\ n.filled = r.filled
           /\ \A f \in SUBSET Rows :
                 LET n == [r EXCEPT !.filled = f]
                 IN  n \in FoundTables /\ n.cols = r.cols /\ n.wide = r.wide /\ n.rows = r.rows
                     /\ n.filled = f
           /\ \A w \in SUBSET (Rows \cup {"dev"}) :
                 LET n == [r EXCEPT !.rows = w]
                 IN  n \in FoundTables /\ n.cols = r.cols /\ n.wide = r.wide /\ n.rows = w
                     /\ n.filled = r.filled
<1>1. ASSUME NEW c \in SUBSET Columns
      PROVE  LET n == [r EXCEPT !.cols = c]
             IN  n \in FoundTables /\ n.cols = c /\ n.wide = r.wide /\ n.rows = r.rows
                 /\ n.filled = r.filled
  BY ZenonT(60) DEF FoundTables
<1>2. ASSUME NEW f \in SUBSET Rows
      PROVE  LET n == [r EXCEPT !.filled = f]
             IN  n \in FoundTables /\ n.cols = r.cols /\ n.wide = r.wide /\ n.rows = r.rows
                 /\ n.filled = f
  BY ZenonT(60) DEF FoundTables
<1>3. ASSUME NEW w \in SUBSET (Rows \cup {"dev"})
      PROVE  LET n == [r EXCEPT !.rows = w]
             IN  n \in FoundTables /\ n.cols = r.cols /\ n.wide = r.wide /\ n.rows = w
                 /\ n.filled = r.filled
  BY ZenonT(60) DEF FoundTables
<1> QED
  BY <1>1, <1>2, <1>3

LEMMA AddPresetInv ==
    ASSUME StartInv, AddPreset
    PROVE  StartInv'
<1>1. /\ Starting /\ Now.do = "preset" /\ phase' = phase
      /\ UNCHANGED <<indexes, lakes, marks, oldLake, found>>
      /\ db' = [db EXCEPT ![Cache].cols = @ \cup {"engine_preset"}]
      /\ at' = at + (IF "engine_preset" \in db[Cache].cols THEN 2 ELSE 1)
  BY DEF AddPreset, Due, Go, Starting, Cache
<1>2. at \in 1..Len(Program) /\ Now = Program[at] /\ Len(Program) \in Nat
  BY <1>1, Place
<1>3. Cache \in DOMAIN db
  BY <1>1, Needs DEF Starting, StartInv
<1> DEFINE r == db[Cache]
           n == [r EXCEPT !.cols = r.cols \cup {"engine_preset"}]
<1>4. r \in FoundTables /\ DOMAIN found.rows \subseteq DOMAIN db
  BY <1>3 DEF StartInv, TableInv
<1>5. /\ n \in FoundTables /\ n.cols = r.cols \cup {"engine_preset"} /\ n.wide = r.wide
      /\ n.rows = r.rows /\ n.filled = r.filled
  <2>1. Moved[Cache] = {"engine_preset"} /\ Cache \in DOMAIN Moved
    BY MovedColumns DEF Cache
  <2>2. r.cols \cup {"engine_preset"} \in SUBSET Columns
    BY <1>4, <2>1, TablesThere DEF FoundTables
  <2> HIDE DEF r
  <2> QED
    BY <1>4, <2>2, Fields
<1>6. /\ DOMAIN db' = DOMAIN db /\ db'[Cache] = n
      /\ \A t \in DOMAIN db : t # Cache => db'[t] = db[t]
  BY <1>1, <1>3
<1> HIDE DEF n
<1>7. TableInv'
  <2>1. \A t \in DOMAIN db : /\ db'[t] \in FoundTables /\ db'[t].rows = db[t].rows
                             /\ db'[t].wide = db[t].wide
    BY <1>4, <1>5, <1>6 DEF StartInv, TableInv
  <2> QED
    BY <1>1, <1>4, <1>6, <2>1 DEF StartInv, TableInv
<1>8. \A t \in DOMAIN db : db[t].cols \subseteq db'[t].cols /\ db'[t].wide = db[t].wide
  BY <1>5, <1>6
<1>9. StillLakes
  BY <1>1 DEF StillLakes, Mid, Due
<1>10. CASE "engine_preset" \in db[Cache].cols
  <2>1. at' = at + 2 /\ Skipping
    BY <1>1, <1>10 DEF Skipping
  <2>2. ControlInv' /\ Still' /\ Program[at + 1].do = "fill"
    BY <1>1, <2>1, SkipsOne DEF Starting, StartInv
  <2>3. LakeInv' /\ \A s \in Sources : LakeBars(s)' = LakeBars(s)
    BY <1>1, <1>9, <2>2, LakeFrame DEF StartInv, Still
  <2>4. PresetInv'
    <3>1. ~Due("fill")
      BY <1>1 DEF Due
    <3>2. r.filled = r.rows
      BY <1>3, <1>10, <3>1 DEF StartInv, PresetInv
    <3> QED
      BY <1>5, <1>6, <3>2 DEF PresetInv
  <2>5. Grown
    BY <1>1, <1>6, <1>8, <2>3 DEF Grown
  <2>6. ASSUME NEW k \in 1..Len(Program), k >= at, k < at' PROVE Done(Program[k])'
    <3>1. k = at \/ k = at + 1
      BY <1>2, <2>1, <2>6
    <3>2. CASE k = at
      BY <1>1, <1>2, <1>3, <1>5, <1>6, <3>2 DEF Done
    <3>3. CASE k = at + 1
      BY <2>2, <3>3 DEF Done
    <3> QED
      BY <3>1, <3>2, <3>3
  <2>7. Past'
    BY <1>1, <1>2, <2>1, <2>5, <2>6, PastGrows DEF Starting, StartInv
  <2> QED
    BY <1>7, <2>2, <2>3, <2>4, <2>7 DEF StartInv
<1>11. CASE "engine_preset" \notin db[Cache].cols
  <2>1. at' = at + 1
    BY <1>1, <1>11
  <2>2. ControlInv' /\ StillLakes' /\ Due("fill")'
    <3>1. /\ ControlInv' /\ Due("fill")' /\ ~Due("split baostock")'
          /\ \A s \in Sources : ~Mid("recreate", s)' /\ ~Mid("refill", s)'
      BY <1>1, <2>1, OneOn DEF Starting, StartInv
    <3> QED
      BY <3>1 DEF StillLakes
  <2>3. LakeInv' /\ \A s \in Sources : LakeBars(s)' = LakeBars(s)
    BY <1>1, <1>9, <2>2, LakeFrame DEF StartInv
  <2>4. PresetInv'
    BY <2>2 DEF PresetInv
  <2>5. Grown
    BY <1>1, <1>6, <1>8, <2>3 DEF Grown
  <2>6. ASSUME NEW k \in 1..Len(Program), k >= at, k < at' PROVE Done(Program[k])'
    <3>1. k = at
      BY <1>2, <2>1, <2>6
    <3> QED
      BY <1>1, <1>2, <1>3, <1>5, <1>6, <3>1 DEF Done
  <2>7. Past'
    BY <1>1, <1>2, <2>1, <2>5, <2>6, PastGrows DEF Starting, StartInv
  <2> QED
    BY <1>7, <2>2, <2>3, <2>4, <2>7 DEF StartInv
<1> QED
  BY <1>10, <1>11

LEMMA FillPresetInv ==
    ASSUME StartInv, FillPreset
    PROVE  StartInv'
<1>1. /\ Starting /\ Now.do = "fill" /\ phase' = phase /\ at' = at + 1
      /\ UNCHANGED <<indexes, lakes, marks, oldLake, found>>
      /\ db' = [db EXCEPT ![Cache].filled = db[Cache].rows]
  BY DEF FillPreset, Due, Go, Starting, Cache
<1>2. at \in 1..Len(Program) /\ Now = Program[at] /\ Len(Program) \in Nat
  BY <1>1, Place
<1>3. Cache \in DOMAIN db
  BY <1>1, Needs DEF Starting, StartInv
<1> DEFINE r == db[Cache]
           n == [r EXCEPT !.filled = r.rows]
<1>4. r \in FoundTables /\ DOMAIN found.rows \subseteq DOMAIN db /\ r.rows \in SUBSET Rows
  BY <1>3 DEF StartInv, TableInv
<1>5. n \in FoundTables /\ n.cols = r.cols /\ n.wide = r.wide /\ n.rows = r.rows /\ n.filled = r.rows
  <2> HIDE DEF r
  <2> QED
    BY <1>4, Fields
<1>6. /\ DOMAIN db' = DOMAIN db /\ db'[Cache] = n
      /\ \A t \in DOMAIN db : t # Cache => db'[t] = db[t]
  BY <1>1, <1>3
<1> HIDE DEF n
<1>7. TableInv'
  <2>1. \A t \in DOMAIN db : /\ db'[t] \in FoundTables /\ db'[t].rows = db[t].rows
                             /\ db'[t].wide = db[t].wide
    BY <1>4, <1>5, <1>6 DEF StartInv, TableInv
  <2> QED
    BY <1>1, <1>4, <1>6, <2>1 DEF StartInv, TableInv
<1>8. \A t \in DOMAIN db : db[t].cols \subseteq db'[t].cols /\ db'[t].wide = db[t].wide
  BY <1>5, <1>6
<1>9. StillLakes
  BY <1>1 DEF StillLakes, Mid, Due
<1>10. ControlInv' /\ Still'
  <2>1. Now.do \notin Lead
    BY <1>1 DEF Lead
  <2> QED
    BY <1>1, <2>1, StillAfter DEF Starting, StartInv
<1>11. LakeInv' /\ \A s \in Sources : LakeBars(s)' = LakeBars(s)
  BY <1>1, <1>9, <1>10, LakeFrame DEF StartInv, Still
<1>12. PresetInv'
  BY <1>5, <1>6 DEF PresetInv
<1>13. Grown
  BY <1>1, <1>6, <1>8, <1>11 DEF Grown
<1>14. ASSUME NEW k \in 1..Len(Program), k >= at, k < at' PROVE Done(Program[k])'
  <2>1. k = at
    BY <1>1, <1>2, <1>14
  <2> QED
    BY <1>1, <1>2, <2>1 DEF Done
<1>15. Past'
  BY <1>1, <1>2, <1>13, <1>14, PastGrows DEF Starting, StartInv
<1> QED
  BY <1>7, <1>10, <1>11, <1>12, <1>15 DEF StartInv

LEMMA RebuiltTables ==
    ASSUME TableInv, NEW t \in {"trades", "alerts"}, t \in DOMAIN db
    PROVE  LET d == Rebuilt(db, t)
           IN  /\ DOMAIN d = DOMAIN db /\ \A u \in DOMAIN db : u # t => d[u] = db[u]
               /\ d[t] \in FoundTables /\ d[t].rows = db[t].rows /\ d[t].wide
               /\ d[t].cols = Moved[t]
<1> DEFINE old == t \o "_old"
           e == Renamed(db, t, old)
           m == NewTable(t, User)
           n == [m EXCEPT !.rows = db[t].rows]
<1>1. DOMAIN e = DOMAIN db \ {t}
  BY DEF Renamed
<1>2. ASSUME NEW u \in DOMAIN db, u # t PROVE e[u] = db[u]
  <2>1. db[u] \in FoundTables /\ t \notin db[u].refs
    BY DEF TableInv, FoundTables
  <2>2. e[u] = [db[u] EXCEPT !.refs = IF t \in db[u].refs
                                      THEN (db[u].refs \ {t}) \cup {old} ELSE db[u].refs]
    BY <1>2 DEF Renamed
  <2>3. e[u] = [db[u] EXCEPT !.refs = db[u].refs]
    BY <2>1, <2>2
  <2> QED
    BY <2>1, <2>3 DEF FoundTables
<1>3. m \in FoundTables /\ m.wide /\ m.cols = Moved[t]
  <2>1. t \in Tables /\ User \subseteq Tables \ {"trades", "alerts"}
    BY TablesThere DEF TableInv
  <2> QED
    BY <2>1, NewTables
<1>4. db[t].rows \in SUBSET (Rows \cup {"dev"})
  BY DEF TableInv, FoundTables
<1> HIDE DEF m, e
<1>5. n \in FoundTables /\ n.wide = m.wide /\ n.cols = m.cols /\ n.rows = db[t].rows
  <2>1. ASSUME NEW w \in SUBSET (Rows \cup {"dev"})
        PROVE  LET k == [m EXCEPT !.rows = w]
               IN  k \in FoundTables /\ k.cols = m.cols /\ k.wide = m.wide /\ k.rows = w
    <3>1. m \in FoundTables
      BY <1>3
    <3> QED
      BY ONLY <3>1, <2>1, Fields
  <2> QED
    BY <1>4, <2>1
<1> HIDE DEF n
<1>6. Rebuilt(db, t) = With(e, t, n)
  BY DEF Rebuilt, e, m, n
<1>7. /\ DOMAIN With(e, t, n) = (DOMAIN db \ {t}) \cup {t} /\ With(e, t, n)[t] = n
      /\ \A u \in DOMAIN db : u # t => With(e, t, n)[u] = db[u]
  BY <1>1, <1>2 DEF With
<1>8. (DOMAIN db \ {t}) \cup {t} = DOMAIN db
  OBVIOUS
<1> QED
  BY <1>3, <1>5, <1>6, <1>7, <1>8

LEMMA RebuildInv ==
    ASSUME StartInv, NEW t \in {"trades", "alerts"}, Rebuild(t)
    PROVE  StartInv'
<1>1. /\ Starting /\ Now.do = t /\ phase' = phase /\ at' = at + 1
      /\ UNCHANGED <<lakes, marks, oldLake, found>>
      /\ \/ db[t].wide /\ UNCHANGED <<db, indexes>>
         \/ db' = Rebuilt(db, t) /\ indexes' = (indexes \ IndexesOf(t)) \cup IndexesOf(t)
  BY DEF Rebuild, Due, Go, Starting, Remade
<1>2. at \in 1..Len(Program) /\ Now = Program[at] /\ Len(Program) \in Nat
  BY <1>1, Place
<1>3. t \in DOMAIN db
  BY <1>1, Needs DEF Starting, StartInv
<1>4. Now.do \notin Lead /\ Now.do \notin Follow
  BY <1>1 DEF Lead, Follow
<1>5. /\ DOMAIN db' = DOMAIN db /\ \A u \in DOMAIN db : u # t => db'[u] = db[u]
      /\ db'[t] \in FoundTables /\ db'[t].rows = db[t].rows /\ db'[t].wide
      /\ db[t].cols \cap Moved[t] \subseteq db'[t].cols
  <2>1. CASE db' = Rebuilt(db, t)
    BY <1>3, <2>1, RebuiltTables DEF StartInv
  <2>2. CASE db' = db /\ db[t].wide
    BY <1>3, <2>2 DEF StartInv, TableInv
  <2> QED
    BY <1>1, <2>1, <2>2
<1>6. indexes \subseteq indexes'
  BY <1>1
<1>7. DOMAIN found.rows \subseteq DOMAIN db
  BY DEF StartInv, TableInv
<1>8. \A u \in DOMAIN db : /\ db'[u] \in FoundTables /\ db'[u].rows = db[u].rows
                           /\ db[u].wide => db'[u].wide
  BY <1>5 DEF StartInv, TableInv
<1>9. TableInv'
  BY <1>1, <1>5, <1>7, <1>8 DEF StartInv, TableInv
<1>10. DoneHere
  BY <1>1, <1>2, <1>3, <1>5 DEF DoneHere, Done
<1>11. Cache \in DOMAIN db' /\ "engine_preset" \in db'[Cache].cols =>
           db'[Cache].filled = db'[Cache].rows
  <2>1. ~Due("fill")
    BY <1>1 DEF Due
  <2>2. t # Cache
    BY DEF Cache
  <2> QED
    BY <1>5, <2>1, <2>2 DEF StartInv, PresetInv
<1>12. \A u \in DOMAIN db \cap DOMAIN Moved : db[u].cols \cap Moved[u] \subseteq db'[u].cols
  BY <1>5
<1> QED
  BY <1>1, <1>4, <1>5, <1>6, <1>8, <1>9, <1>10, <1>11, <1>12, TableStep

LEMMA DefaultUserInv ==
    ASSUME StartInv, DefaultUser
    PROVE  StartInv'
<1>1. /\ Starting /\ Now.do = "user" /\ phase' = phase /\ at' = at + 1
      /\ UNCHANGED <<indexes, lakes, marks, oldLake, found>>
      /\ db' = [db EXCEPT !["users"].rows = @ \cup {"dev"}]
  BY DEF DefaultUser, Due, Go, Starting
<1>2. at \in 1..Len(Program) /\ Now = Program[at] /\ Len(Program) \in Nat
  BY <1>1, Place
<1>3. "users" \in DOMAIN db
  BY <1>1, Needs DEF Starting, StartInv
<1>4. Now.do \notin Lead /\ Now.do \notin Follow
  BY <1>1 DEF Lead, Follow
<1> DEFINE r == db["users"]
           n == [r EXCEPT !.rows = r.rows \cup {"dev"}]
<1>5. r \in FoundTables /\ DOMAIN found.rows \subseteq DOMAIN db
  BY <1>3 DEF StartInv, TableInv
<1>6. /\ n \in FoundTables /\ n.cols = r.cols /\ n.wide = r.wide /\ n.rows = r.rows \cup {"dev"}
      /\ n.filled = r.filled
  <2>1. r.rows \cup {"dev"} \in SUBSET (Rows \cup {"dev"})
    BY <1>5 DEF FoundTables
  <2> HIDE DEF r
  <2> QED
    BY <1>5, <2>1, Fields
<1>7. /\ DOMAIN db' = DOMAIN db /\ db'["users"] = n
      /\ \A t \in DOMAIN db : t # "users" => db'[t] = db[t]
  BY <1>1, <1>3
<1> HIDE DEF n
<1>8. \A t \in DOMAIN db : /\ db'[t] \in FoundTables /\ db[t].rows \subseteq db'[t].rows
                           /\ db'[t].wide = db[t].wide /\ db'[t].cols = db[t].cols
  BY <1>5, <1>6, <1>7 DEF StartInv, TableInv
<1>9. Cache # "users"
  BY DEF Cache
<1>10. TableInv'
  BY <1>1, <1>5, <1>7, <1>8, <1>9 DEF StartInv, TableInv
<1>11. DoneHere
  BY <1>1, <1>2 DEF DoneHere, Done
<1>12. Cache \in DOMAIN db' /\ "engine_preset" \in db'[Cache].cols =>
           db'[Cache].filled = db'[Cache].rows
  <2>1. ~Due("fill")
    BY <1>1 DEF Due
  <2> QED
    BY <1>7, <1>9, <2>1 DEF StartInv, PresetInv
<1> QED
  BY <1>1, <1>4, <1>7, <1>8, <1>10, <1>11, <1>12, TableStep

-----------------------------------------------------------------------------
(* Statements on lakes.                                                    *)

BarsOf(lake) == UNION {lake[n].rows : n \in DOMAIN lake}

LEMMA LakesRemade ==
    ASSUME NEW lake
    PROVE  LET fresh == [rows |-> {}, wide |-> TRUE]
               moved == With(Without(lake, "klines"), "klines_old", lake["klines"])
               both == With(lake, "klines", fresh)
               filled == With(Without(lake, "klines_old"), "klines",
                              [rows |-> lake["klines_old"].rows, wide |-> TRUE])
           IN  /\ DOMAIN lake = {} =>
                     DOMAIN both = {"klines"} /\ BarsOf(both) = BarsOf(lake)
               /\ DOMAIN lake = {"klines"} =>
                     DOMAIN moved = {"klines_old"} /\ BarsOf(moved) = BarsOf(lake)
               /\ DOMAIN lake = {"klines_old"} =>
                     /\ DOMAIN both = {"klines", "klines_old"} /\ both["klines"].rows = {}
                     /\ BarsOf(both) = BarsOf(lake)
               /\ DOMAIN lake = {"klines", "klines_old"} /\ lake["klines"].rows = {} =>
                     DOMAIN filled = {"klines"} /\ BarsOf(filled) = BarsOf(lake)
<1> DEFINE fresh == [rows |-> {}, wide |-> TRUE]
           moved == With(Without(lake, "klines"), "klines_old", lake["klines"])
           both == With(lake, "klines", fresh)
           copy == [rows |-> lake["klines_old"].rows, wide |-> TRUE]
           filled == With(Without(lake, "klines_old"), "klines", copy)
<1>1. fresh.rows = {} /\ copy.rows = lake["klines_old"].rows
  OBVIOUS
<1> HIDE DEF fresh, copy
<1>2. DOMAIN both = DOMAIN lake \cup {"klines"} /\ both["klines"] = fresh
      /\ \A n \in DOMAIN lake : n # "klines" => both[n] = lake[n]
  BY DEF With
<1>3. /\ DOMAIN moved = (DOMAIN lake \ {"klines"}) \cup {"klines_old"}
      /\ moved["klines_old"] = lake["klines"]
  BY DEF With, Without
<1>4. /\ DOMAIN filled = (DOMAIN lake \ {"klines_old"}) \cup {"klines"}
      /\ filled["klines"] = copy
  BY DEF With, Without
<1> HIDE DEF moved, both, filled
<1>5. ASSUME DOMAIN lake = {}
      PROVE  DOMAIN both = {"klines"} /\ BarsOf(both) = BarsOf(lake)
  BY <1>1, <1>2, <1>5 DEF BarsOf
<1>6. ASSUME DOMAIN lake = {"klines"}
      PROVE  DOMAIN moved = {"klines_old"} /\ BarsOf(moved) = BarsOf(lake)
  <2>1. DOMAIN moved = {"klines_old"}
    BY <1>3, <1>6
  <2> QED
    BY <1>3, <1>6, <2>1 DEF BarsOf
<1>7. ASSUME DOMAIN lake = {"klines_old"}
      PROVE  /\ DOMAIN both = {"klines", "klines_old"} /\ both["klines"].rows = {}
             /\ BarsOf(both) = BarsOf(lake)
  <2>1. DOMAIN both = {"klines", "klines_old"} /\ both["klines_old"] = lake["klines_old"]
    BY <1>2, <1>7
  <2> QED
    BY <1>1, <1>2, <1>7, <2>1 DEF BarsOf
<1>8. ASSUME DOMAIN lake = {"klines", "klines_old"} /\ lake["klines"].rows = {}
      PROVE  DOMAIN filled = {"klines"} /\ BarsOf(filled) = BarsOf(lake)
  <2>1. DOMAIN filled = {"klines"}
    BY <1>4, <1>8
  <2> QED
    BY <1>1, <1>4, <1>8, <2>1 DEF BarsOf
<1> QED
  BY <1>5, <1>6, <1>7, <1>8 DEF moved, both, filled, fresh, copy

(* A step that keeps the bars of every lake, outside of the split.         *)
LEMMA LakeStep ==
    ASSUME LakeInv, ~Due("split baostock"), ~Due("split baostock")',
           DOMAIN lakes' = Sources, UNCHANGED <<marks, oldLake, found>>,
           \A s \in Sources : LakeBars(s)' = LakeBars(s), \A s \in Sources : LakeShape(s)'
    PROVE  LakeInv'
<1>1. NothingSplit' <=> NothingSplit
  BY DEF NothingSplit, Sources
<1>2. \A s : ShareOf(s)' = ShareOf(s)
  BY DEF ShareOf
<1>3. ASSUME NEW s \in Sources PROVE Pending(s)' = Pending(s)
  BY <1>1, <1>2 DEF Pending
<1> QED
  BY <1>3 DEF LakeInv

(* What a step on lakes leaves alone.                                      *)
LEMMA LakeElse ==
    ASSUME Starting, UNCHANGED <<db, indexes, oldLake, found>>, phase' = phase, at' \in Nat,
           ControlInv', LakeInv',
           Now.do # "fill", \A s \in Sources : DOMAIN lakes[s] # {} => DOMAIN lakes'[s] # {},
           \A s \in Sources : LakeBars(s) \subseteq LakeBars(s)',
           \A k \in 1..Len(Program) : k >= at /\ k < at' => Done(Program[k])'
    PROVE  StartInv'
<1>1. TableInv'
  BY TableFrame DEF Starting, StartInv
<1>2. PresetInv'
  BY DEF PresetInv, Starting, StartInv, Due
<1>3. Grown
  BY DEF Grown, Starting, StartInv
<1>4. Past'
  BY <1>3, PastGrows DEF Starting, StartInv
<1> QED
  BY <1>1, <1>2, <1>4 DEF StartInv

LEMMA CreateKlinesInv ==
    ASSUME StartInv, CreateKlines
    PROVE  StartInv'
<1> DEFINE s0 == Now.of
           lake == lakes[s0]
           fresh == [rows |-> {}, wide |-> TRUE]
           new == IF "klines" \in DOMAIN lake THEN lake ELSE With(lake, "klines", fresh)
<1>1. /\ Starting /\ Now.do = "klines" /\ phase' = phase /\ at' = at + 1
      /\ UNCHANGED <<db, indexes, marks, oldLake, found>>
      /\ lakes' = [lakes EXCEPT ![s0] = new]
  BY DEF CreateKlines, Due, Go, Starting, SetLake
<1>2. at \in 1..Len(Program) /\ Now = Program[at] /\ Len(Program) \in Nat
  BY <1>1, Place
<1>3. s0 \in Sources
  BY <1>1, <1>2, ProgramLaws DEF Proper, Plain
<1>4. Now.do \notin Lead /\ Now.do \notin Follow
  BY <1>1 DEF Lead, Follow
<1>5. Still
  BY <1>4, StillNow
<1>6. Still' /\ ControlInv'
  BY <1>1, <1>4, StillAfter DEF Starting, StartInv
<1>7. DOMAIN lakes = Sources /\ \A s \in Sources : DOMAIN lakes[s] \subseteq {"klines"}
  BY <1>5 DEF StartInv, LakeInv, LakeShape, Still, StillLakes
<1>8. DOMAIN new = {"klines"} /\ BarsOf(new) = BarsOf(lake)
  <2>1. DOMAIN lake = {} \/ DOMAIN lake = {"klines"}
    BY <1>3, <1>7
  <2> HIDE DEF lake, fresh
  <2>2. CASE DOMAIN lake = {"klines"}
    BY <2>2
  <2>3. CASE DOMAIN lake = {}
    <3>1. new = With(lake, "klines", fresh)
      BY <2>3
    <3> QED
      BY <2>3, <3>1, LakesRemade DEF fresh
  <2> QED
    BY <2>1, <2>2, <2>3
<1> HIDE DEF new
<1>9. /\ DOMAIN lakes' = Sources /\ lakes'[s0] = new
      /\ \A s \in Sources : s # s0 => lakes'[s] = lakes[s]
  BY <1>1, <1>3, <1>7
<1>10. \A s \in Sources : LakeBars(s)' = LakeBars(s) /\ DOMAIN lakes'[s] \subseteq {"klines"}
                          /\ (DOMAIN lakes[s] # {} => DOMAIN lakes'[s] # {})
  BY <1>7, <1>8, <1>9 DEF LakeBars, BarsOf
<1>11. \A s \in Sources : LakeShape(s)'
  BY <1>6, <1>10 DEF LakeShape, Still, StillLakes
<1>12. LakeInv'
  BY <1>1, <1>5, <1>6, <1>9, <1>10, <1>11, LakeStep DEF StartInv, Still, StillLakes
<1>13. ASSUME NEW k \in 1..Len(Program), k >= at, k < at' PROVE Done(Program[k])'
  <2>1. k = at
    BY <1>1, <1>2, <1>13
  <2> QED
    BY <1>1, <1>2, <1>8, <1>9, <2>1 DEF Done
<1> QED
  BY <1>1, <1>2, <1>6, <1>10, <1>12, <1>13, LakeElse

LEMMA RenameKlinesInv ==
    ASSUME StartInv, RenameKlines
    PROVE  StartInv'
<1> DEFINE s0 == Now.of
           lake == lakes[s0]
           new == With(Without(lake, "klines"), "klines_old", lake["klines"])
<1>1. /\ Starting /\ Now.do = "rename" /\ phase' = phase
      /\ UNCHANGED <<db, indexes, marks, oldLake, found>>
      /\ \/ at' = at + 3 /\ lakes' = lakes
         \/ at' = at + 1 /\ lakes' = [lakes EXCEPT ![s0] = new]
  BY DEF RenameKlines, Due, Go, Starting, SetLake
<1>2. at \in 1..Len(Program) /\ Now = Program[at] /\ Len(Program) \in Nat
  BY <1>1, Place
<1>3. s0 \in Sources
  BY <1>1, <1>2, ProgramLaws DEF Proper, Plain
<1>4. Still
  BY <1>1, StillNow DEF Follow
<1>5. DOMAIN lakes = Sources /\ \A s \in Sources : DOMAIN lakes[s] \subseteq {"klines"}
  BY <1>4 DEF StartInv, LakeInv, LakeShape, Still, StillLakes
<1>6. DOMAIN lake = {"klines"}
  <2>1. DOMAIN lake # {}
    BY <1>1, Needs DEF Starting, StartInv
  <2> QED
    BY <1>3, <1>5, <2>1
<1>7. CASE at' = at + 3 /\ lakes' = lakes
  <2>1. /\ Still' /\ ControlInv' /\ Program[at + 1].do = "recreate"
        /\ Program[at + 2].do = "refill"
    BY <1>1, <1>7, SkipsTwo DEF Starting, StartInv
  <2>2. LakeInv' /\ \A s \in Sources : LakeBars(s)' = LakeBars(s)
    BY <1>1, <1>4, <1>7, <2>1, LakeFrame DEF StartInv, Still
  <2>3. ASSUME NEW k \in 1..Len(Program), k >= at, k < at' PROVE Done(Program[k])'
    <3>1. k = at \/ k = at + 1 \/ k = at + 2
      BY <1>2, <1>7, <2>3
    <3>2. Program[k].do \in {"rename", "recreate", "refill"}
      BY <1>1, <1>2, <2>1, <3>1
    <3> QED
      BY <3>2 DEF Done
  <2>4. at' \in Nat
    BY <1>2, <1>7
  <2> QED
    BY <1>1, <1>7, <2>1, <2>2, <2>3, <2>4, LakeElse
<1>8. CASE at' = at + 1 /\ lakes' = [lakes EXCEPT ![s0] = new]
  <2>1. DOMAIN new = {"klines_old"} /\ BarsOf(new) = BarsOf(lake)
    <3> HIDE DEF lake
    <3> QED
      BY <1>6, LakesRemade
  <2> HIDE DEF new
  <2>2. /\ DOMAIN lakes' = Sources /\ lakes'[s0] = new
        /\ \A s \in Sources : s # s0 => lakes'[s] = lakes[s]
    BY <1>3, <1>5, <1>8
  <2>3. \A s \in Sources : LakeBars(s)' = LakeBars(s) /\ (s # s0 => DOMAIN lakes'[s] \subseteq {"klines"})
                           /\ (DOMAIN lakes[s] # {} => DOMAIN lakes'[s] # {})
    BY <1>5, <2>1, <2>2 DEF LakeBars, BarsOf
  <2>4. /\ ControlInv' /\ ~Due("split baostock")'
        /\ \A s \in Sources : (Mid("recreate", s)' <=> s = s0) /\ ~Mid("refill", s)'
    BY <1>1, <1>8, OneOn DEF Starting, StartInv
  <2>5. \A s \in Sources : LakeShape(s)'
    BY <2>1, <2>2, <2>3, <2>4 DEF LakeShape
  <2>6. LakeInv'
    BY <1>1, <1>4, <2>2, <2>3, <2>4, <2>5, LakeStep DEF StartInv, Still, StillLakes
  <2>7. ASSUME NEW k \in 1..Len(Program), k >= at, k < at' PROVE Done(Program[k])'
    <3>1. k = at
      BY <1>2, <1>8, <2>7
    <3> QED
      BY <1>1, <1>2, <3>1 DEF Done
  <2>8. at' \in Nat
    BY <1>2, <1>8
  <2> QED
    BY <1>1, <2>3, <2>4, <2>6, <2>7, <2>8, LakeElse
<1> QED
  BY <1>1, <1>7, <1>8

LEMMA RecreateKlinesInv ==
    ASSUME StartInv, RecreateKlines
    PROVE  StartInv'
<1> DEFINE s0 == Now.of
           lake == lakes[s0]
           new == With(lake, "klines", [rows |-> {}, wide |-> TRUE])
<1>1. /\ Starting /\ Now.do = "recreate" /\ phase' = phase /\ at' = at + 1
      /\ UNCHANGED <<db, indexes, marks, oldLake, found>>
      /\ lakes' = [lakes EXCEPT ![s0] = new]
  BY DEF RecreateKlines, Due, Go, Starting, SetLake
<1>2. at \in 1..Len(Program) /\ Now = Program[at] /\ Len(Program) \in Nat
  BY <1>1, Place
<1>3. s0 \in Sources
  BY <1>1, <1>2, ProgramLaws DEF Proper, Plain
<1>4. /\ \A s \in Sources : (Mid("recreate", s) <=> s = s0) /\ ~Mid("refill", s)
      /\ ~Due("split baostock")
  BY <1>1 DEF Mid, Due, Starting
<1>5. /\ DOMAIN lakes = Sources /\ DOMAIN lake = {"klines_old"}
      /\ \A s \in Sources : s # s0 => DOMAIN lakes[s] \subseteq {"klines"}
  BY <1>3, <1>4 DEF StartInv, LakeInv, LakeShape
<1>6. /\ DOMAIN new = {"klines", "klines_old"} /\ new["klines"].rows = {}
      /\ BarsOf(new) = BarsOf(lake)
  <2> HIDE DEF lake
  <2> QED
    BY <1>5, LakesRemade
<1> HIDE DEF new
<1>7. /\ DOMAIN lakes' = Sources /\ lakes'[s0] = new
      /\ \A s \in Sources : s # s0 => lakes'[s] = lakes[s]
  BY <1>1, <1>3, <1>5
<1>8. \A s \in Sources : LakeBars(s)' = LakeBars(s) /\ (s # s0 => DOMAIN lakes'[s] \subseteq {"klines"})
                         /\ (DOMAIN lakes[s] # {} => DOMAIN lakes'[s] # {})
  BY <1>5, <1>6, <1>7 DEF LakeBars, BarsOf
<1>9. /\ ControlInv' /\ ~Due("split baostock")'
      /\ \A s \in Sources : (Mid("refill", s)' <=> s = s0) /\ ~Mid("recreate", s)'
  BY <1>1, OneOn DEF Starting, StartInv
<1>10. \A s \in Sources : LakeShape(s)'
  BY <1>6, <1>7, <1>8, <1>9 DEF LakeShape
<1>11. LakeInv'
  BY <1>1, <1>4, <1>7, <1>8, <1>9, <1>10, LakeStep DEF StartInv
<1>12. ASSUME NEW k \in 1..Len(Program), k >= at, k < at' PROVE Done(Program[k])'
  <2>1. k = at
    BY <1>1, <1>2, <1>12
  <2> QED
    BY <1>1, <1>2, <2>1 DEF Done
<1>13. at' \in Nat /\ Now.do # "fill" /\ \A s \in Sources : LakeBars(s) \subseteq LakeBars(s)'
  BY <1>1, <1>8, OneStep
<1> QED
  BY <1>1, <1>8, <1>9, <1>11, <1>12, <1>13, LakeElse

LEMMA RefillKlinesInv ==
    ASSUME StartInv, RefillKlines
    PROVE  StartInv'
<1> DEFINE s0 == Now.of
           lake == lakes[s0]
           new == With(Without(lake, "klines_old"), "klines",
                       [rows |-> lake["klines_old"].rows, wide |-> TRUE])
<1>1. /\ Starting /\ Now.do = "refill" /\ phase' = phase /\ at' = at + 1
      /\ UNCHANGED <<db, indexes, marks, oldLake, found>>
      /\ lakes' = [lakes EXCEPT ![s0] = new]
  BY DEF RefillKlines, Due, Go, Starting, SetLake, Copied
<1>2. at \in 1..Len(Program) /\ Now = Program[at] /\ Len(Program) \in Nat
  BY <1>1, Place
<1>3. s0 \in Sources
  BY <1>1, <1>2, ProgramLaws DEF Proper, Plain
<1>4. /\ \A s \in Sources : (Mid("refill", s) <=> s = s0) /\ ~Mid("recreate", s)
      /\ ~Due("split baostock")
  BY <1>1 DEF Mid, Due, Starting
<1>5. /\ DOMAIN lakes = Sources
      /\ DOMAIN lake = {"klines", "klines_old"} /\ lake["klines"].rows = {}
      /\ \A s \in Sources : s # s0 => DOMAIN lakes[s] \subseteq {"klines"}
  BY <1>3, <1>4 DEF StartInv, LakeInv, LakeShape
<1>6. DOMAIN new = {"klines"} /\ BarsOf(new) = BarsOf(lake)
  <2> HIDE DEF lake
  <2> QED
    BY <1>5, LakesRemade
<1> HIDE DEF new
<1>7. /\ DOMAIN lakes' = Sources /\ lakes'[s0] = new
      /\ \A s \in Sources : s # s0 => lakes'[s] = lakes[s]
  BY <1>1, <1>3, <1>5
<1>8. \A s \in Sources : LakeBars(s)' = LakeBars(s) /\ DOMAIN lakes'[s] \subseteq {"klines"}
                         /\ (DOMAIN lakes[s] # {} => DOMAIN lakes'[s] # {})
  BY <1>5, <1>6, <1>7 DEF LakeBars, BarsOf
<1>9. Still' /\ ControlInv'
  BY <1>1, StillAfter DEF Starting, StartInv, Lead
<1>10. \A s \in Sources : LakeShape(s)'
  BY <1>8, <1>9 DEF LakeShape, Still, StillLakes
<1>11. LakeInv'
  BY <1>1, <1>4, <1>7, <1>8, <1>9, <1>10, LakeStep DEF StartInv, Still, StillLakes
<1>12. ASSUME NEW k \in 1..Len(Program), k >= at, k < at' PROVE Done(Program[k])'
  <2>1. k = at
    BY <1>1, <1>2, <1>12
  <2> QED
    BY <1>1, <1>2, <2>1 DEF Done
<1>13. at' \in Nat /\ Now.do # "fill" /\ \A s \in Sources : LakeBars(s) \subseteq LakeBars(s)'
  BY <1>1, <1>2, <1>8
<1> QED
  BY <1>1, <1>8, <1>9, <1>11, <1>12, <1>13, LakeElse

LEMMA BarsServed ==
    ASSUME NEW s \in Sources, DOMAIN lakes[s] = {"klines"}
    PROVE  LakeBars(s) = lakes[s]["klines"].rows /\ BarsIn(lakes[s]) = LakeBars(s)
BY DEF LakeBars, BarsIn

LEMMA SharesCover ==
    /\ ShareOf("tdx") = oldLake \cap RawDays /\ ShareOf("baostock") = oldLake \ RawDays
    /\ ShareOf("tdx") \cup ShareOf("baostock") = oldLake
BY DEF ShareOf

(* A lake receives its share of the bars of before the split.              *)
LEMMA Received ==
    ASSUME NEW s0 \in {"tdx", "baostock"}, Receive(s0),
           DOMAIN lakes = Sources, DOMAIN marks = Sources,
           \A s \in Sources : DOMAIN lakes[s] = {"klines"}
    PROVE  /\ DOMAIN lakes' = Sources /\ DOMAIN marks' = Sources
           /\ \A s \in Sources : DOMAIN lakes'[s] = {"klines"}
           /\ LakeBars(s0)' = LakeBars(s0) \cup ShareOf(s0) /\ marks'[s0] = marks[s0] \cup ShareOf(s0)
           /\ \A s \in Sources : s # s0 => LakeBars(s)' = LakeBars(s) /\ marks'[s] = marks[s]
<1> DEFINE lake == lakes[s0]
           new == [lake EXCEPT !["klines"].rows = lake["klines"].rows \cup ShareOf(s0)]
<1>1. /\ lakes' = [lakes EXCEPT ![s0] = new]
      /\ marks' = [marks EXCEPT ![s0] = marks[s0] \cup ShareOf(s0)]
  BY DEF Receive, SetLake
<1>2. s0 \in Sources
  BY DEF Sources
<1>3. DOMAIN new = {"klines"} /\ new["klines"].rows = lake["klines"].rows \cup ShareOf(s0)
  BY <1>2
<1> HIDE DEF new
<1>4. /\ DOMAIN lakes' = Sources /\ lakes'[s0] = new
      /\ \A s \in Sources : s # s0 => lakes'[s] = lakes[s]
      /\ DOMAIN marks' = Sources /\ marks'[s0] = marks[s0] \cup ShareOf(s0)
      /\ \A s \in Sources : s # s0 => marks'[s] = marks[s]
  BY <1>1, <1>2
<1>5. \A s \in Sources : DOMAIN lakes'[s] = {"klines"}
  BY <1>3, <1>4
<1>6. LakeBars(s0) = lake["klines"].rows /\ LakeBars(s0)' = new["klines"].rows
  BY <1>2, <1>3, <1>4 DEF LakeBars
<1>7. \A s \in Sources : s # s0 => LakeBars(s)' = LakeBars(s)
  BY <1>4 DEF LakeBars
<1> QED
  BY <1>3, <1>4, <1>5, <1>6, <1>7

LEMMA SplitTdxInv ==
    ASSUME StartInv, SplitTdx
    PROVE  StartInv'
<1>1. /\ Starting /\ Now.do = "split tdx" /\ phase' = phase
      /\ UNCHANGED <<db, indexes, oldLake, found>>
      /\ \/ SplitDue /\ Receive("tdx") /\ at' = at + 1
         \/ ~SplitDue /\ UNCHANGED <<lakes, marks>> /\ at' = at + 2
  BY DEF SplitTdx, Due, Go, Starting
<1>2. at \in 1..Len(Program) /\ Now = Program[at] /\ Len(Program) \in Nat
  BY <1>1, Place
<1>3. Still
  BY <1>1, StillNow DEF Follow
<1>4. DOMAIN lakes = Sources /\ DOMAIN marks = Sources
      /\ \A s \in Sources : DOMAIN lakes[s] \subseteq {"klines"}
  BY <1>3 DEF StartInv, LakeInv, LakeShape, Still, StillLakes
<1>5. \A s \in Sources : DOMAIN lakes[s] = {"klines"}
  <2>1. \A s \in Sources : DOMAIN lakes[s] # {}
    BY <1>1, Needs DEF Starting, StartInv
  <2> QED
    BY <1>4, <2>1
<1>6. "tdx" \in Sources /\ "baostock" \in Sources
  BY DEF Sources
<1>7. SplitDue <=> NothingSplit
  BY <1>5, <1>6, BarsServed DEF SplitDue, NothingSplit
<1>8. CASE SplitDue /\ Receive("tdx") /\ at' = at + 1
  <2>1. /\ DOMAIN lakes' = Sources /\ DOMAIN marks' = Sources
        /\ \A s \in Sources : DOMAIN lakes'[s] = {"klines"}
        /\ LakeBars("tdx")' = LakeBars("tdx") \cup ShareOf("tdx")
        /\ marks'["tdx"] = marks["tdx"] \cup ShareOf("tdx")
        /\ \A s \in Sources : s # "tdx" => LakeBars(s)' = LakeBars(s) /\ marks'[s] = marks[s]
    BY <1>4, <1>5, <1>8, Received
  <2>2. /\ ControlInv' /\ Due("split baostock")'
        /\ \A s \in Sources : ~Mid("recreate", s)' /\ ~Mid("refill", s)'
    BY <1>1, <1>8, OneOn DEF Starting, StartInv
  <2>3. \A s \in Sources : LakeShape(s)'
    BY <2>1, <2>2 DEF LakeShape
  <2>4. \A s \in Sources : Pending(s) = ShareOf(s)
    BY <1>3, <1>7, <1>8 DEF Pending, Still, StillLakes
  <2>5. \A s : ShareOf(s)' = ShareOf(s)
    BY <1>1 DEF ShareOf
  <2>6. \A s \in Sources : Pending(s)' = IF s = "baostock" THEN ShareOf(s) ELSE {}
    BY <2>2, <2>5 DEF Pending
  <2>7. \A s \in Sources : s # "tdx" /\ s # "baostock" => ShareOf(s) = {}
    BY DEF ShareOf
  <2>8. ASSUME NEW s \in Sources
        PROVE  /\ marks'[s] \subseteq LakeBars(s)' /\ marks'[s] \subseteq oldLake \cup found.bars[s]
               /\ found.bars[s] \subseteq LakeBars(s)' \cup Pending(s)'
    <3>1. /\ marks[s] \subseteq LakeBars(s) /\ marks[s] \subseteq oldLake \cup found.bars[s]
          /\ found.bars[s] \subseteq LakeBars(s) \cup ShareOf(s)
      BY <2>4 DEF StartInv, LakeInv
    <3>2. CASE s = "tdx"
      BY <2>1, <3>1, <3>2, SharesCover
    <3>3. CASE s # "tdx"
      BY <2>1, <2>6, <2>7, <3>1, <3>3
    <3> QED
      BY <3>2, <3>3
  <2>9. oldLake \cap RawDays \subseteq LakeBars("tdx")'
    BY <2>1, SharesCover
  <2>10. LakeInv'
    BY <1>1, <2>1, <2>3, <2>8, <2>9 DEF LakeInv
  <2>11. ASSUME NEW k \in 1..Len(Program), k >= at, k < at' PROVE Done(Program[k])'
    <3>1. k = at
      BY <1>2, <1>8, <2>11
    <3> QED
      BY <1>1, <1>2, <3>1 DEF Done
  <2>12. at' \in Nat /\ Now.do # "fill" /\ \A s \in Sources : LakeBars(s) \subseteq LakeBars(s)'
    BY <1>1, <1>8, <2>1, OneStep
  <2>13. \A s \in Sources : DOMAIN lakes'[s] # {}
    BY <2>1
  <2> QED
    BY <1>1, <2>2, <2>10, <2>11, <2>12, <2>13, LakeElse
<1>9. CASE ~SplitDue /\ UNCHANGED <<lakes, marks>> /\ at' = at + 2
  <2>1. Still' /\ ControlInv' /\ Program[at + 1].do = "split baostock"
    <3>1. Skipping
      BY <1>1 DEF Skipping
    <3> QED
      BY <1>1, <1>9, <3>1, SkipsOne DEF Starting, StartInv
  <2>2. LakeInv' /\ \A s \in Sources : LakeBars(s)' = LakeBars(s)
    BY <1>1, <1>3, <1>9, <2>1, LakeFrame DEF StartInv, Still
  <2>3. ~NothingSplit'
    BY <1>1, <1>6, <1>7, <1>9, <2>2 DEF NothingSplit
  <2>4. ASSUME NEW k \in 1..Len(Program), k >= at, k < at' PROVE Done(Program[k])'
    <3>1. k = at \/ k = at + 1
      BY <1>2, <1>9, <2>4
    <3>2. Program[k].do = "split tdx" \/ Program[k].do = "split baostock"
      BY <1>1, <1>2, <2>1, <3>1
    <3> QED
      BY <2>3, <3>2 DEF Done
  <2>5. at' \in Nat /\ Now.do # "fill"
    BY <1>1, <1>9, TwoSteps
  <2> QED
    BY <1>1, <1>9, <2>1, <2>2, <2>4, <2>5, LakeElse
<1> QED
  BY <1>1, <1>8, <1>9

LEMMA SplitBaostockInv ==
    ASSUME StartInv, SplitBaostock
    PROVE  StartInv'
<1>1. /\ Starting /\ Now.do = "split baostock" /\ phase' = phase /\ at' = at + 1
      /\ UNCHANGED <<db, indexes, oldLake, found>> /\ Receive("baostock")
  BY DEF SplitBaostock, Due, Go, Starting
<1>2. at \in 1..Len(Program) /\ Now = Program[at] /\ Len(Program) \in Nat
  BY <1>1, Place
<1>3. /\ Due("split baostock")
      /\ \A s \in Sources : ~Mid("recreate", s) /\ ~Mid("refill", s)
  BY <1>1 DEF Mid, Due, Starting
<1>4. DOMAIN lakes = Sources /\ DOMAIN marks = Sources
      /\ \A s \in Sources : DOMAIN lakes[s] \subseteq {"klines"}
  BY <1>3 DEF StartInv, LakeInv, LakeShape
<1>5. \A s \in Sources : DOMAIN lakes[s] = {"klines"}
  <2>1. \A s \in Sources : DOMAIN lakes[s] # {}
    BY <1>1, Needs DEF Starting, StartInv
  <2> QED
    BY <1>4, <2>1
<1>6. /\ DOMAIN lakes' = Sources /\ DOMAIN marks' = Sources
      /\ \A s \in Sources : DOMAIN lakes'[s] = {"klines"}
      /\ LakeBars("baostock")' = LakeBars("baostock") \cup ShareOf("baostock")
      /\ marks'["baostock"] = marks["baostock"] \cup ShareOf("baostock")
      /\ \A s \in Sources : s # "baostock" => LakeBars(s)' = LakeBars(s) /\ marks'[s] = marks[s]
  BY <1>1, <1>4, <1>5, Received
<1>7. Still' /\ ControlInv'
  BY <1>1, StillAfter DEF Starting, StartInv, Lead
<1>8. \A s \in Sources : LakeShape(s)'
  BY <1>6, <1>7 DEF LakeShape, Still, StillLakes
<1>9. \A s \in Sources : Pending(s) = IF s = "baostock" THEN ShareOf(s) ELSE {}
  BY <1>3 DEF Pending
<1>10. "tdx" \in Sources /\ "baostock" \in Sources /\ "tdx" # "baostock"
  BY DEF Sources
<1>11. ~NothingSplit'
  <2>1. oldLake \cap RawDays \subseteq LakeBars("tdx")
    BY <1>3 DEF StartInv, LakeInv
  <2>2. oldLake \subseteq LakeBars("tdx")' \cup LakeBars("baostock")'
    BY <1>6, <1>10, <2>1, SharesCover
  <2> QED
    BY <1>1, <2>2 DEF NothingSplit
<1>12. ASSUME NEW s \in Sources
       PROVE  /\ marks'[s] \subseteq LakeBars(s)' /\ marks'[s] \subseteq oldLake \cup found.bars[s]
              /\ found.bars[s] \subseteq LakeBars(s)' \cup Pending(s)'
  <2>1. /\ marks[s] \subseteq LakeBars(s) /\ marks[s] \subseteq oldLake \cup found.bars[s]
        /\ found.bars[s] \subseteq LakeBars(s) \cup Pending(s)
    BY DEF StartInv, LakeInv
  <2>2. CASE s = "baostock"
    BY <1>6, <1>9, <2>1, <2>2, SharesCover
  <2>3. CASE s # "baostock"
    BY <1>6, <1>9, <2>1, <2>3
  <2> QED
    BY <2>2, <2>3
<1>13. LakeInv'
  BY <1>1, <1>6, <1>7, <1>8, <1>12 DEF LakeInv, Still, StillLakes
<1>14. ASSUME NEW k \in 1..Len(Program), k >= at, k < at' PROVE Done(Program[k])'
  <2>1. k = at
    BY <1>1, <1>14, OneStep
  <2> QED
    BY <1>1, <1>2, <1>11, <2>1 DEF Done
<1>15. at' \in Nat /\ Now.do # "fill" /\ \A s \in Sources : LakeBars(s) \subseteq LakeBars(s)'
  BY <1>1, <1>6, OneStep
<1>16. \A s \in Sources : DOMAIN lakes'[s] # {}
  BY <1>6
<1> QED
  BY <1>1, <1>7, <1>13, <1>14, <1>15, <1>16, LakeElse

-----------------------------------------------------------------------------
(* The process.                                                            *)

LEMMA BeginInv ==
    ASSUME StartInv, Begin
    PROVE  StartInv'
<1>1. Still /\ Still'
  BY StillNow, StillElse DEF Begin
<1>2. LakeInv'
  BY <1>1, LakeFrame DEF StartInv, Still, Begin
<1>3. TableInv' /\ PresetInv'
  BY <1>1, TableFrame, PresetFrame DEF StartInv, Begin
<1>4. ControlInv'
  BY Long DEF ControlInv, Begin
<1>5. Past'
  BY PastElse DEF Begin
<1> QED
  BY <1>2, <1>3, <1>4, <1>5 DEF StartInv

LEMMA ReadyInv ==
    ASSUME StartInv, Ready
    PROVE  StartInv'
<1>1. at = Len(Program) + 1 /\ ~(at <= Len(Program)) /\ at' = at /\ phase' = "up"
  BY Long DEF StartInv, ControlInv, Ready
<1>2. Still /\ Still'
  BY <1>1, StillNow, StillElse
<1>3. LakeInv' /\ \A s \in Sources : LakeBars(s)' = LakeBars(s)
  BY <1>2, LakeFrame DEF StartInv, Still, Ready
<1>4. TableInv' /\ PresetInv'
  BY <1>2, TableFrame, PresetFrame DEF StartInv, Ready
<1>5. ControlInv'
  BY <1>1, Long DEF StartInv, ControlInv
<1>6. Grown
  BY <1>3 DEF Grown, Ready
<1>7. Past'
  <2>1. at' \in Nat /\ \A k \in 1..Len(Program) : ~(k >= at /\ k < at')
    BY <1>1, Long
  <2> QED
    BY <1>6, <2>1, PastGrows DEF StartInv, Ready
<1> QED
  BY <1>3, <1>4, <1>5, <1>7 DEF StartInv

LEMMA BookInv ==
    ASSUME StartInv, NEW r \in Rows, Book(r)
    PROVE  StartInv'
<1>1. Still /\ Still'
  BY StillNow, StillElse DEF Book
<1>2. LakeInv' /\ \A s \in Sources : LakeBars(s)' = LakeBars(s)
  BY <1>1, LakeFrame DEF StartInv, Still, Book
<1>3. ControlInv'
  BY DEF StartInv, ControlInv, Book
<1> DEFINE x == db["trades"]
           n == [x EXCEPT !.rows = x.rows \cup {r}]
<1>4. db' = [db EXCEPT !["trades"] = n]
  BY DEF Book
<1>5. /\ DOMAIN db' = DOMAIN db
      /\ \A t \in DOMAIN db : /\ t # "trades" => db'[t] = db[t]
                              /\ db'[t] \in FoundTables /\ db[t].rows \subseteq db'[t].rows
                              /\ db'[t].wide = db[t].wide /\ db'[t].cols = db[t].cols
  <2>1. CASE "trades" \in DOMAIN db
    <3>1. x \in FoundTables /\ x.rows \cup {r} \in SUBSET (Rows \cup {"dev"})
      BY <2>1 DEF StartInv, TableInv, FoundTables
    <3> HIDE DEF x
    <3>2. n \in FoundTables /\ n.cols = x.cols /\ n.wide = x.wide /\ n.rows = x.rows \cup {r}
      BY <3>1, Fields
    <3> HIDE DEF n
    <3>3. db'["trades"] = n /\ DOMAIN db' = DOMAIN db
          /\ \A t \in DOMAIN db : t # "trades" => db'[t] = db[t]
      BY <1>4, <2>1
    <3>4. \A t \in DOMAIN db : db[t] \in FoundTables
      BY DEF StartInv, TableInv
    <3> QED
      BY <3>2, <3>3, <3>4 DEF x
  <2>2. CASE "trades" \notin DOMAIN db
    <3>1. DOMAIN db' = DOMAIN db /\ \A t \in DOMAIN db : db'[t] = db[t]
      BY <1>4, <2>2
    <3> QED
      BY <3>1 DEF StartInv, TableInv
  <2> QED
    BY <2>1, <2>2
<1>6. Cache # "trades" /\ DOMAIN found.rows \subseteq DOMAIN db /\ found' = found
  BY DEF Cache, StartInv, TableInv, Book
<1>7. TableInv'
  BY <1>5, <1>6 DEF StartInv, TableInv
<1>8. PresetInv'
  BY <1>1, <1>5, <1>6 DEF StartInv, PresetInv, Still
<1>9. Grown
  BY <1>2, <1>5 DEF Grown, Book
<1>10. Past'
  <2>1. at' = at /\ at \in Nat
    BY Long DEF Book, StartInv, ControlInv
  <2>2. \A k \in 1..Len(Program) : ~(k >= at /\ k < at')
    BY <2>1
  <2> QED
    BY <1>9, <2>1, <2>2, PastGrows DEF StartInv, Book
<1> QED
  BY <1>2, <1>3, <1>7, <1>8, <1>10 DEF StartInv

LEMMA StopInv ==
    ASSUME StartInv, Stop, ~Torn
    PROVE  StartInv'
<1>1. ~InMigration /\ phase' = "off" /\ UNCHANGED <<db, indexes, lakes, marks, oldLake, at, found>>
  BY DEF Stop
<1>2. Still /\ Still'
  <2>1. phase # "starting" \/ ~(at <= Len(Program)) \/ Now.do \notin Follow
    BY <1>1 DEF InMigration, Follow
  <2> QED
    BY <1>1, <2>1, StillNow, StillElse
<1>3. LakeInv'
  BY <1>1, <1>2, LakeFrame DEF StartInv, Still
<1>4. TableInv' /\ PresetInv'
  BY <1>1, <1>2, TableFrame, PresetFrame DEF StartInv
<1>5. ControlInv'
  BY <1>1 DEF StartInv, ControlInv
<1>6. Past'
  BY <1>1, PastElse
<1> QED
  BY <1>3, <1>4, <1>5, <1>6 DEF StartInv

LEMMA StutterInv ==
    ASSUME StartInv, UNCHANGED startVars
    PROVE  StartInv'
<1>1. ControlInv' /\ TableInv'
  BY DEF StartInv, ControlInv, TableInv, startVars
<1>2. \A what : Due(what)' <=> Due(what)
  BY DEF Due, Now, startVars
<1>3. \A s : /\ Mid("recreate", s)' <=> Mid("recreate", s)
             /\ Mid("refill", s)' <=> Mid("refill", s)
  BY <1>2 DEF Mid, Now, startVars
<1>4. PresetInv'
  BY <1>2 DEF StartInv, PresetInv, startVars
<1>5. \A s : LakeBars(s)' = LakeBars(s) /\ ShareOf(s)' = ShareOf(s)
  BY DEF LakeBars, ShareOf, startVars
<1>6. NothingSplit' <=> NothingSplit
  BY <1>5 DEF NothingSplit, startVars
<1>7. \A s : Pending(s)' = Pending(s)
  BY <1>2, <1>5, <1>6 DEF Pending
<1>8. \A s \in Sources : LakeShape(s)'
  BY <1>3 DEF StartInv, LakeInv, LakeShape, startVars
<1>9. LakeInv'
  BY <1>2, <1>5, <1>7, <1>8 DEF StartInv, LakeInv, startVars
<1>10. \A k \in 1..Len(Program) : Done(Program[k]) => Done(Program[k])'
  <2>1. db' = db /\ indexes' = indexes /\ lakes' = lakes
    BY DEF startVars
  <2>2. ASSUME NEW x, Done(x) PROVE Done(x)'
    BY <1>6, <2>1, <2>2 DEF Done
  <2> QED
    BY <2>2
<1>11. Past'
  BY <1>10 DEF StartInv, Past, startVars
<1> QED
  BY <1>1, <1>4, <1>9, <1>11 DEF StartInv

LEMMA StartInitInv ==
    ASSUME StartInit
    PROVE  StartInv
<1>1. /\ db \in Databases /\ lakes \in Lakes /\ phase = "off" /\ at = 1
      /\ marks = [s \in Sources |-> BarsIn(lakes[s])]
      /\ found = [rows |-> [t \in DOMAIN db |-> db[t].rows],
                  bars |-> [s \in Sources |-> BarsIn(lakes[s]) \cup
                                              (IF SplitDue THEN ShareOf(s) ELSE {})]]
  BY DEF StartInit
<1>2. /\ found.rows = [t \in DOMAIN db |-> db[t].rows]
      /\ found.bars = [s \in Sources |-> BarsIn(lakes[s]) \cup
                                         (IF SplitDue THEN ShareOf(s) ELSE {})]
  BY <1>1
<1>3. ControlInv
  BY <1>1, Long DEF ControlInv
<1>4. Past
  BY <1>1 DEF Past
<1>5. \A what : ~Due(what)
  BY <1>1 DEF Due
<1>6. /\ DOMAIN db \subseteq Tables /\ \A t \in DOMAIN db : db[t] \in FoundTables
      /\ \A t \in DOMAIN db \ {"trades", "alerts"} : db[t].wide
      /\ Cache \in DOMAIN db => FoundCache(db[Cache])
  BY <1>1, StartAssumption DEF Cache
<1>7. TableInv
  BY <1>2, <1>6 DEF TableInv, FoundCache
<1>8. PresetInv
  BY <1>6 DEF PresetInv, FoundCache
<1>9. DOMAIN lakes = Sources /\ \A s \in Sources : DOMAIN lakes[s] \subseteq {"klines"}
  BY <1>1, StartAssumption
<1>10. \A s \in Sources : BarsIn(lakes[s]) = LakeBars(s)
  BY <1>9 DEF BarsIn, LakeBars
<1>11. SplitDue <=> NothingSplit
  BY <1>10 DEF SplitDue, NothingSplit, Sources
<1>12. \A s \in Sources : Pending(s) = IF NothingSplit THEN ShareOf(s) ELSE {}
  BY <1>5 DEF Pending
<1>13. \A s \in Sources : LakeShape(s)
  BY <1>5, <1>9 DEF LakeShape, Mid
<1>14. LakeInv
  BY <1>1, <1>2, <1>5, <1>9, <1>10, <1>11, <1>12, <1>13 DEF LakeInv
<1> QED
  BY <1>3, <1>4, <1>7, <1>8, <1>14 DEF StartInv

LEMMA UpDone ==
    ASSUME StartInv, phase = "up", NEW x \in Members(Program)
    PROVE  Done(x)
<1>1. PICK k \in 1..Len(Program) : x = Program[k]
  BY DEF Members
<1>2. k < at
  BY Long DEF StartInv, ControlInv
<1> QED
  BY <1>1, <1>2 DEF StartInv, Past

LEMMA CurrentOnceUp ==
    ASSUME StartInv
    PROVE  UpIsCurrent
<1> SUFFICES ASSUME phase = "up"
             PROVE  /\ DOMAIN db = Tables
                    /\ \A t \in Tables : db[t].wide /\ db[t].refs \subseteq Tables
                    /\ \A t \in DOMAIN Moved : Moved[t] \subseteq db[t].cols
                    /\ IndexesOf("trades") \cup IndexesOf("alerts") \subseteq indexes
                    /\ db[Cache].filled = db[Cache].rows
  BY DEF UpIsCurrent, Cache
<1>1. \A x \in Members(Program) : Done(x)
  BY UpDone
<1>2. DOMAIN db = Tables
  <2>1. ASSUME NEW t \in Tables PROVE t \in DOMAIN db
    <3>1. PICK k \in 1..Len(Program) : Program[k].do = "create" /\ Program[k].of = t
      BY TablesThere
    <3>2. Program[k] \in Members(Program)
      BY DEF Members
    <3>3. Done(Program[k])
      BY <1>1, <3>2
    <3> QED
      BY <3>1, <3>3 DEF Done
  <2> QED
    BY <2>1 DEF StartInv, TableInv
<1>3. ASSUME NEW t \in Tables PROVE db[t].wide /\ db[t].refs \subseteq Tables
  <2>1. db[t].refs \subseteq Tables
    BY <1>2 DEF StartInv, TableInv, FoundTables
  <2>2. CASE t \in {"trades", "alerts"}
    <3>1. Do(t).do = t
      BY DEF Do
    <3>2. Done(Do(t))
      BY <1>1, <2>2, ProgramWhole DEF Musts
    <3>3. db[t].wide
      BY <2>2, <3>1, <3>2 DEF Done
    <3> QED
      BY <2>1, <3>3
  <2>3. CASE t \notin {"trades", "alerts"}
    BY <1>2, <2>1, <2>3 DEF StartInv, TableInv
  <2> QED
    BY <2>2, <2>3
<1>4. Cache \in DOMAIN db /\ "engine_preset" \in db[Cache].cols
  <2>1. Do("preset").do = "preset"
    BY DEF Do
  <2>2. Done(Do("preset"))
    BY <1>1, ProgramWhole DEF Musts
  <2> QED
    BY <2>1, <2>2 DEF Done
<1>5. ASSUME NEW t \in DOMAIN Moved PROVE Moved[t] \subseteq db[t].cols
  <2>1. CASE t = Cache
    BY <1>4, <2>1, MovedColumns DEF Cache
  <2>2. CASE t # Cache
    <3> SUFFICES ASSUME NEW c \in Moved[t] PROVE c \in db[t].cols
      OBVIOUS
    <3>1. Add(t, c) \in Members(Program)
      BY <2>2, ProgramWhole DEF Cache
    <3>2. Done(Add(t, c)) /\ Add(t, c).do = "add" /\ Add(t, c).of = t /\ Add(t, c).column = c
      BY <1>1, <3>1 DEF Add
    <3> QED
      BY <3>2 DEF Done
  <2> QED
    BY <2>1, <2>2
<1>6. IndexesOf("trades") \cup IndexesOf("alerts") \subseteq indexes
  <2>1. \A i, t, c : Index(i, t, c).do = "index" /\ Index(i, t, c).of = i
    BY DEF Index
  <2>2. \A i, t, c : Index(i, t, c) \in Members(Program) => i \in indexes
    <3>1. \A x : Done(x) /\ x.do = "index" => x.of \in indexes
      BY DEF Done
    <3>2. \A x \in Members(Program) : Done(x)
      BY <1>1
    <3> HIDE DEF Done
    <3> QED
      BY ONLY <2>1, <3>1, <3>2
  <2>3. /\ Index("idx_trades_user", "trades", "") \in Members(Program)
        /\ Index("idx_trades_import_draft_unique", "trades", "import_draft_id") \in Members(Program)
        /\ Index("idx_alerts_user", "alerts", "") \in Members(Program)
        /\ Index("idx_trades_import_batch", "trades", "import_batch_id") \in Members(Program)
    BY ProgramWhole DEF Musts, UniqueImport
  <2>4. {"idx_trades_user", "idx_trades_import_draft_unique", "idx_alerts_user",
         "idx_trades_import_batch"} \subseteq indexes
    BY <2>2, <2>3
  <2> QED
    BY <2>4 DEF IndexesOf
<1>7. db[Cache].filled = db[Cache].rows
  BY <1>4 DEF StartInv, PresetInv, Due
<1> QED
  BY <1>2, <1>3, <1>5, <1>6, <1>7

LEMMA BarsOnceUp ==
    ASSUME StartInv
    PROVE  BarsKept
<1> SUFFICES ASSUME phase = "up", NEW s \in Sources
             PROVE  found.bars[s] \cup marks[s] \subseteq BarsIn(lakes[s])
  BY DEF BarsKept
<1>1. Still
  BY StillNow
<1>2. DOMAIN lakes[s] \subseteq {"klines"}
  BY <1>1 DEF StartInv, LakeInv, LakeShape, Still, StillLakes
<1>3. BarsIn(lakes[s]) = LakeBars(s)
  BY <1>2 DEF BarsIn, LakeBars
<1>4. ~NothingSplit
  <2>1. Do("split baostock").do = "split baostock"
    BY DEF Do
  <2>2. Done(Do("split baostock"))
    BY UpDone, ProgramWhole DEF Musts
  <2> QED
    BY <2>1, <2>2 DEF Done
<1>5. Pending(s) = {}
  BY <1>1, <1>4 DEF Pending, Still, StillLakes
<1>6. marks[s] \subseteq LakeBars(s) /\ found.bars[s] \subseteq LakeBars(s) \cup Pending(s)
  BY DEF StartInv, LakeInv
<1> QED
  BY <1>3, <1>5, <1>6

LEMMA TypesOfAStart ==
    ASSUME StartInv
    PROVE  StartTypeOK /\ RowsKept
<1>1. \A t \in DOMAIN db : db[t] \in TableRecords
  BY DEF StartInv, TableInv, FoundTables, TableRecords
<1>2. ASSUME NEW s \in Sources
      PROVE  marks[s] \subseteq BarsIn(lakes[s]) \cup oldLake \cup found.bars[s]
  BY DEF StartInv, LakeInv
<1>3. RowsKept
  BY DEF StartInv, TableInv, RowsKept
<1> QED
  BY <1>1, <1>2, <1>3 DEF StartTypeOK, StartInv, ControlInv, TableInv

(* The invariant of a start.                                               *)
LEMMA StartInvHolds ==
    ASSUME ~Torn
    PROVE  StartSpec => []StartInv
<1>1. StartInit => StartInv
  BY StartInitInv
<1>2. StartInv /\ [StartNext]_startVars => StartInv'
  <2> SUFFICES ASSUME StartInv, [StartNext]_startVars PROVE StartInv'
    OBVIOUS
  <2>1. CASE CreateTable \/ CreateIndex \/ AddColumn \/ AddPreset \/ FillPreset
    BY <2>1, CreateTableInv, CreateIndexInv, AddColumnInv, AddPresetInv, FillPresetInv
  <2>2. CASE Rebuild("trades") \/ Rebuild("alerts")
    BY <2>2, RebuildInv
  <2>3. CASE CreateKlines \/ RenameKlines \/ RecreateKlines \/ RefillKlines
    BY <2>3, CreateKlinesInv, RenameKlinesInv, RecreateKlinesInv, RefillKlinesInv
  <2>4. CASE SplitTdx \/ SplitBaostock \/ DefaultUser
    BY <2>4, SplitTdxInv, SplitBaostockInv, DefaultUserInv
  <2>5. CASE Begin \/ Ready \/ Stop
    BY <2>5, BeginInv, ReadyInv, StopInv
  <2>6. CASE \E r \in Rows : Book(r)
    BY <2>6, BookInv
  <2>7. CASE UNCHANGED startVars
    BY <2>7, StutterInv
  <2> QED
    BY <2>1, <2>2, <2>3, <2>4, <2>5, <2>6, <2>7 DEF StartNext
<1> QED
  BY <1>1, <1>2, PTL DEF StartSpec

(* Whatever databases and lakes a start finds, whichever statement raises   *)
(* and wherever the process stops but inside a migration of rows           *)
(* (run_migrations, init_lake): a server that is up has the schema of      *)
(* today, and no row, no bar and no mark's bars are lost.                  *)
THEOREM StartsAreSound ==
    ASSUME ~Torn
    PROVE  StartSpec => []StartSound
<1>1. StartInv => StartSound
  BY CurrentOnceUp, BarsOnceUp, TypesOfAStart DEF StartSound
<1> QED
  BY <1>1, StartInvHolds, PTL
(* What requests, messages and entries of the log are.                     *)
Pieces ==
    {"say", "say.", "risk", ".risk", "warn", "wait", "later", "scope", "unclear", "review",
     "local"}
Words == Seq(Pieces)
AnswerKinds == {"wait", "local", "model"}
AllLines == UNION {Lines(c) : c \in 1..Len(Contexts)}

Ends == {"open", "done", "error", "raised", "gone"}
AskRecords ==
    [by : Callers, question : Questions, seen : Words,
     end : Ends]
LogRecords == [ask : Nat, decision : {"skipped", "error", "generated"}]
MessageRecords ==
    [ask : Nat, session : Nat, context : Nat, intent : Intents, kind : AnswerKinds, text : Words,
     lines : SUBSET AllLines, reminders : SUBSET AllLines]
RequestRecords ==
    [at : {"idle", "context", "session", "write", "talk", "memory", "material", "model",
           "tail", "log", "save"},
     ask : Nat, given : Int, nested : BOOLEAN, question : Questions \cup {None},
     context : Nat, ready : BOOLEAN, session : Int, intent : Intents \cup {NoIntent},
     warned : BOOLEAN, kind : AnswerKinds \cup {""}, text : Words, pending : Seq(Words)]

ChatTypes ==
    /\ current \in 0..Len(Contexts) /\ ready \subseteq 1..current /\ withText \subseteq 1..current
    /\ warned \in BOOLEAN
    /\ sessions \in Seq(Nat) /\ \A s \in 1..Len(sessions) : sessions[s] <= current
    /\ recent \in 0..Len(sessions) /\ (recent = None <=> sessions = <<>>)
    /\ messages \in Seq(MessageRecords) /\ logs \in Seq(LogRecords)
    /\ asked \in Seq(AskRecords) /\ asking \in [Callers -> RequestRecords]

Busy(c) == asking[c].at # "idle"
StreamsAs(c, r) == c = "stream" /\ ~r.nested
Generated(k) == \E i \in DOMAIN logs : logs[i].ask = k /\ logs[i].decision = "generated"

(* A question without a subject has the subject of an earlier message of   *)
(* its session, of those before the n-th.                                  *)
CarriesOn(q, s, intent, n) ==
    q.subjects = {} /\ q.hint = "none" =>
        \/ intent = "buy_window"
        \/ \E i \in 1..(n - 1) : messages[i].session = s /\ messages[i].intent = intent

(* A client that has seen the one has the other for its answer.            *)
Fits(seen, text) ==
    /\ EndsWith(Said(seen), Said(text))
    /\ "warn" \notin ToSet(Said(text)) => Said(text) = Said(seen)
    /\ "risk" \in ToSet(Said(seen))

(* What is left to send.                                                   *)
Left(pending) ==
    IF Len(pending) = 0 THEN <<>> ELSE IF Len(pending) = 1 THEN pending[1]
    ELSE pending[1] \o pending[2]

(* The question of a request is open and its own.                          *)
OwnAsk(c) ==
    LET r == asking[c]
    IN  /\ r.ask \in DOMAIN asked /\ asked[r.ask].end = "open" /\ asked[r.ask].question = r.question
        /\ \A d \in Callers \ {c} : Busy(d) => asking[d].ask # r.ask

OwnSession(r) ==
    /\ r.at \in {"context", "session"} => r.given \in {None, Unknown} \cup DOMAIN sessions
    /\ r.at = "write" => r.session \in 0..Len(sessions)
    /\ r.at \notin {"idle", "context", "session", "write"} => r.session \in DOMAIN sessions

(* The context that it read, and the subject that it has taken from it.    *)
OwnContext(c, r) ==
    /\ r.at # "context" =>
          r.context <= current /\ (r.ready => r.context \in ready) /\ (StreamsAs(c, r) => r.ready)
    /\ r.at \in {"memory", "material", "model", "tail", "log"} => r.ready
    /\ r.at = "save" /\ r.kind # "wait" => r.ready
    /\ r.at \in {"memory", "material", "model", "tail", "log", "save"} =>
          r.intent \in Intents /\ CarriesOn(r.question, r.session, r.intent, Len(messages) + 1)

(* What its client has seen, and what the log says of it.                  *)
OwnAnswer(c, r, seen) ==
    /\ r.at # "save" => \A i \in DOMAIN logs : logs[i].ask # r.ask
    /\ r.at \in {"context", "session", "write", "talk", "memory", "material"} => seen = <<>>
    /\ r.at = "model" =>
          /\ r.text \in Sayings
          /\ StreamsAs(c, r) => Len(seen) <= Len(r.text) /\ seen = SubSeq(r.text, 1, Len(seen))
    /\ r.at = "tail" =>
          /\ StreamsAs(c, r) /\ r.kind \in {"local", "model"}
          /\ Len(r.pending) <= 2 /\ Fits(seen \o Left(r.pending), r.text)
    /\ r.at \in {"log", "save"} /\ r.kind # "wait" =>
          Fits(IF StreamsAs(c, r) THEN seen ELSE r.text, r.text)
    /\ r.at = "log" => r.kind = "model"
    /\ r.at = "save" =>
          /\ r.kind \in AnswerKinds /\ (r.kind = "wait" => ~StreamsAs(c, r))
          /\ r.kind = "model" <=> Generated(r.ask)

OwnInv(c) ==
    /\ OwnAsk(c) /\ OwnSession(asking[c]) /\ OwnContext(c, asking[c])
    /\ OwnAnswer(c, asking[c], asked[asking[c].ask].seen)
RequestsInv == \A c \in Callers : Busy(c) => OwnInv(c)

(* A message answers the question of its own, with what the client saw.    *)
MessageOK(j) ==
    LET m == messages[j]
        seen == Said(asked[m.ask].seen)
        text == Said(m.text)
    IN  /\ m.ask \in DOMAIN asked /\ asked[m.ask].end = "done"
        /\ m.session \in DOMAIN sessions /\ m.context <= current
        /\ m.kind = "model" <=> Generated(m.ask)
        /\ m.lines \cup m.reminders # {} => m.context \in ready
        /\ CarriesOn(asked[m.ask].question, m.session, m.intent, j)
        /\ EndsWith(seen, text) /\ ("warn" \notin ToSet(text) => text = seen)
        /\ m.kind # "wait" => "risk" \in ToSet(seen)

MessageInv ==
    /\ ~Twice(messages) /\ ~Twice(logs)
    /\ \A i \in DOMAIN logs : logs[i].ask \in DOMAIN asked
    /\ \A k \in DOMAIN asked :
          asked[k].end = "done" => \E i \in DOMAIN messages : messages[i].ask = k
    /\ \A j \in DOMAIN messages : MessageOK(j)

ChatInv == ChatTypes /\ RequestsInv /\ MessageInv

-----------------------------------------------------------------------------
(* A sequence is given by its length and its elements.                     *)
LEMMA PiecesOf ==
    ASSUME NEW S, NEW s \in Seq(S)
    PROVE  /\ Len(s) \in Nat /\ DOMAIN s = 1..Len(s) /\ \A i \in 1..Len(s) : s[i] \in S
           /\ \A x : x \in ToSet(s) <=> \E i \in 1..Len(s) : s[i] = x
           /\ s = <<>> <=> Len(s) = 0
BY DEF ToSet

(* A text without its stops has its length.                                *)
LEMMA SaidText ==
    ASSUME NEW text \in Words
    PROVE  /\ Said(text) \in Words /\ Len(Said(text)) = Len(text)
           /\ \A i \in 1..Len(text) : Said(text)[i] = Unstopped(text[i])
<1>1. \A piece \in Pieces : Unstopped(piece) \in Pieces
  BY DEF Pieces, Unstopped
<1>2. Said(text) = [i \in 1..Len(text) |-> Unstopped(text[i])]
  BY DEF Said, Words
<1>3. \A i \in 1..Len(text) : Unstopped(text[i]) \in Pieces
  BY <1>1 DEF Words
<1>4. Len(text) \in Nat
  BY DEF Words
<1> QED
  BY <1>2, <1>3, <1>4 DEF Words

LEMMA SaidConcat ==
    ASSUME NEW a \in Words, NEW b \in Words
    PROVE  a \o b \in Words /\ Said(a \o b) = Said(a) \o Said(b)
<1>1. /\ a \o b \in Words /\ Len(a \o b) = Len(a) + Len(b)
      /\ \A i \in 1..(Len(a) + Len(b)) :
            (a \o b)[i] = IF i <= Len(a) THEN a[i] ELSE b[i - Len(a)]
  BY ConcatProperties DEF Words
<1>2. /\ Said(a) \o Said(b) \in Words /\ Len(Said(a) \o Said(b)) = Len(a) + Len(b)
      /\ \A i \in 1..(Len(a) + Len(b)) :
            (Said(a) \o Said(b))[i]
                = IF i <= Len(a) THEN Said(a)[i] ELSE Said(b)[i - Len(a)]
  <2> DEFINE p == Said(a)
             q == Said(b)
  <2>1. /\ p \in Seq(Pieces) /\ Len(p) = Len(a)
        /\ q \in Seq(Pieces) /\ Len(q) = Len(b)
    BY SaidText DEF Words
  <2> HIDE DEF p, q
  <2>2. /\ p \o q \in Seq(Pieces) /\ Len(p \o q) = Len(p) + Len(q)
        /\ \A i \in 1..(Len(p) + Len(q)) :
              (p \o q)[i] = IF i <= Len(p) THEN p[i] ELSE q[i - Len(p)]
    BY <2>1, ConcatProperties
  <2>3. /\ p \o q \in Words /\ Len(p \o q) = Len(a) + Len(b)
        /\ \A i \in 1..(Len(a) + Len(b)) :
              (p \o q)[i] = IF i <= Len(a) THEN p[i] ELSE q[i - Len(a)]
    BY <2>1, <2>2 DEF Words
  <2> QED
    BY <2>3 DEF p, q
<1>3. Len(a) \in Nat /\ Len(b) \in Nat
  BY DEF Words
<1>4. ASSUME NEW i \in 1..(Len(a) + Len(b))
      PROVE  Said(a \o b)[i] = (Said(a) \o Said(b))[i]
  <2>1. Said(a \o b)[i] = Unstopped((a \o b)[i])
    BY <1>1, SaidText
  <2>2. CASE i <= Len(a)
    BY <1>1, <1>2, <1>3, <2>1, <2>2, SaidText
  <2>3. CASE ~(i <= Len(a))
    <3>1. i - Len(a) \in 1..Len(b)
      BY <1>3, <2>3
    <3> QED
      BY <1>1, <1>2, <2>1, <2>3, <3>1, SaidText
  <2> QED
    BY <2>2, <2>3
<1>5. Said(a \o b) \in Seq(Pieces) /\ Said(a) \o Said(b) \in Seq(Pieces)
  BY <1>1, <1>2, SaidText DEF Words
<1>6. Len(Said(a \o b)) = Len(a) + Len(b)
  BY <1>1, SaidText
<1> QED
  BY <1>1, <1>2, <1>4, <1>5, <1>6, SeqEqual

(* A text ends with itself, and with what it was put before.               *)
LEMMA EndsWithItself ==
    ASSUME NEW a \in Words, NEW b \in Words
    PROVE  EndsWith(a, a) /\ EndsWith(a \o b, b)
<1>1. EndsWith(a, a)
  <2>1. SubSeq(a, 0 + 1, Len(a)) = a
    BY SubSeqFull DEF Words
  <2>2. 0 \in 0..Len(a)
    BY DEF Words
  <2> QED
    BY <2>1, <2>2 DEF EndsWith
<1>2. EndsWith(a \o b, b)
  <2>1. /\ a \o b \in Words /\ Len(a \o b) = Len(a) + Len(b)
        /\ \A i \in 1..(Len(a) + Len(b)) :
              (a \o b)[i] = IF i <= Len(a) THEN a[i] ELSE b[i - Len(a)]
    BY ConcatProperties DEF Words
  <2>2. Len(a) \in Nat /\ Len(b) \in Nat
    BY DEF Words
  <2> DEFINE end == SubSeq(a \o b, Len(a) + 1, Len(a \o b))
  <2>3. \A i \in (Len(a) + 1)..Len(a \o b) : (a \o b)[i] \in Pieces
    <3> TAKE i \in (Len(a) + 1)..Len(a \o b)
    <3>1. i - Len(a) \in 1..Len(b) /\ i \in 1..(Len(a) + Len(b)) /\ ~(i <= Len(a))
      BY <2>1, <2>2
    <3> QED
      BY <2>1, <3>1 DEF Words
  <2>4. /\ end \in Seq(Pieces)
        /\ Len(end) = IF Len(a) + 1 <= Len(a \o b) THEN Len(a \o b) - (Len(a) + 1) + 1 ELSE 0
        /\ \A i \in 1..(Len(a \o b) - (Len(a) + 1) + 1) : end[i] = (a \o b)[Len(a) + 1 + i - 1]
    <3>1. Len(a) + 1 \in Int /\ Len(a \o b) \in Int
      BY <2>1, <2>2
    <3> HIDE DEF end
    <3> QED
      BY ONLY <2>3, <3>1, SubSeqProperties DEF end
  <2> HIDE DEF end
  <2>5. Len(end) = Len(b)
    BY ONLY <2>1, <2>2, <2>4
  <2>6. ASSUME NEW i \in 1..Len(b) PROVE end[i] = b[i]
    <3>1. /\ i \in 1..(Len(a \o b) - (Len(a) + 1) + 1) /\ Len(a) + 1 + i - 1 = Len(a) + i
          /\ Len(a) + i \in 1..(Len(a) + Len(b)) /\ ~(Len(a) + i <= Len(a))
          /\ Len(a) + i - Len(a) = i
      BY ONLY <2>1, <2>2, <2>6
    <3>2. end[i] = (a \o b)[Len(a) + 1 + i - 1]
      BY ONLY <2>4, <3>1
    <3>3. (a \o b)[Len(a) + i] = b[Len(a) + i - Len(a)]
      BY ONLY <2>1, <3>1
    <3> QED
      BY ONLY <3>1, <3>2, <3>3
  <2>7. end = b
    BY <2>4, <2>5, <2>6, SeqEqual DEF Words
  <2>8. Len(a) \in 0..Len(a \o b)
    BY <2>1, <2>2
  <2> QED
    BY <2>7, <2>8 DEF EndsWith, end
<1> QED
  BY <1>1, <1>2

(* The disclaimer of a text is in it with or without a stop.               *)
LEMMA RiskIsSaid ==
    ASSUME NEW text \in Words
    PROVE  /\ "risk" \in ToSet(Said(text)) <=> Risk \cap ToSet(text) # {}
           /\ "warn" \in ToSet(Said(text)) <=> "warn" \in ToSet(text)
<1>1. \A piece : /\ Unstopped(piece) = "risk" <=> piece \in Risk
                 /\ Unstopped(piece) = "warn" <=> piece = "warn"
  BY DEF Unstopped, Risk
<1>2. Said(text) \in Words /\ Len(Said(text)) = Len(text)
  BY SaidText
<1>3. \A x : x \in ToSet(Said(text)) <=> \E i \in 1..Len(text) : Unstopped(text[i]) = x
  <2>1. \A x : x \in ToSet(Said(text)) <=> \E i \in 1..Len(text) : Said(text)[i] = x
    BY <1>2, PiecesOf DEF Words
  <2> QED
    BY <2>1, SaidText
<1>4. \A x : x \in ToSet(text) <=> \E i \in 1..Len(text) : text[i] = x
  BY PiecesOf DEF Words
<1> QED
  BY <1>1, <1>3, <1>4

LEMMA TabledText ==
    ASSUME NEW n \in Nat, NEW f \in [1..n -> Pieces]
    PROVE  f \in Words /\ Len(f) = n
BY DEF Words

LEMMA TrimmedText ==
    ASSUME NEW text \in Words
    PROVE  Trimmed(text) \in Words /\ Said(Trimmed(text)) = Said(text)
<1>1. /\ Len(text) \in Nat /\ text \in [1..Len(text) -> Pieces]
      /\ Trimmed(text) = [i \in 1..Len(text) |-> IF i = Len(text) THEN Unstopped(text[i]) ELSE text[i]]
  BY DEF Words, Trimmed
<1>2. \A piece \in Pieces :
         Unstopped(piece) \in Pieces /\ Unstopped(Unstopped(piece)) = Unstopped(piece)
  BY DEF Pieces, Unstopped
<1>3. Trimmed(text) \in Words /\ Len(Trimmed(text)) = Len(text)
  <2>1. \A i \in 1..Len(text) :
           (IF i = Len(text) THEN Unstopped(text[i]) ELSE text[i]) \in Pieces
    BY <1>1, <1>2
  <2>2. Trimmed(text) \in [1..Len(text) -> Pieces]
    BY <1>1, <2>1
  <2> QED
    BY <1>1, <2>2, TabledText
<1>4. ASSUME NEW i \in 1..Len(text) PROVE Said(Trimmed(text))[i] = Said(text)[i]
  <2>1. Said(Trimmed(text))[i] = Unstopped(Trimmed(text)[i])
    BY <1>3, SaidText
  <2>2. text[i] \in Pieces /\ Said(text)[i] = Unstopped(text[i])
    BY <1>1, SaidText
  <2>3. Trimmed(text)[i] = IF i = Len(text) THEN Unstopped(text[i]) ELSE text[i]
    BY <1>1
  <2>4. Unstopped(Trimmed(text)[i]) = Unstopped(text[i])
    BY <1>2, <2>2, <2>3
  <2> QED
    BY <2>1, <2>2, <2>4
<1> QED
  BY <1>3, <1>4, SaidText, SeqEqual DEF Words

(* A word that one of two texts has is in the two together.                *)
LEMMA WordsOfConcat ==
    ASSUME NEW a \in Words, NEW b \in Words
    PROVE  ToSet(a \o b) = ToSet(a) \cup ToSet(b)
<1>1. /\ a \o b \in Words /\ Len(a \o b) = Len(a) + Len(b)
      /\ \A i \in 1..(Len(a) + Len(b)) :
            (a \o b)[i] = IF i <= Len(a) THEN a[i] ELSE b[i - Len(a)]
  BY ConcatProperties DEF Words
<1>2. /\ Len(a) \in Nat /\ Len(b) \in Nat
      /\ \A x : x \in ToSet(a \o b) <=> \E i \in 1..(Len(a) + Len(b)) : (a \o b)[i] = x
      /\ \A x : x \in ToSet(a) <=> \E i \in 1..Len(a) : a[i] = x
      /\ \A x : x \in ToSet(b) <=> \E i \in 1..Len(b) : b[i] = x
  <2>1. a \in Seq(Pieces) /\ b \in Seq(Pieces) /\ a \o b \in Seq(Pieces)
    BY <1>1 DEF Words
  <2>2. /\ \A x : x \in ToSet(a) <=> \E i \in 1..Len(a) : a[i] = x
        /\ \A x : x \in ToSet(b) <=> \E i \in 1..Len(b) : b[i] = x
        /\ \A x : x \in ToSet(a \o b) <=> \E i \in 1..Len(a \o b) : (a \o b)[i] = x
    BY <2>1, PiecesOf, Zenon
  <2> QED
    BY <1>1, <2>1, <2>2
<1>3. ASSUME NEW x, x \in ToSet(a \o b) PROVE x \in ToSet(a) \cup ToSet(b)
  <2>1. PICK i \in 1..(Len(a) + Len(b)) : (a \o b)[i] = x
    BY <1>2, <1>3
  <2>2. CASE i <= Len(a)
    <3>1. i \in 1..Len(a) /\ a[i] = x
      BY <1>1, <1>2, <2>1, <2>2
    <3> QED
      BY <1>2, <3>1
  <2>3. CASE ~(i <= Len(a))
    <3>1. i - Len(a) \in 1..Len(b) /\ b[i - Len(a)] = x
      BY <1>1, <1>2, <2>1, <2>3
    <3> QED
      BY <1>2, <3>1
  <2> QED
    BY <2>2, <2>3
<1>4. ASSUME NEW x, x \in ToSet(a) PROVE x \in ToSet(a \o b)
  <2>1. PICK i \in 1..Len(a) : a[i] = x
    BY <1>2, <1>4
  <2>2. i \in 1..(Len(a) + Len(b)) /\ (a \o b)[i] = x
    BY <1>1, <1>2, <2>1
  <2> QED
    BY <1>2, <2>2
<1>5. ASSUME NEW x, x \in ToSet(b) PROVE x \in ToSet(a \o b)
  <2>1. PICK i \in 1..Len(b) : b[i] = x
    BY <1>2, <1>5
  <2>2. /\ Len(a) + i \in 1..(Len(a) + Len(b)) /\ ~(Len(a) + i <= Len(a))
        /\ Len(a) + i - Len(a) = i
    BY <1>2
  <2>3. (a \o b)[Len(a) + i] = x
    BY <1>1, <2>1, <2>2
  <2> QED
    BY <1>2, <2>2, <2>3
<1> QED
  BY <1>3, <1>4, <1>5

LEMMA WordsOfNone == ToSet(<<>>) = {}
BY DEF ToSet

LEMMA ShortTexts ==
    ASSUME NEW x \in Pieces, NEW y \in Pieces
    PROVE  /\ <<x>> \in Words /\ <<x>> # <<>> /\ ToSet(<<x>>) = {x}
           /\ <<x, y>> \in Words /\ <<x, y>> # <<>> /\ ToSet(<<x, y>>) = {x, y}
BY DEF Words, ToSet

(* The disclaimer is added once, and nothing else changes but a stop.      *)
LEMMA RiskyText ==
    ASSUME NEW text \in Words
    PROVE  /\ WithRisk(text) \in Words /\ WithRisk(text) # <<>>
           /\ "risk" \in ToSet(Said(WithRisk(text)))
           /\ Said(WithRisk(text))
                  = Said(IF WithRisk(text) = text THEN text ELSE text \o <<".risk">>)
<1>1. CASE Risk \cap ToSet(text) # {}
  <2>1. WithRisk(text) = text
    BY <1>1 DEF WithRisk
  <2>2. text # <<>>
    BY <1>1, WordsOfNone
  <2> QED
    BY <1>1, <2>1, <2>2, RiskIsSaid
<1>2. CASE ~(Risk \cap ToSet(text) # {})
  <2> DEFINE risky == Trimmed(text) \o <<".risk">>
  <2>1. WithRisk(text) = risky
    BY <1>2 DEF WithRisk
  <2>2. /\ Trimmed(text) \in Words /\ Said(Trimmed(text)) = Said(text)
        /\ <<".risk">> \in Words /\ ToSet(<<".risk">>) = {".risk"}
    <3>1. ".risk" \in Pieces
      BY DEF Pieces
    <3> QED
      BY <3>1, TrimmedText, ShortTexts
  <2>3. /\ risky \in Words /\ Said(risky) = Said(text) \o Said(<<".risk">>)
        /\ ToSet(risky) = ToSet(Trimmed(text)) \cup {".risk"}
    <3>1. risky \in Words /\ Said(risky) = Said(Trimmed(text)) \o Said(<<".risk">>)
      BY <2>2, SaidConcat
    <3>2. ToSet(risky) = ToSet(Trimmed(text)) \cup ToSet(<<".risk">>)
      BY <2>2, WordsOfConcat
    <3> QED
      BY <2>2, <3>1, <3>2
  <2>4. Said(text \o <<".risk">>) = Said(text) \o Said(<<".risk">>)
    BY <2>2, SaidConcat
  <2> HIDE DEF risky
  <2>5. ".risk" \in Risk \cap ToSet(risky)
    BY <2>3 DEF Risk
  <2>6. "risk" \in ToSet(Said(risky)) /\ risky # text
    BY <1>2, <2>3, <2>5, RiskIsSaid
  <2>7. risky # <<>>
    BY <2>5, WordsOfNone
  <2> QED
    BY <2>1, <2>3, <2>4, <2>6, <2>7
<1> QED
  BY <1>1, <1>2

(* A warning is in the text that it changes, and leaves the disclaimer.    *)
LEMMA WarnedText ==
    ASSUME NEW text \in Words, text # <<>>, NEW warn
    PROVE  /\ Warned(text, warn) \in Words
           /\ Warned(text, warn) # text => "warn" \in ToSet(Said(Warned(text, warn)))
           /\ "risk" \in ToSet(Said(text)) => "risk" \in ToSet(Said(Warned(text, warn)))
<1>1. CASE ~warn
  BY <1>1 DEF Warned
<1>2. CASE warn /\ Last(text) \in Risk
  <2> DEFINE told == Front(text) \o <<"warn", ".risk">>
  <2>1. Warned(text, warn) = told
    BY <1>2 DEF Warned
  <2>2. Front(text) \in Words
    <3>1. Len(text) \in Nat /\ \A i \in 1..(Len(text) - 1) : text[i] \in Pieces
      BY DEF Words
    <3>2. SubSeq(text, 1, Len(text) - 1) \in Seq(Pieces)
      BY <3>1, SubSeqProperties
    <3> QED
      BY <3>2 DEF Front, Words
  <2>3. /\ <<"warn", ".risk">> \in Words /\ ToSet(<<"warn", ".risk">>) = {"warn", ".risk"}
    <3>1. "warn" \in Pieces /\ ".risk" \in Pieces
      BY DEF Pieces
    <3> QED
      BY <3>1, ShortTexts
  <2>4. told \in Words /\ "warn" \in ToSet(told) /\ ".risk" \in ToSet(told)
    BY <2>2, <2>3, SaidConcat, WordsOfConcat
  <2> HIDE DEF told
  <2>5. "warn" \in ToSet(Said(told)) /\ "risk" \in ToSet(Said(told))
    BY <2>4, RiskIsSaid DEF Risk
  <2> QED
    BY <2>1, <2>4, <2>5
<1>3. CASE warn /\ Last(text) \notin Risk
  <2> DEFINE told == text \o <<"warn">>
  <2>1. Warned(text, warn) = told
    BY <1>3 DEF Warned
  <2>2. <<"warn">> \in Words /\ ToSet(<<"warn">>) = {"warn"}
    <3>1. "warn" \in Pieces
      BY DEF Pieces
    <3> QED
      BY <3>1, ShortTexts
  <2>3. told \in Words /\ "warn" \in ToSet(told) /\ ToSet(text) \subseteq ToSet(told)
    BY <2>2, SaidConcat, WordsOfConcat
  <2> HIDE DEF told
  <2>4. "warn" \in ToSet(Said(told))
        /\ ("risk" \in ToSet(Said(text)) => "risk" \in ToSet(Said(told)))
    BY <2>3, RiskIsSaid
  <2> QED
    BY <2>1, <2>3, <2>4
<1> QED
  BY <1>1, <1>2, <1>3

(* A client that has seen the text, punctuation aside, and before it or    *)
(* not what it was sent before.                                            *)
LEMMA FitsItself ==
    ASSUME NEW seen \in Words, NEW text \in Words, Said(seen) = Said(text),
           "risk" \in ToSet(Said(text))
    PROVE  Fits(seen, text)
<1>1. EndsWith(Said(seen), Said(text))
  BY SaidText, EndsWithItself
<1> QED
  BY <1>1 DEF Fits

LEMMA FitsAfter ==
    ASSUME NEW seen \in Words, NEW text \in Words, "warn" \in ToSet(Said(text)),
           "risk" \in ToSet(Said(seen))
    PROVE  seen \o text \in Words /\ Fits(seen \o text, text)
<1>1. /\ Said(seen) \in Words /\ Said(text) \in Words /\ seen \o text \in Words
      /\ Said(seen \o text) = Said(seen) \o Said(text)
  BY SaidText, SaidConcat
<1>2. EndsWith(Said(seen \o text), Said(text))
  BY <1>1, EndsWithItself
<1>3. "risk" \in ToSet(Said(seen \o text))
  BY <1>1, WordsOfConcat
<1> QED
  BY <1>1, <1>2, <1>3 DEF Fits

(* A text that continues a shorter one is the shorter one and its rest.    *)
LEMMA PrefixAndRest ==
    ASSUME NEW a \in Words, NEW b \in Words, IsPrefix(a, b)
    PROVE  /\ SubSeq(b, Len(a) + 1, Len(b)) \in Words
           /\ a \o SubSeq(b, Len(a) + 1, Len(b)) = b
<1>1. Len(a) \in Nat /\ Len(b) \in Nat /\ Len(a) <= Len(b)
  BY DEF Words, IsPrefix
<1>2. SubSeq(b, 1, Len(a)) = a
  <2>1. SubSeq(a, 1, Len(a)) = a
    BY SubSeqFull DEF Words
  <2> QED
    BY <2>1 DEF IsPrefix
<1>3. SubSeq(b, 1, Len(a)) \o SubSeq(b, Len(a) + 1, Len(b)) = SubSeq(b, 1, Len(b))
  <2>1. 1 \in 1..(Len(b) + 1) /\ Len(a) \in (1 - 1)..Len(b) /\ Len(b) \in Len(a)..Len(b)
    BY <1>1
  <2> QED
    BY <2>1, ConcatAdjacentSubSeq DEF Words
<1>4. SubSeq(b, 1, Len(b)) = b
  BY SubSeqFull DEF Words
<1>5. SubSeq(b, Len(a) + 1, Len(b)) \in Words
  <2>1. /\ \A i \in (Len(a) + 1)..Len(b) : b[i] \in Pieces
        /\ Len(a) + 1 \in Int /\ Len(b) \in Int
    BY <1>1 DEF Words
  <2> QED
    BY <2>1, SubSeqProperties DEF Words
<1> QED
  BY <1>2, <1>3, <1>4, <1>5

LEMMA OneAndOne ==
    ASSUME NEW x, NEW y
    PROVE  <<x>> \o <<y>> = <<x, y>>
<1> DEFINE S == {x, y}
<1>1. /\ <<x>> \in Seq(S) /\ Len(<<x>>) = 1 /\ <<x>>[1] = x
      /\ <<y>> \in Seq(S) /\ Len(<<y>>) = 1 /\ <<y>>[1] = y
      /\ <<x, y>> \in Seq(S) /\ Len(<<x, y>>) = 2 /\ <<x, y>>[1] = x /\ <<x, y>>[2] = y
  OBVIOUS
<1>2. /\ <<x>> \o <<y>> \in Seq(S) /\ Len(<<x>> \o <<y>>) = 1 + 1
      /\ \A i \in 1..(1 + 1) : (<<x>> \o <<y>>)[i] = IF i <= 1 THEN <<x>>[i] ELSE <<y>>[i - 1]
  BY <1>1, ConcatProperties
<1> HIDE DEF S
<1> DEFINE s == <<x>> \o <<y>>
           t == <<x, y>>
<1>3. /\ s \in Seq(S) /\ t \in Seq(S) /\ Len(s) = Len(t)
      /\ \A i \in 1..Len(s) : s[i] = t[i]
  BY <1>1, <1>2
<1> HIDE DEF s, t
<1>4. s = t
  BY ONLY <1>3, SeqEqual
<1> QED
  BY <1>4 DEF s, t

(* What is left to send after a text of the model completes it.            *)
LEMMA RestFits ==
    ASSUME NEW text \in Words, NEW warn
    PROVE  /\ Warned(WithRisk(text), warn) \in Words
           /\ Fits(Warned(WithRisk(text), warn), Warned(WithRisk(text), warn))
           /\ Rest(text, warn) \in Seq(Words) /\ Len(Rest(text, warn)) <= 2
           /\ text \o Left(Rest(text, warn)) \in Words
           /\ Fits(text \o Left(Rest(text, warn)), Warned(WithRisk(text), warn))
<1> DEFINE risky == WithRisk(text)
           told == Warned(risky, warn)
           end == SubSeq(told, Len(risky) + 1, Len(told))
           base == IF risky = text THEN text ELSE text \o <<".risk">>
           a == IF risky = text THEN <<>> ELSE <<<<".risk">>>>
           b == IF told = risky THEN <<>> ELSE IF IsPrefix(risky, told) THEN <<end>> ELSE <<told>>
<1>1. /\ risky \in Words /\ risky # <<>> /\ "risk" \in ToSet(Said(risky))
      /\ Said(risky) = Said(base)
  BY RiskyText
<1>2. <<".risk">> \in Words /\ <<>> \in Words
  <2>1. ".risk" \in Pieces
    BY DEF Pieces
  <2>2. <<>> \in Words
    BY DEF Words
  <2> QED
    BY <2>1, <2>2, ShortTexts
<1>3. base \in Words
  BY <1>2, SaidConcat
<1>4. Rest(text, warn) = a \o b
  BY DEF Rest
<1> HIDE DEF risky
<1>5. /\ told \in Words
      /\ told # risky => "warn" \in ToSet(Said(told))
      /\ "risk" \in ToSet(Said(told))
  BY <1>1, WarnedText
<1> HIDE DEF told
<1>6. IsPrefix(risky, told) => end \in Words /\ risky \o end = told
  BY <1>1, <1>5, PrefixAndRest
<1> HIDE DEF end
<1>7. Fits(told, told)
  BY <1>5, FitsItself
<1>8. CASE told = risky
  <2>1. a \o b = a
    BY <1>8, <1>2
  <2>2. /\ a \in Seq(Words) /\ Len(a) <= 2
        /\ Left(a) = IF risky = text THEN <<>> ELSE <<".risk">>
    BY <1>2 DEF Left
  <2>3. text \o Left(a) = base
    BY <1>2, <2>2, ConcatEmptySeq DEF Words
  <2>4. Fits(base, told)
    BY <1>1, <1>3, <1>5, <1>8, FitsItself
  <2> QED
    BY <1>3, <1>4, <1>5, <1>7, <2>1, <2>2, <2>3, <2>4 DEF told, risky
<1>9. ASSUME NEW last \in Words, b = <<last>>, base \o last \in Words, Fits(base \o last, told)
      PROVE  /\ a \o b \in Seq(Words) /\ Len(a \o b) <= 2
             /\ text \o Left(a \o b) = base \o last
  <2>1. CASE risky = text
    <3>1. a \o b = <<last>> /\ base = text
      BY <1>9, <2>1
    <3>2. Left(<<last>>) = last /\ <<last>> \in Seq(Words) /\ Len(<<last>>) <= 2
      BY <1>9 DEF Left
    <3> QED
      BY <3>1, <3>2
  <2>2. CASE risky # text
    <3>1. a \o b = <<<<".risk">>, last>> /\ base = text \o <<".risk">>
      <4>1. a = <<<<".risk">>>> /\ base = text \o <<".risk">>
        BY <2>2
      <4>2. <<<<".risk">>>> \o <<last>> = <<<<".risk">>, last>>
        BY OneAndOne
      <4> QED
        BY <1>9, <4>1, <4>2
    <3>2. /\ Left(<<<<".risk">>, last>>) = <<".risk">> \o last
          /\ <<<<".risk">>, last>> \in Seq(Words) /\ Len(<<<<".risk">>, last>>) <= 2
      BY <1>2, <1>9 DEF Left
    <3>3. (text \o <<".risk">>) \o last = text \o (<<".risk">> \o last)
      BY <1>2, <1>9, ConcatAssociative DEF Words
    <3> QED
      BY <3>1, <3>2, <3>3
  <2> QED
    BY <2>1, <2>2
<1>10. CASE told # risky /\ IsPrefix(risky, told)
  <2>1. b = <<end>> /\ end \in Words /\ risky \o end = told
    BY <1>6, <1>10
  <2>2. base \o end \in Words /\ Said(base \o end) = Said(told)
    <3>1. Said(base \o end) = Said(base) \o Said(end) /\ base \o end \in Words
      BY <1>3, <2>1, SaidConcat
    <3>2. Said(told) = Said(risky) \o Said(end)
      BY <1>1, <2>1, SaidConcat
    <3> QED
      BY <1>1, <3>1, <3>2
  <2>3. Fits(base \o end, told)
    BY <1>5, <2>2, FitsItself
  <2> QED
    BY <1>4, <1>5, <1>7, <1>9, <2>1, <2>2, <2>3 DEF told, risky
<1>11. CASE told # risky /\ ~IsPrefix(risky, told)
  <2>1. b = <<told>>
    BY <1>11
  <2>2. base \o told \in Words /\ Fits(base \o told, told)
    BY <1>1, <1>3, <1>5, <1>11, FitsAfter
  <2> QED
    BY <1>4, <1>5, <1>7, <1>9, <2>1, <2>2 DEF told, risky
<1> QED
  BY <1>8, <1>10, <1>11

(* The answers that are made of the lines of a context say the risk.       *)
LEMMA LocalFits ==
    ASSUME NEW c, NEW intent, NEW warn
    PROVE  /\ LocalText(c, intent, warn) \in Words
           /\ Fits(LocalText(c, intent, warn), LocalText(c, intent, warn))
<1>1. ASSUME NEW piece \in Pieces
      PROVE  /\ <<piece, "risk">> \in Words /\ <<piece, "risk">> # <<>>
             /\ "risk" \in ToSet(Said(<<piece, "risk">>))
  <2>1. "risk" \in Pieces
    BY DEF Pieces
  <2>2. /\ <<piece, "risk">> \in Words /\ <<piece, "risk">> # <<>>
        /\ ToSet(<<piece, "risk">>) = {piece, "risk"}
    BY <2>1, ShortTexts
  <2> QED
    BY <2>2, RiskIsSaid DEF Risk
<1>2. {"scope", "unclear", "review", "local"} \subseteq Pieces
  BY DEF Pieces
<1>3. /\ Warned(<<"local", "risk">>, warn) \in Words
      /\ "risk" \in ToSet(Said(Warned(<<"local", "risk">>, warn)))
  BY <1>1, <1>2, WarnedText
<1>4. LocalText(c, intent, warn) \in Words /\ "risk" \in ToSet(Said(LocalText(c, intent, warn)))
  BY <1>1, <1>2, <1>3 DEF LocalText
<1> QED
  BY <1>4, FitsItself
-----------------------------------------------------------------------------
(* The types.                                                              *)

(* A request that changes keeps the other, and its own type.               *)
LEMMA GoesTo ==
    ASSUME ChatTypes, NEW c \in Callers, NEW r \in RequestRecords, Goes(c, r)
    PROVE  /\ asking' \in [Callers -> RequestRecords] /\ asking'[c] = r
           /\ \A d \in Callers \ {c} : asking'[d] = asking[d]
BY DEF ChatTypes, Goes

(* What a request holds.                                                   *)
LEMMA ChatRequestFields ==
    ASSUME NEW r \in RequestRecords
    PROVE  /\ r.ask \in Nat /\ r.given \in Int /\ r.nested \in BOOLEAN
           /\ r.question \in Questions \cup {None} /\ r.context \in Nat /\ r.session \in Int
           /\ r.text \in Words /\ r.pending \in Seq(Words)
           /\ r.intent \in Intents \cup {NoIntent} /\ r.kind \in AnswerKinds \cup {""}
BY DEF RequestRecords

LEMMA QuietTyped == Quiet \in RequestRecords /\ Quiet.at = "idle"
<1>1. <<>> \in Words /\ <<>> \in Seq(Words)
  BY DEF Words
<1> QED
  BY <1>1 DEF Quiet, RequestRecords, AnswerKinds, None

(* Questions end, and what their client has seen grows.                    *)
LEMMA AskedRecords ==
    ASSUME ChatTypes, NEW k \in DOMAIN asked
    PROVE  /\ DOMAIN asked = 1..Len(asked) /\ Len(asked) \in Nat /\ k \in Nat
           /\ asked[k] \in AskRecords /\ asked[k].seen \in Words
           /\ \A a \in AskRecords :
                 /\ [asked EXCEPT ![k] = a] \in Seq(AskRecords)
                 /\ DOMAIN [asked EXCEPT ![k] = a] = DOMAIN asked
                 /\ Len([asked EXCEPT ![k] = a]) = Len(asked)
<1>1. asked \in Seq(AskRecords)
  BY DEF ChatTypes
<1>2. k \in 1..Len(asked)
  BY <1>1
<1>3. asked[k] \in AskRecords
  BY <1>1, <1>2
<1>4. asked[k].seen \in Words
  BY <1>3 DEF AskRecords
<1>5. \A a \in AskRecords :
         /\ [asked EXCEPT ![k] = a] \in Seq(AskRecords)
         /\ Len([asked EXCEPT ![k] = a]) = Len(asked)
  BY <1>1, <1>2, ExceptSeq
<1> QED
  BY <1>1, <1>2, <1>3, <1>4, <1>5

LEMMA EndsAsTyped ==
    ASSUME ChatTypes, NEW c \in Callers, NEW k \in DOMAIN asked, k = asking[c].ask,
           NEW end \in Ends
    PROVE  /\ EndsAs(c, end) \in Seq(AskRecords) /\ Len(EndsAs(c, end)) = Len(asked)
           /\ EndsAs(c, end)[k] = [asked[k] EXCEPT !.end = end]
           /\ \A n \in DOMAIN asked \ {k} : EndsAs(c, end)[n] = asked[n]
<1> DEFINE a == [asked[k] EXCEPT !.end = end]
<1>1. a \in AskRecords
  <2>1. asked[k] \in AskRecords
    BY AskedRecords
  <2> QED
    BY <2>1 DEF AskRecords
<1>2. EndsAs(c, end) = [asked EXCEPT ![k] = a]
  BY DEF EndsAs
<1> HIDE DEF a
<1>3. EndsAs(c, end) \in Seq(AskRecords) /\ Len(EndsAs(c, end)) = Len(asked)
  BY <1>1, <1>2, AskedRecords
<1>4. asked \in Seq(AskRecords)
  BY DEF ChatTypes
<1>5. /\ EndsAs(c, end)[k] = a
      /\ \A n \in DOMAIN asked \ {k} : EndsAs(c, end)[n] = asked[n]
  BY <1>2, <1>4
<1> QED
  BY <1>3, <1>5 DEF a

LEMMA ShowsTyped ==
    ASSUME ChatTypes, NEW c \in Callers, asking[c].ask \in DOMAIN asked, NEW pieces \in Words
    PROVE  LET k == asking[c].ask
           IN  /\ Shows(c, pieces) \in Seq(AskRecords) /\ Len(Shows(c, pieces)) = Len(asked)
               /\ Shows(c, pieces)[k] = [asked[k] EXCEPT !.seen = asked[k].seen \o pieces]
               /\ \A n \in DOMAIN asked \ {k} : Shows(c, pieces)[n] = asked[n]
<1> DEFINE k == asking[c].ask
           a == [asked[k] EXCEPT !.seen = asked[k].seen \o pieces]
<1>1. a \in AskRecords
  <2>1. asked[k] \in AskRecords /\ asked[k].seen \in Words
    BY AskedRecords
  <2>2. asked[k].seen \o pieces \in Words
    BY <2>1, SaidConcat
  <2> QED
    BY <2>1, <2>2 DEF AskRecords
<1>2. Shows(c, pieces) = [asked EXCEPT ![k] = a]
  BY DEF Shows
<1> HIDE DEF a
<1>3. Shows(c, pieces) \in Seq(AskRecords) /\ Len(Shows(c, pieces)) = Len(asked)
  BY <1>1, <1>2, AskedRecords
<1>4. asked \in Seq(AskRecords) /\ k \in DOMAIN asked
  BY DEF ChatTypes
<1>5. /\ Shows(c, pieces)[k] = a
      /\ \A n \in DOMAIN asked \ {k} : Shows(c, pieces)[n] = asked[n]
  BY <1>2, <1>4
<1> QED
  BY <1>3, <1>5 DEF a
-----------------------------------------------------------------------------
(* What a step leaves as it was.                                           *)

(* A step about the k-th question: it changes this one alone, and adds to  *)
(* everything else.                                                        *)
Grows(k) ==
    /\ \A n \in DOMAIN asked : n \in DOMAIN asked' /\ (n # k => asked'[n] = asked[n])
    /\ \A i \in DOMAIN messages : i \in DOMAIN messages' /\ messages'[i] = messages[i]
    /\ \A i \in DOMAIN logs : i \in DOMAIN logs' /\ logs'[i] = logs[i]
    /\ \A i \in DOMAIN logs' : i \notin DOMAIN logs => logs'[i].ask = k
    /\ current <= current' /\ ready \subseteq ready'
    /\ Len(sessions) <= Len(sessions')

LEMMA Lengths ==
    ASSUME ChatTypes
    PROVE  /\ DOMAIN sessions = 1..Len(sessions) /\ Len(sessions) \in Nat
           /\ DOMAIN messages = 1..Len(messages) /\ Len(messages) \in Nat
           /\ DOMAIN logs = 1..Len(logs) /\ Len(logs) \in Nat
           /\ DOMAIN asked = 1..Len(asked) /\ Len(asked) \in Nat
           /\ current \in Nat
BY DEF ChatTypes

LEMMA GrownLengths ==
    ASSUME ChatTypes, ChatTypes', NEW k, Grows(k)
    PROVE  /\ DOMAIN sessions \subseteq DOMAIN sessions'
           /\ 0..Len(sessions) \subseteq 0..Len(sessions')
           /\ 1..Len(messages) \subseteq 1..Len(messages')
           /\ \A x \in Nat : x <= current => x <= current'
<1>1. /\ DOMAIN sessions = 1..Len(sessions) /\ Len(sessions) \in Nat
      /\ DOMAIN messages = 1..Len(messages) /\ current \in Nat
  BY Lengths
<1>2. /\ DOMAIN sessions' = 1..Len(sessions') /\ Len(sessions') \in Nat
      /\ DOMAIN messages' = 1..Len(messages') /\ current' \in Nat
  <2>1. /\ sessions' \in Seq(Nat) /\ messages' \in Seq(MessageRecords)
        /\ current' \in 0..Len(Contexts)
    BY DEF ChatTypes
  <2> QED
    BY <2>1
<1>3. 1..Len(messages) \subseteq 1..Len(messages')
  BY <1>1, <1>2 DEF Grows
<1>4. Len(sessions) <= Len(sessions') /\ current <= current'
  BY DEF Grows
<1> QED
  BY <1>1, <1>2, <1>3, <1>4

(* Other questions keep what the log says of them.                         *)
LEMMA GeneratedStays ==
    ASSUME NEW k, Grows(k), NEW n, n # k
    PROVE  /\ (Generated(n))' <=> Generated(n)
           /\ (\A i \in DOMAIN logs : logs[i].ask # n)
                  => \A i \in DOMAIN logs' : logs'[i].ask # n
BY DEF Grows, Generated

(* A message of another question stays what it is.                         *)
LEMMA MessageStays ==
    ASSUME ChatTypes, ChatTypes', NEW k, Grows(k), NEW j \in DOMAIN messages, MessageOK(j),
           messages[j].ask # k
    PROVE  MessageOK(j)'
<1> DEFINE m == messages[j]
<1>1. messages'[j] = m /\ asked'[m.ask] = asked[m.ask] /\ m.ask \in DOMAIN asked'
  BY DEF Grows, MessageOK
<1>2. /\ m.session \in DOMAIN sessions' /\ m.context <= current'
      /\ (m.lines \cup m.reminders # {} => m.context \in ready')
  <2>1. m \in MessageRecords
    BY DEF ChatTypes
  <2>2. m.context \in Nat
    BY <2>1 DEF MessageRecords
  <2> QED
    BY <2>2, GrownLengths DEF MessageOK, Grows
<1>3. (m.kind = "model") <=>
          \E i \in DOMAIN logs' : logs'[i].ask = m.ask /\ logs'[i].decision = "generated"
  <2>1. (m.kind = "model") <=>
            \E i \in DOMAIN logs : logs[i].ask = m.ask /\ logs[i].decision = "generated"
    BY DEF MessageOK, Generated
  <2> QED
    BY <2>1 DEF Grows
<1>5. \A i \in 1..(j - 1) : i \in DOMAIN messages /\ messages'[i] = messages[i]
  <2>1. \A i \in 1..(j - 1) : i \in DOMAIN messages
    BY Lengths
  <2> QED
    BY <2>1 DEF Grows
<1>4. CarriesOn(asked[m.ask].question, m.session, m.intent, j)
  BY DEF MessageOK
<1>6. LET q == asked[m.ask].question
      IN  q.subjects = {} /\ q.hint = "none" =>
              \/ m.intent = "buy_window"
              \/ \E i \in 1..(j - 1) :
                    messages'[i].session = m.session /\ messages'[i].intent = m.intent
  BY <1>4, <1>5 DEF CarriesOn
<1>7. /\ m.ask \in DOMAIN asked' /\ asked'[m.ask].end = "done"
      /\ EndsWith(Said(asked'[m.ask].seen), Said(m.text))
      /\ "warn" \notin ToSet(Said(m.text)) => Said(m.text) = Said(asked'[m.ask].seen)
      /\ m.kind # "wait" => "risk" \in ToSet(Said(asked'[m.ask].seen))
  BY <1>1 DEF MessageOK
<1> QED
  BY <1>1, <1>2, <1>3, <1>6, <1>7 DEF MessageOK, Generated, CarriesOn

(* A request of another question stays what it is.                         *)
LEMMA RequestStays ==
    ASSUME ChatTypes, ChatTypes', NEW k, Grows(k), NEW d \in Callers, Busy(d), OwnInv(d),
           asking'[d] = asking[d], asking[d].ask # k,
           \A e \in Callers \ {d} : asking'[e].at # "idle" => asking'[e].ask # asking[d].ask
    PROVE  OwnInv(d)'
<1> DEFINE r == asking[d]
           seen == asked[r.ask].seen
<1>1. /\ r.ask \in DOMAIN asked /\ asked[r.ask].end = "open"
      /\ asked[r.ask].question = r.question
  BY DEF OwnInv, OwnAsk
<1>2. r.ask \in DOMAIN asked' /\ asked'[r.ask] = asked[r.ask]
  BY <1>1 DEF Grows
<1>3. OwnAsk(d)'
  BY <1>1, <1>2 DEF OwnAsk, Busy
<1>4. OwnSession(r)'
  <2>1. OwnSession(r)
    BY DEF OwnInv
  <2> QED
    BY <2>1, GrownLengths DEF OwnSession
<1>5. OwnContext(d, r)'
  <2>1. OwnContext(d, r)
    BY DEF OwnInv
  <2>2. r.context \in Nat
    BY ChatRequestFields DEF ChatTypes
  <2>3. r.context <= current => r.context <= current'
    BY <2>2, GrownLengths
  <2>4. r.context \in ready => r.context \in ready'
    BY DEF Grows
  <2>5. \A i \in 1..((Len(messages) + 1) - 1) :
           i \in 1..((Len(messages') + 1) - 1) /\ messages'[i] = messages[i]
    <3>1. /\ Len(messages) \in Nat /\ DOMAIN messages = 1..Len(messages)
          /\ 1..Len(messages) \subseteq 1..Len(messages')
      BY Lengths, GrownLengths
    <3>2. Len(messages') \in Nat
      BY DEF ChatTypes
    <3>3. (Len(messages) + 1) - 1 = Len(messages) /\ (Len(messages') + 1) - 1 = Len(messages')
      BY <3>1, <3>2
    <3> QED
      BY <3>1, <3>3 DEF Grows
  <2>6. CarriesOn(r.question, r.session, r.intent, Len(messages) + 1)
         => LET q == r.question
            IN  q.subjects = {} /\ q.hint = "none" =>
                    \/ r.intent = "buy_window"
                    \/ \E i \in 1..((Len(messages') + 1) - 1) :
                          messages'[i].session = r.session /\ messages'[i].intent = r.intent
    BY <2>5 DEF CarriesOn
  <2> QED
    BY <2>1, <2>3, <2>4, <2>6 DEF OwnContext, CarriesOn, StreamsAs
<1>6. OwnAnswer(d, r, seen)'
  <2>1. OwnAnswer(d, r, seen)
    BY DEF OwnInv
  <2>2. /\ (\A i \in DOMAIN logs : logs[i].ask # r.ask)
              => \A i \in DOMAIN logs' : logs'[i].ask # r.ask
        /\ (\E i \in DOMAIN logs : logs[i].ask = r.ask /\ logs[i].decision = "generated")
              <=> \E i \in DOMAIN logs' : logs'[i].ask = r.ask /\ logs'[i].decision = "generated"
    BY DEF Grows
  <2> QED
    BY <1>2, <2>1, <2>2 DEF OwnAnswer, StreamsAs, Generated
<1> QED
  BY <1>3, <1>4, <1>5, <1>6 DEF OwnInv

LEMMA TwiceAppended ==
    ASSUME NEW S, NEW rows \in Seq(S), NEW row \in S, ~Twice(rows),
           \A i \in DOMAIN rows : rows[i].ask # row.ask
    PROVE  ~Twice(Append(rows, row))
<1>1. /\ Len(rows) \in Nat /\ DOMAIN rows = 1..Len(rows)
      /\ DOMAIN Append(rows, row) = 1..(Len(rows) + 1)
      /\ \A i \in 1..Len(rows) : Append(rows, row)[i] = rows[i]
      /\ Append(rows, row)[Len(rows) + 1] = row
  OBVIOUS
<1>2. \A i \in 1..(Len(rows) + 1) : i \in 1..Len(rows) \/ i = Len(rows) + 1
  BY <1>1
<1> QED
  BY <1>1, <1>2 DEF Twice

(* A step of a request keeps the messages and the other request, when its  *)
(* own question ends without an answer or stays open and in its place.     *)
LEMMA StepKeeps ==
    ASSUME ChatInv, ChatTypes', NEW c \in Callers, Busy(c),
           \A d \in Callers \ {c} : asking'[d] = asking[d],
           messages' = messages, DOMAIN asked' = DOMAIN asked,
           \A n \in DOMAIN asked \ {asking[c].ask} : asked'[n] = asked[n],
           \/ logs' = logs
           \/ /\ asking[c].at # "save"
              /\ \E x \in LogRecords : x.ask = asking[c].ask /\ logs' = Append(logs, x),
           UNCHANGED <<current, ready>>, Len(sessions) <= Len(sessions'),
           \/ asking'[c].at = "idle" /\ asked'[asking[c].ask].end # "done"
           \/ /\ asking'[c].ask = asking[c].ask /\ asking'[c].question = asking[c].question
              /\ asked'[asking[c].ask].end = asked[asking[c].ask].end
              /\ asked'[asking[c].ask].question = asked[asking[c].ask].question
              /\ OwnSession(asking[c])' /\ OwnContext(c, asking[c])'
              /\ OwnAnswer(c, asking[c], asked[asking[c].ask].seen)'
    PROVE  ChatInv'
<1>1. OwnInv(c) /\ ChatTypes /\ MessageInv /\ RequestsInv
  BY DEF ChatInv, RequestsInv
<1>2. PICK k : k = asking[c].ask
  OBVIOUS
<1>3. /\ k \in DOMAIN asked /\ asked[k].end = "open" /\ asked[k].question = asking[c].question
      /\ \A d \in Callers \ {c} : Busy(d) => asking[d].ask # k
  BY <1>1, <1>2 DEF OwnInv, OwnAsk
<1>4. /\ Len(logs) \in Nat /\ DOMAIN logs = 1..Len(logs)
      /\ \A x \in LogRecords :
            /\ DOMAIN Append(logs, x) = 1..(Len(logs) + 1)
            /\ \A i \in 1..Len(logs) : Append(logs, x)[i] = logs[i]
            /\ Append(logs, x)[Len(logs) + 1] = x
  <2>1. logs \in Seq(LogRecords)
    BY <1>1 DEF ChatTypes
  <2>2. \A x \in LogRecords :
           /\ Append(logs, x) \in Seq(LogRecords) /\ Len(Append(logs, x)) = Len(logs) + 1
           /\ \A i \in 1..Len(logs) : Append(logs, x)[i] = logs[i]
           /\ Append(logs, x)[Len(logs) + 1] = x
    BY <2>1, AppendProperties
  <2> QED
    BY ONLY <2>1, <2>2
<1>5. /\ \A i \in DOMAIN logs : i \in DOMAIN logs' /\ logs'[i] = logs[i]
      /\ \A i \in DOMAIN logs' : i \notin DOMAIN logs => logs'[i].ask = k
  <2>1. CASE logs' = logs
    BY <2>1
  <2>2. CASE \E x \in LogRecords : x.ask = k /\ logs' = Append(logs, x)
    <3>1. PICK x \in LogRecords : x.ask = k /\ logs' = Append(logs, x)
      BY <2>2
    <3>2. \A i \in 1..(Len(logs) + 1) : i \in 1..Len(logs) \/ i = Len(logs) + 1
      BY <1>4
    <3>3. \A i \in 1..Len(logs) : i \in 1..(Len(logs) + 1)
      BY <1>4
    <3> QED
      BY <1>4, <3>1, <3>2, <3>3
  <2> QED
    BY <1>2, <2>1, <2>2
<1>6. Grows(k)
  <2>1. current <= current'
    BY <1>1 DEF ChatTypes
  <2> QED
    BY <1>2, <1>5, <2>1 DEF Grows
<1>7. RequestsInv'
  <2> SUFFICES ASSUME NEW d \in Callers, Busy(d)' PROVE OwnInv(d)'
    BY DEF RequestsInv
  <2>1. CASE d # c
    <3>1. asking'[d] = asking[d] /\ Busy(d) /\ OwnInv(d)
      BY <1>1, <2>1 DEF Busy, RequestsInv
    <3>2. asking[d].ask # k
      BY <1>3, <2>1, <3>1
    <3>3. \A e \in Callers \ {d} : asking'[e].at # "idle" => asking'[e].ask # asking[d].ask
      <4> TAKE e \in Callers \ {d}
      <4>1. e = c
        BY <2>1 DEF Callers
      <4>2. CASE asking'[c].at = "idle"
        BY <4>1, <4>2
      <4>3. CASE asking'[c].ask = asking[c].ask
        BY <1>2, <3>2, <4>1, <4>3
      <4> QED
        BY <4>2, <4>3
    <3> QED
      BY <1>1, <1>6, <3>1, <3>2, <3>3, RequestStays
  <2>2. CASE d = c
    <3>1. /\ asking'[c].ask = k /\ asking'[c].question = asking[c].question
          /\ asked'[k].end = "open" /\ asked'[k].question = asking[c].question
          /\ OwnSession(asking[c])' /\ OwnContext(c, asking[c])'
          /\ OwnAnswer(c, asking[c], asked[asking[c].ask].seen)'
      BY <1>2, <1>3, <2>2 DEF Busy
    <3>2. OwnAsk(c)'
      <4>1. \A e \in Callers \ {c} : Busy(e)' => asking'[e].ask # k
        BY <1>3 DEF Busy
      <4> QED
        BY <1>3, <3>1, <4>1 DEF OwnAsk, Busy
    <3> QED
      BY <2>2, <3>1, <3>2 DEF OwnInv
  <2> QED
    BY <2>1, <2>2
<1>8. MessageInv'
  <2>1. ~Twice(messages') /\ ~Twice(logs')
    <3>1. ~Twice(messages')
      BY <1>1 DEF MessageInv, Twice
    <3>2. CASE logs' = logs
      BY <1>1, <3>1, <3>2 DEF MessageInv, Twice
    <3>3. CASE /\ asking[c].at # "save"
               /\ \E x \in LogRecords : x.ask = asking[c].ask /\ logs' = Append(logs, x)
      <4>1. PICK x \in LogRecords : x.ask = k /\ logs' = Append(logs, x)
        BY <1>2, <3>3
      <4>2. \A i \in DOMAIN logs : logs[i].ask # x.ask
        BY <1>1, <1>2, <3>3, <4>1 DEF OwnInv, OwnAnswer
      <4>3. ~Twice(logs) /\ logs \in Seq(LogRecords)
        BY <1>1 DEF MessageInv, ChatTypes
      <4>4. ~Twice(Append(logs, x))
        BY <4>2, <4>3, TwiceAppended
      <4> QED
        BY <3>1, <4>1, <4>4 DEF Twice
    <3> QED
      BY <3>2, <3>3
  <2>2. \A i \in DOMAIN logs' : logs'[i].ask \in DOMAIN asked'
    BY <1>1, <1>3, <1>5 DEF MessageInv
  <2>3. \A n \in DOMAIN asked' :
           asked'[n].end = "done" => \E i \in DOMAIN messages' : messages'[i].ask = n
    <3> SUFFICES ASSUME NEW n \in DOMAIN asked, asked'[n].end = "done"
                 PROVE  \E i \in DOMAIN messages : messages[i].ask = n
      OBVIOUS
    <3>1. n # k
      BY <1>2, <1>3
    <3>2. asked[n].end = "done"
      BY <1>2, <3>1
    <3> QED
      BY <1>1, <3>2 DEF MessageInv
  <2>4. ASSUME NEW j \in DOMAIN messages' PROVE MessageOK(j)'
    <3>1. j \in DOMAIN messages /\ MessageOK(j)
      BY <1>1 DEF MessageInv
    <3>2. messages[j].ask # k
      BY <1>3, <3>1 DEF MessageOK
    <3> QED
      BY <1>1, <1>6, <3>1, <3>2, MessageStays
  <2> QED
    BY <2>1, <2>2, <2>3, <2>4 DEF MessageInv
<1> QED
  BY <1>7, <1>8 DEF ChatInv
-----------------------------------------------------------------------------
(* The steps of a request.                                                 *)

LEMMA RequestFacts ==
    ASSUME ChatInv, NEW c \in Callers, Busy(c)
    PROVE  /\ ChatTypes /\ asking[c] \in RequestRecords /\ OwnInv(c)
           /\ asking[c].ask \in DOMAIN asked /\ asked[asking[c].ask].end = "open"
           /\ asked[asking[c].ask].seen \in Words /\ asked[asking[c].ask] \in AskRecords
<1>1. ChatTypes /\ asking[c] \in RequestRecords /\ OwnInv(c)
  BY DEF ChatInv, ChatTypes, RequestsInv
<1>2. asking[c].ask \in DOMAIN asked /\ asked[asking[c].ask].end = "open"
  BY <1>1 DEF OwnInv, OwnAsk
<1> QED
  BY <1>1, <1>2, AskedRecords

(* A request goes on with its question, and its client sees more.          *)
LEMMA Moves ==
    ASSUME ChatInv, NEW c \in Callers, Busy(c), NEW r \in RequestRecords, Goes(c, r),
           UNCHANGED <<world, stored>>, r.ask = asking[c].ask,
           r.question = asking[c].question, NEW seen \in Words,
           \/ asked' = asked /\ seen = asked[asking[c].ask].seen
           \/ \E pieces \in Words :
                 /\ asked' = Shows(c, pieces)
                 /\ seen = asked[asking[c].ask].seen \o pieces,
           OwnSession(r), OwnContext(c, r), OwnAnswer(c, r, seen)
    PROVE  ChatInv'
<1>1. /\ ChatTypes /\ asking[c].ask \in DOMAIN asked /\ asked[asking[c].ask] \in AskRecords
  BY RequestFacts
<1>2. /\ asking' \in [Callers -> RequestRecords] /\ asking'[c] = r
      /\ \A d \in Callers \ {c} : asking'[d] = asking[d]
  BY <1>1, GoesTo
<1>3. PICK k : k = asking[c].ask
  OBVIOUS
<1>4. /\ asked' \in Seq(AskRecords) /\ Len(asked') = Len(asked)
      /\ \A n \in DOMAIN asked \ {k} : asked'[n] = asked[n]
      /\ asked'[k].seen = seen /\ asked'[k].end = asked[k].end
      /\ asked'[k].question = asked[k].question
  <2>1. CASE asked' = asked /\ seen = asked[asking[c].ask].seen
    BY <1>1, <1>3, <2>1 DEF ChatTypes
  <2>2. CASE \E pieces \in Words :
                asked' = Shows(c, pieces) /\ seen = asked[asking[c].ask].seen \o pieces
    <3>1. PICK pieces \in Words : asked' = Shows(c, pieces) /\ seen = asked[k].seen \o pieces
      BY <1>3, <2>2
    <3>2. /\ asked' \in Seq(AskRecords) /\ Len(asked') = Len(asked)
          /\ asked'[k] = [asked[k] EXCEPT !.seen = asked[k].seen \o pieces]
          /\ \A n \in DOMAIN asked \ {k} : asked'[n] = asked[n]
      BY <1>1, <1>3, <3>1, ShowsTyped
    <3>3. asked[k] \in AskRecords
      BY <1>1, <1>3
    <3> QED
      BY <3>1, <3>2, <3>3 DEF AskRecords
  <2> QED
    BY <2>1, <2>2
<1>5. ChatTypes'
  BY <1>1, <1>2, <1>4 DEF ChatTypes, world, stored
<1>6. DOMAIN asked' = DOMAIN asked
  BY <1>1, <1>4 DEF ChatTypes
<1>7. /\ OwnSession(asking[c])' /\ OwnContext(c, asking[c])'
      /\ OwnAnswer(c, asking[c], asked[asking[c].ask].seen)'
  <2>1. asked'[asking'[c].ask].seen = seen
    BY <1>2, <1>3, <1>4
  <2>2. /\ asking'[c] = r /\ messages' = messages /\ logs' = logs /\ sessions' = sessions
        /\ current' = current /\ ready' = ready
    BY <1>2 DEF world, stored
  <2>3. OwnSession(asking[c])'
    BY <2>2 DEF OwnSession
  <2>4. OwnContext(c, asking[c])'
    BY <2>2 DEF OwnContext, CarriesOn, StreamsAs
  <2>5. OwnAnswer(c, asking[c], asked[asking[c].ask].seen)'
    BY <2>1, <2>2 DEF OwnAnswer, Generated, StreamsAs
  <2> QED
    BY <2>3, <2>4, <2>5
<1>8. messages' = messages /\ logs' = logs /\ UNCHANGED <<current, ready>> /\ sessions' = sessions
  BY DEF world, stored
<1>9. Len(sessions) <= Len(sessions')
  BY <1>1, <1>8, Lengths
<1> QED
  BY <1>2, <1>3, <1>4, <1>5, <1>6, <1>7, <1>8, <1>9, StepKeeps

(* A request ends without a message.                                       *)
LEMMA Closing ==
    ASSUME ChatInv, NEW c \in Callers, Busy(c), NEW end \in {"error", "raised", "gone"},
           Closes(c, end), UNCHANGED <<world, sessions, recent, messages>>,
           \/ logs' = logs
           \/ /\ asking[c].at # "save"
              /\ \E x \in LogRecords : x.ask = asking[c].ask /\ logs' = Append(logs, x)
    PROVE  ChatInv'
<1>1. ChatTypes /\ asking[c].ask \in DOMAIN asked /\ asked[asking[c].ask] \in AskRecords
  BY RequestFacts
<1>2. Goes(c, Quiet) /\ asked' = EndsAs(c, end)
  BY DEF Closes
<1>3. /\ asking' \in [Callers -> RequestRecords] /\ asking'[c].at = "idle"
      /\ \A d \in Callers \ {c} : asking'[d] = asking[d]
  BY <1>1, <1>2, GoesTo, QuietTyped
<1>4. PICK k : k = asking[c].ask
  OBVIOUS
<1>5. /\ asked' \in Seq(AskRecords) /\ Len(asked') = Len(asked)
      /\ asked'[k] = [asked[k] EXCEPT !.end = end]
      /\ \A n \in DOMAIN asked \ {k} : asked'[n] = asked[n]
  <2>1. end \in Ends
    BY DEF Ends
  <2> QED
    BY <1>1, <1>2, <1>4, <2>1, EndsAsTyped
<1>6. asked'[k].end = end /\ end # "done"
  <2>1. asked[k] \in AskRecords
    BY <1>1, <1>4
  <2> QED
    BY <1>5, <2>1 DEF AskRecords
<1>7. ChatTypes'
  <2>1. logs' \in Seq(LogRecords)
    <3>1. logs \in Seq(LogRecords)
      BY <1>1 DEF ChatTypes
    <3>2. \A x \in LogRecords : Append(logs, x) \in Seq(LogRecords)
      BY <3>1, AppendProperties
    <3> QED
      BY <3>1, <3>2
  <2> QED
    BY <1>1, <1>3, <1>5, <2>1 DEF ChatTypes, world
<1>8. DOMAIN asked' = DOMAIN asked
  BY <1>1, <1>5 DEF ChatTypes
<1>9. UNCHANGED <<current, ready>> /\ Len(sessions) <= Len(sessions')
  BY <1>1, Lengths DEF world
<1> QED
  BY <1>3, <1>4, <1>5, <1>6, <1>7, <1>8, <1>9, StepKeeps

LEMMA RaisesStep ==
    ASSUME ChatInv, NEW c \in Callers, Raises(c) \/ Leaves(c)
    PROVE  ChatInv'
<1>1. Busy(c)
  BY DEF Raises, Leaves, At, Busy
<1>2. UNCHANGED <<world, stored>> /\ (Closes(c, "raised") \/ Closes(c, "gone"))
  BY DEF Raises, Leaves
<1> QED
  BY <1>1, <1>2, Closing DEF stored

LEMMA ReadContextStep ==
    ASSUME ChatInv, NEW c \in Callers, ReadContext(c)
    PROVE  ChatInv'
<1>1. Busy(c) /\ UNCHANGED <<world, stored, asked>> /\ asking[c].at = "context"
  BY DEF ReadContext, At, Busy
<1>2. /\ ChatTypes /\ asking[c] \in RequestRecords /\ asked[asking[c].ask].seen \in Words
      /\ OwnSession(asking[c]) /\ OwnContext(c, asking[c])
      /\ OwnAnswer(c, asking[c], asked[asking[c].ask].seen)
  BY <1>1, RequestFacts DEF OwnInv
<1> DEFINE r == asking[c]
           nested == [r EXCEPT !.nested = TRUE]
           read == [r EXCEPT !.at = "session", !.context = current, !.ready = current \in ready]
<1>3. CASE Streams(c) /\ current \notin ready
  <2>1. Goes(c, nested)
    BY <1>3 DEF ReadContext
  <2>2. /\ nested \in RequestRecords /\ nested.ask = r.ask /\ nested.question = r.question
        /\ nested.at = "context" /\ nested.given = r.given
    BY <1>1, <1>2 DEF RequestRecords
  <2>3. OwnSession(nested) /\ OwnContext(c, nested) /\ OwnAnswer(c, nested, asked[r.ask].seen)
    BY <1>1, <1>2, <2>2 DEF OwnSession, OwnContext, OwnAnswer
  <2> HIDE DEF nested
  <2> QED
    BY <1>1, <1>2, <2>1, <2>2, <2>3, Moves
<1>4. CASE ~(Streams(c) /\ current \notin ready)
  <2>1. Goes(c, read)
    BY <1>4 DEF ReadContext
  <2>2. current \in Nat /\ current \in Int
    BY <1>2 DEF ChatTypes
  <2>3. /\ read \in RequestRecords /\ read.ask = r.ask /\ read.question = r.question
        /\ read.at = "session" /\ read.given = r.given /\ read.context = current
        /\ read.nested = r.nested
    <3> DEFINE told == [r EXCEPT !.at = "session", !.context = current, !.ready = TRUE]
               untold == [r EXCEPT !.at = "session", !.context = current, !.ready = FALSE]
    <3>1. read = told \/ read = untold
      <4>1. (current \in ready) = TRUE \/ (current \in ready) = FALSE
        OBVIOUS
      <4> QED
        BY <4>1, Zenon
    <3> HIDE DEF read
    <3>2. /\ told \in RequestRecords /\ told.ask = r.ask /\ told.question = r.question
          /\ told.at = "session" /\ told.given = r.given /\ told.context = current
          /\ told.nested = r.nested
      BY <1>2, <2>2 DEF RequestRecords
    <3>3. /\ untold \in RequestRecords /\ untold.ask = r.ask /\ untold.question = r.question
          /\ untold.at = "session" /\ untold.given = r.given /\ untold.context = current
          /\ untold.nested = r.nested
      BY <1>2, <2>2 DEF RequestRecords
    <3> QED
      BY <3>1, <3>2, <3>3
  <2>4. read.ready <=> current \in ready
    BY <1>2, Zenon DEF RequestRecords
  <2> HIDE DEF read
  <2>5. OwnSession(read) /\ OwnContext(c, read) /\ OwnAnswer(c, read, asked[r.ask].seen)
    BY <1>1, <1>2, <1>4, <2>2, <2>3, <2>4
       DEF OwnSession, OwnContext, OwnAnswer, StreamsAs, Streams
  <2> QED
    BY <1>1, <1>2, <2>1, <2>3, <2>5, Moves
<1> QED
  BY <1>3, <1>4

LEMMA FindSessionStep ==
    ASSUME ChatInv, NEW c \in Callers, FindSession(c)
    PROVE  ChatInv'
<1>1. Busy(c) /\ UNCHANGED <<world, stored>> /\ asking[c].at = "session"
  BY DEF FindSession, At, Busy
<1>2. /\ ChatTypes /\ asking[c] \in RequestRecords /\ asked[asking[c].ask].seen \in Words
      /\ OwnSession(asking[c]) /\ OwnContext(c, asking[c])
      /\ OwnAnswer(c, asking[c], asked[asking[c].ask].seen)
  BY <1>1, RequestFacts DEF OwnInv
<1> DEFINE r == asking[c]
           match == IF r.given # None THEN r.given ELSE recent
           new == [r EXCEPT !.at = "write", !.session = match]
<1>3. CASE match = Unknown
  <2>1. Closes(c, "error")
    BY <1>3 DEF FindSession
  <2> QED
    BY <1>1, <2>1, Closing DEF stored
<1>4. CASE match # Unknown
  <2>1. Goes(c, new) /\ asked' = asked
    BY <1>4 DEF FindSession
  <2>2. match \in 0..Len(sessions) /\ match \in Int
    <3>1. /\ recent \in 0..Len(sessions) /\ Len(sessions) \in Nat
          /\ DOMAIN sessions = 1..Len(sessions)
      BY <1>2, Lengths DEF ChatTypes
    <3>2. r.given \in {None, Unknown} \cup DOMAIN sessions
      BY <1>1, <1>2 DEF OwnSession
    <3>3. match \in 0..Len(sessions)
      BY <1>4, <3>1, <3>2
    <3> QED
      BY <3>1, <3>3
  <2> HIDE DEF match
  <2>3. /\ new \in RequestRecords /\ new.ask = r.ask /\ new.question = r.question
        /\ new.at = "write" /\ new.session = match /\ new.context = r.context
        /\ new.nested = r.nested /\ new.ready = r.ready
    BY <1>2, <2>2 DEF RequestRecords
  <2> HIDE DEF new
  <2>4. OwnSession(new) /\ OwnContext(c, new) /\ OwnAnswer(c, new, asked[r.ask].seen)
    BY <1>1, <1>2, <2>2, <2>3 DEF OwnSession, OwnContext, OwnAnswer, StreamsAs
  <2> QED
    BY <1>1, <1>2, <2>1, <2>3, <2>4, Moves
<1> QED
  BY <1>3, <1>4

LEMMA WriteSessionStep ==
    ASSUME ChatInv, NEW c \in Callers, WriteSession(c)
    PROVE  ChatInv'
<1> DEFINE r == asking[c]
           s == IF r.session = None THEN Len(sessions) + 1 ELSE r.session
           new == [r EXCEPT !.at = "talk", !.session = s]
<1>1. /\ Busy(c) /\ UNCHANGED <<world, messages, logs, asked>> /\ r.at = "write"
      /\ sessions' = IF r.session = None THEN Append(sessions, r.context)
                     ELSE [sessions EXCEPT ![s] = r.context]
      /\ recent' = s /\ Goes(c, new)
  BY DEF WriteSession, At, Busy
<1>2. /\ ChatTypes /\ r \in RequestRecords /\ asked[r.ask].end = "open" /\ r.ask \in DOMAIN asked
      /\ OwnSession(r) /\ OwnContext(c, r) /\ OwnAnswer(c, r, asked[r.ask].seen)
  BY <1>1, RequestFacts DEF OwnInv
<1>3. /\ sessions \in Seq(Nat) /\ Len(sessions) \in Nat
      /\ \A i \in 1..Len(sessions) : sessions[i] <= current
  BY <1>2, Lengths DEF ChatTypes
<1>4. r.session \in 0..Len(sessions) /\ r.context \in Nat /\ r.context <= current
  BY <1>1, <1>2, ChatRequestFields DEF OwnSession, OwnContext
<1>5. /\ sessions' \in Seq(Nat) /\ \A i \in 1..Len(sessions') : sessions'[i] <= current
      /\ Len(sessions) <= Len(sessions') /\ s \in 1..Len(sessions') /\ s \in Int
  <2>1. CASE r.session = None
    <3>1. sessions' = Append(sessions, r.context) /\ s = Len(sessions) + 1
      BY <1>1, <2>1
    <3>2. /\ sessions' \in Seq(Nat) /\ Len(sessions') = Len(sessions) + 1
          /\ \A i \in 1..Len(sessions) : sessions'[i] = sessions[i]
          /\ sessions'[Len(sessions) + 1] = r.context
      BY <1>3, <1>4, <3>1, AppendProperties
    <3> HIDE DEF s
    <3>3. \A i \in 1..Len(sessions') : i \in 1..Len(sessions) \/ i = Len(sessions) + 1
      BY <1>3, <3>2
    <3>4. \A i \in 1..Len(sessions') : sessions'[i] <= current
      BY <1>3, <1>4, <3>2, <3>3
    <3>5. Len(sessions) <= Len(sessions') /\ s \in 1..Len(sessions') /\ s \in Int
      BY <1>3, <3>1, <3>2
    <3> QED
      BY <3>2, <3>4, <3>5
  <2>2. CASE r.session # None
    <3>1. sessions' = [sessions EXCEPT ![s] = r.context] /\ s = r.session
      BY <1>1, <2>2
    <3> HIDE DEF s
    <3>2. s \in 1..Len(sessions)
      BY <1>3, <1>4, <2>2, <3>1 DEF None
    <3>3. /\ sessions' \in Seq(Nat) /\ Len(sessions') = Len(sessions)
          /\ \A i \in 1..Len(sessions) : sessions'[i] = IF i = s THEN r.context ELSE sessions[i]
      BY <1>3, <1>4, <3>1, <3>2, ExceptSeq
    <3>4. \A i \in 1..Len(sessions') : sessions'[i] <= current
      BY <1>3, <1>4, <3>3
    <3>5. Len(sessions) <= Len(sessions') /\ s \in Int
      BY <1>3, <3>2, <3>3
    <3> QED
      BY <3>2, <3>3, <3>4, <3>5
  <2> QED
    BY <2>1, <2>2
<1> HIDE DEF s
<1>6. /\ new \in RequestRecords /\ new.ask = r.ask /\ new.question = r.question
      /\ new.at = "talk" /\ new.session = s /\ new.context = r.context
      /\ new.nested = r.nested /\ new.ready = r.ready
  BY <1>2, <1>5 DEF RequestRecords
<1> HIDE DEF new
<1>7. /\ asking' \in [Callers -> RequestRecords] /\ asking'[c] = new
      /\ \A d \in Callers \ {c} : asking'[d] = asking[d]
  BY <1>1, <1>2, <1>6, GoesTo
<1>8. ChatTypes'
  <2>1. recent' \in 0..Len(sessions') /\ (recent' = None <=> sessions' = <<>>)
    <3>1. sessions' # <<>> /\ Len(sessions') \in Nat
      BY <1>5
    <3> QED
      BY <1>1, <1>5, <3>1 DEF None
  <2> QED
    BY <1>1, <1>2, <1>5, <1>7, <2>1 DEF ChatTypes, world
<1>9. /\ OwnSession(asking[c])' /\ OwnContext(c, asking[c])'
      /\ OwnAnswer(c, asking[c], asked[asking[c].ask].seen)'
  <2>1. DOMAIN sessions' = 1..Len(sessions')
    BY <1>5
  <2> QED
    BY <1>1, <1>2, <1>5, <1>6, <1>7, <2>1
       DEF OwnSession, OwnContext, OwnAnswer, CarriesOn, Generated, StreamsAs, world
<1> QED
  BY <1>1, <1>2, <1>5, <1>6, <1>7, <1>8, <1>9, StepKeeps DEF world

(* The intent of a question is one of its own, or, when it says nothing,   *)
(* that of the last message of its session.                                *)
LEMMA LastIntents ==
    ASSUME ChatTypes, NEW s
    PROVE  /\ LastIntent(s) \in Intents \cup {NoIntent}
           /\ LastIntent(s) # NoIntent =>
                 \E i \in 1..Len(messages) :
                    messages[i].session = s /\ messages[i].intent = LastIntent(s)
<1>1. /\ Len(messages) \in Nat /\ DOMAIN messages = 1..Len(messages)
      /\ \A i \in 1..Len(messages) : messages[i].intent \in Intents
  <2>1. messages \in Seq(MessageRecords)
    BY DEF ChatTypes
  <2>2. \A i \in 1..Len(messages) : messages[i] \in MessageRecords
    BY <2>1
  <2>3. \A m \in MessageRecords : m.intent \in Intents
    BY DEF MessageRecords
  <2> QED
    BY <2>1, <2>2, <2>3
<1>2. CASE OfSession(s) = {}
  BY <1>2 DEF LastIntent
<1>3. CASE OfSession(s) # {}
  <2> DEFINE last == CHOOSE i \in OfSession(s) : \A k \in OfSession(s) : k <= i
  <2>1. OfSession(s) \subseteq 0..Len(messages)
    BY <1>1 DEF OfSession
  <2>2. \E i \in OfSession(s) : \A k \in OfSession(s) : k <= i
    BY <1>1, <1>3, <2>1, GreatestBelow
  <2>3. last \in OfSession(s)
    BY <2>2
  <2>4. LastIntent(s) = messages[last].intent
    BY <1>3 DEF LastIntent
  <2> HIDE DEF last
  <2> QED
    BY <1>1, <2>3, <2>4 DEF OfSession
<1> QED
  BY <1>2, <1>3

LEMMA Classified ==
    ASSUME ChatTypes, NEW q, NEW s
    PROVE  LET intent == Classify(q, LastIntent(s))
           IN  intent \in Intents /\ CarriesOn(q, s, intent, Len(messages) + 1)
<1> DEFINE last == LastIntent(s)
           intent == Classify(q, last)
           named == {i \in DOMAIN Precedence : Precedence[i] \in q.subjects}
           first == CHOOSE i \in named : \A k \in named : i <= k
<1>1. /\ last \in Intents \cup {NoIntent}
      /\ last # NoIntent =>
            \E i \in 1..Len(messages) : messages[i].session = s /\ messages[i].intent = last
  BY LastIntents
<1>2. DOMAIN Precedence = 1..9 /\ \A i \in 1..9 : Precedence[i] \in Intents
  <2>1. DOMAIN Precedence = 1..9
    BY DEF Precedence
  <2>2. \A i \in DOMAIN Precedence : Precedence[i] \in ToSet(Precedence)
    BY DEF ToSet
  <2> QED
    BY <2>1, <2>2 DEF Intents
<1>3. "buy_window" \in Intents
  BY DEF Intents
<1>4. 1..((Len(messages) + 1) - 1) = 1..Len(messages)
  BY Lengths
<1> HIDE DEF last
<1>5. CASE named # {}
  <2>1. \E i \in named : \A k \in named : i <= k
    <3>1. named \subseteq Nat
      BY <1>2
    <3> QED
      BY <1>5, <3>1, LeastNatural
  <2>2. first \in named
    BY <2>1
  <2>3. intent = Precedence[first]
    BY <1>5 DEF Classify
  <2> HIDE DEF first
  <2>4. q.subjects # {}
    BY <1>5
  <2> QED
    BY <1>2, <2>2, <2>3, <2>4 DEF CarriesOn, last
<1>6. CASE named = {} /\ q.carries /\ last # NoIntent
  <2>1. intent = FollowUp(q, last)
    BY <1>6 DEF Classify
  <2>2. CASE q.hint \in DOMAIN Hinted
    <3>1. \A hint \in DOMAIN Hinted : Hinted[hint] \in Intents /\ hint # "none"
      <4>1. DOMAIN Hinted = {"falls", "wakes", "errs"}
        BY DEF Hinted
      <4>2. {Hinted["falls"], Hinted["wakes"], Hinted["errs"]}
                = {"invalidation", "reminder", "review"}
        BY DEF Hinted
      <4>3. {"invalidation", "reminder", "review"} \subseteq Intents
        <5>1. Precedence[2] = "review" /\ Precedence[3] = "invalidation" /\ Precedence[5] = "reminder"
          BY DEF Precedence
        <5> QED
          BY <1>2, <5>1
      <4> QED
        BY <4>1, <4>2, <4>3
    <3>2. intent = Hinted[q.hint]
      BY <2>1, <2>2 DEF FollowUp
    <3> QED
      BY <2>2, <3>1, <3>2 DEF CarriesOn, last
  <2>3. CASE q.hint \notin DOMAIN Hinted
    <3>1. intent = last \/ intent = "buy_window"
      BY <2>1, <2>3 DEF FollowUp
    <3> QED
      BY <1>1, <1>3, <1>4, <1>6, <3>1 DEF CarriesOn, last
  <2> QED
    BY <2>2, <2>3
<1>7. CASE named = {} /\ ~(q.carries /\ last # NoIntent)
  <2>1. intent = "buy_window"
    BY <1>7 DEF Classify
  <2> QED
    BY <1>3, <2>1 DEF CarriesOn, last
<1> QED
  BY <1>5, <1>6, <1>7

LEMMA ReadTalkStep ==
    ASSUME ChatInv, NEW c \in Callers, ReadTalk(c)
    PROVE  ChatInv'
<1> DEFINE r == asking[c]
           intent == Classify(r.question, LastIntent(r.session))
           told == [r EXCEPT !.intent = intent]
           Waits(text) == [told EXCEPT !.at = "save", !.kind = "wait", !.text = text]
           ahead == [told EXCEPT !.at = "memory"]
<1>1. /\ Busy(c) /\ UNCHANGED <<world, stored, asked>> /\ r.at = "talk"
      /\ Goes(c, IF told.context = None THEN Waits(<<"wait", "risk">>)
                 ELSE IF ~told.ready THEN Waits(<<"later">>) ELSE ahead)
  BY DEF ReadTalk, At, Busy
<1>2. /\ ChatTypes /\ r \in RequestRecords /\ asked[r.ask].seen \in Words
      /\ OwnSession(r) /\ OwnContext(c, r) /\ OwnAnswer(c, r, asked[r.ask].seen)
  BY <1>1, RequestFacts DEF OwnInv
<1>3. intent \in Intents /\ CarriesOn(r.question, r.session, intent, Len(messages) + 1)
  BY <1>2, Classified
<1> HIDE DEF intent
<1>4. told.context = r.context /\ told.ready = r.ready
  BY <1>2 DEF RequestRecords
<1>5. ASSUME NEW text \in Words, ~r.ready
      PROVE  /\ Waits(text) \in RequestRecords
             /\ Waits(text).ask = r.ask /\ Waits(text).question = r.question
             /\ OwnSession(Waits(text)) /\ OwnContext(c, Waits(text))
             /\ OwnAnswer(c, Waits(text), asked[r.ask].seen)
  <2> DEFINE new == Waits(text)
  <2>1. /\ new \in RequestRecords /\ new.ask = r.ask /\ new.question = r.question
        /\ new.at = "save" /\ new.kind = "wait" /\ new.session = r.session
        /\ new.context = r.context /\ new.nested = r.nested /\ new.ready = r.ready
        /\ new.intent = intent
    BY <1>2, <1>3, <1>5 DEF RequestRecords, AnswerKinds
  <2> HIDE DEF new
  <2>2. OwnSession(new) /\ OwnContext(c, new)
    BY <1>1, <1>2, <1>3, <2>1 DEF OwnSession, OwnContext, StreamsAs
  <2>3. OwnAnswer(c, new, asked[r.ask].seen)
    <3>1. ~StreamsAs(c, new)
      BY <1>1, <1>2, <1>5, <2>1 DEF OwnContext, StreamsAs
    <3>2. ~Generated(new.ask)
      BY <1>1, <1>2, <2>1 DEF OwnAnswer, Generated
    <3> QED
      BY <2>1, <3>1, <3>2 DEF OwnAnswer, AnswerKinds
  <2> QED
    BY <2>1, <2>2, <2>3 DEF new
<1>6. /\ ahead \in RequestRecords /\ ahead.ask = r.ask /\ ahead.question = r.question
      /\ ahead.at = "memory" /\ ahead.session = r.session /\ ahead.context = r.context
      /\ ahead.nested = r.nested /\ ahead.ready = r.ready /\ ahead.intent = intent
  BY <1>2, <1>3 DEF RequestRecords
<1> HIDE DEF ahead
<1>7. CASE told.context = None
  <2>1. ~r.ready
    BY <1>1, <1>2, <1>4, <1>7 DEF OwnContext, ChatTypes, None
  <2>2. <<"wait", "risk">> \in Words /\ Goes(c, Waits(<<"wait", "risk">>))
    <3>1. "wait" \in Pieces /\ "risk" \in Pieces
      BY DEF Pieces
    <3> QED
      BY <1>1, <1>7, <3>1, ShortTexts
  <2> HIDE DEF Waits
  <2> QED
    BY <1>1, <1>2, <1>5, <2>1, <2>2, Moves
<1>8. CASE told.context # None /\ ~told.ready
  <2>1. <<"later">> \in Words /\ Goes(c, Waits(<<"later">>))
    <3>1. "later" \in Pieces
      BY DEF Pieces
    <3> QED
      BY <1>1, <1>8, <3>1, ShortTexts
  <2> HIDE DEF Waits
  <2> QED
    BY <1>1, <1>2, <1>4, <1>5, <1>8, <2>1, Moves
<1>9. CASE told.context # None /\ told.ready
  <2>1. Goes(c, ahead)
    BY <1>1, <1>9
  <2>2. OwnSession(ahead) /\ OwnContext(c, ahead) /\ OwnAnswer(c, ahead, asked[r.ask].seen)
    BY <1>1, <1>2, <1>3, <1>4, <1>6, <1>9 DEF OwnSession, OwnContext, OwnAnswer, StreamsAs
  <2> QED
    BY <1>1, <1>2, <1>6, <2>1, <2>2, Moves
<1> QED
  BY <1>7, <1>8, <1>9

LEMMA ReadMemoryStep ==
    ASSUME ChatInv, NEW c \in Callers, ReadMemory(c)
    PROVE  ChatInv'
<1> DEFINE r == asking[c]
           new == [r EXCEPT !.at = "material", !.warned = warned]
<1>1. /\ Busy(c) /\ UNCHANGED <<world, stored, asked>> /\ r.at = "memory" /\ Goes(c, new)
  BY DEF ReadMemory, At, Busy
<1>2. /\ ChatTypes /\ r \in RequestRecords /\ asked[r.ask].seen \in Words
      /\ OwnSession(r) /\ OwnContext(c, r) /\ OwnAnswer(c, r, asked[r.ask].seen)
  BY <1>1, RequestFacts DEF OwnInv
<1>3. /\ new \in RequestRecords /\ new.ask = r.ask /\ new.question = r.question
      /\ new.at = "material" /\ new.session = r.session /\ new.context = r.context
      /\ new.nested = r.nested /\ new.ready = r.ready /\ new.intent = r.intent
  <2>1. warned \in BOOLEAN
    BY <1>2 DEF ChatTypes
  <2> QED
    BY <1>2, <2>1 DEF RequestRecords
<1> HIDE DEF new
<1>4. OwnSession(new) /\ OwnContext(c, new) /\ OwnAnswer(c, new, asked[r.ask].seen)
  BY <1>1, <1>2, <1>3 DEF OwnSession, OwnContext, OwnAnswer, StreamsAs
<1> QED
  BY <1>1, <1>2, <1>3, <1>4, Moves

(* A request that ends in the saving of an answer of the context's lines.  *)
LEMMA LocalRecord ==
    ASSUME NEW r \in RequestRecords
    PROVE  LET local == Locally(r)
               t == LocalText(r.context, r.intent, r.warned)
               reply == [local EXCEPT !.at = "save"]
               tail == [local EXCEPT !.at = "tail", !.pending = <<t>>]
           IN  /\ local.text = t /\ t \in Words /\ Fits(t, t)
               /\ reply \in RequestRecords /\ reply.at = "save" /\ reply.text = t
               /\ tail \in RequestRecords /\ tail.at = "tail" /\ tail.text = t
               /\ tail.pending = <<t>>
               /\ \A new \in {reply, tail} :
                     /\ new.ask = r.ask /\ new.question = r.question /\ new.kind = "local"
                     /\ new.session = r.session /\ new.context = r.context
                     /\ new.nested = r.nested /\ new.ready = r.ready /\ new.intent = r.intent
<1> DEFINE t == LocalText(r.context, r.intent, r.warned)
           local == Locally(r)
           reply == [local EXCEPT !.at = "save"]
           tail == [local EXCEPT !.at = "tail", !.pending = <<t>>]
<1>1. t \in Words /\ Fits(t, t)
  BY LocalFits
<1>2. local = [r EXCEPT !.kind = "local", !.text = t]
  BY DEF Locally
<1> HIDE DEF t, local
<1>3. "local" \in AnswerKinds /\ <<t>> \in Seq(Words)
  BY <1>1 DEF AnswerKinds
<1>4. local \in RequestRecords /\ local.text = t /\ local.kind = "local"
      /\ local.ask = r.ask /\ local.question = r.question
      /\ local.session = r.session /\ local.context = r.context
      /\ local.nested = r.nested /\ local.ready = r.ready /\ local.intent = r.intent
  BY <1>1, <1>2, <1>3 DEF RequestRecords
<1>5. /\ reply \in RequestRecords /\ reply.at = "save" /\ reply.text = t
      /\ reply.ask = r.ask /\ reply.question = r.question /\ reply.kind = "local"
      /\ reply.session = r.session /\ reply.context = r.context
      /\ reply.nested = r.nested /\ reply.ready = r.ready /\ reply.intent = r.intent
  BY <1>1, <1>4 DEF RequestRecords
<1>6. /\ tail \in RequestRecords /\ tail.at = "tail" /\ tail.text = t /\ tail.pending = <<t>>
      /\ tail.ask = r.ask /\ tail.question = r.question /\ tail.kind = "local"
      /\ tail.session = r.session /\ tail.context = r.context
      /\ tail.nested = r.nested /\ tail.ready = r.ready /\ tail.intent = r.intent
  BY <1>1, <1>3, <1>4 DEF RequestRecords
<1> HIDE DEF reply, tail
<1>7. \A new \in {reply, tail} :
         /\ new.ask = r.ask /\ new.question = r.question /\ new.kind = "local"
         /\ new.session = r.session /\ new.context = r.context
         /\ new.nested = r.nested /\ new.ready = r.ready /\ new.intent = r.intent
  BY <1>5, <1>6
<1> QED
  BY <1>1, <1>4, <1>5, <1>6, <1>7 DEF reply, tail, local, t

LEMMA SayingsAreTexts == Sayings \subseteq Words
<1>1. {"say", "say.", "risk"} \subseteq Pieces
  BY DEF Pieces
<1>2. Seq({"say", "say.", "risk"}) \subseteq Seq(Pieces)
  BY <1>1, SeqMonotonic
<1> QED
  BY <1>2, ChatBounds DEF ChatBounds, Words

LEMMA ReadMaterialStep ==
    ASSUME ChatInv, NEW c \in Callers, ReadMaterial(c)
    PROVE  ChatInv'
<1> DEFINE r == asking[c]
           seen == asked[r.ask].seen
           t == LocalText(r.context, r.intent, r.warned)
           reply == [Locally(r) EXCEPT !.at = "save"]
           tail == [Locally(r) EXCEPT !.at = "tail", !.pending = <<t>>]
           Asking(text) == [r EXCEPT !.at = "model", !.text = text]
<1>1. /\ Busy(c) /\ UNCHANGED <<world, stored, asked>> /\ r.at = "material"
      /\ \/ \E text \in Sayings : Goes(c, Asking(text))
         \/ Goes(c, IF Streams(c)
                    THEN [Locally(r) EXCEPT !.at = "tail", !.pending = <<Locally(r).text>>]
                    ELSE reply)
  BY DEF ReadMaterial, At, Busy
<1>2. /\ ChatTypes /\ r \in RequestRecords /\ seen \in Words
      /\ OwnSession(r) /\ OwnContext(c, r) /\ OwnAnswer(c, r, seen)
  BY <1>1, RequestFacts DEF OwnInv
<1>3. /\ Locally(r).text = t /\ t \in Words /\ Fits(t, t)
      /\ reply \in RequestRecords /\ reply.at = "save" /\ reply.text = t
      /\ tail \in RequestRecords /\ tail.at = "tail" /\ tail.text = t /\ tail.pending = <<t>>
      /\ reply.ask = r.ask /\ reply.question = r.question /\ reply.kind = "local"
      /\ reply.session = r.session /\ reply.context = r.context
      /\ reply.nested = r.nested /\ reply.ready = r.ready /\ reply.intent = r.intent
      /\ tail.ask = r.ask /\ tail.question = r.question /\ tail.kind = "local"
      /\ tail.session = r.session /\ tail.context = r.context
      /\ tail.nested = r.nested /\ tail.ready = r.ready /\ tail.intent = r.intent
  BY <1>2, LocalRecord
<1>4. seen = <<>> /\ \A i \in DOMAIN logs : logs[i].ask # r.ask
  BY <1>1, <1>2 DEF OwnAnswer
<1>5. CASE \E text \in Sayings : Goes(c, Asking(text))
  <2>1. PICK text \in Sayings : Goes(c, Asking(text))
    BY <1>5
  <2> DEFINE new == Asking(text)
  <2>2. text \in Words
    BY SayingsAreTexts
  <2>3. /\ new \in RequestRecords /\ new.ask = r.ask /\ new.question = r.question
        /\ new.at = "model" /\ new.session = r.session /\ new.context = r.context
        /\ new.nested = r.nested /\ new.ready = r.ready /\ new.intent = r.intent
        /\ new.text = text
    BY <1>2, <2>2 DEF RequestRecords
  <2>4. Goes(c, new)
    BY <2>1
  <2> HIDE DEF new
  <2>5. Len(seen) <= Len(text) /\ seen = SubSeq(text, 1, Len(seen))
    <3>1. Len(text) \in Nat /\ Len(seen) = 0
      BY <1>4, <2>2 DEF Words
    <3>2. SubSeq(text, 1, 0) = <<>>
      BY SubSeqEmpty
    <3> QED
      BY <1>4, <3>1, <3>2
  <2>6. OwnSession(new) /\ OwnContext(c, new)
    BY <1>1, <1>2, <2>3 DEF OwnSession, OwnContext, StreamsAs
  <2>7. OwnAnswer(c, new, seen)
    BY <1>4, <2>3, <2>5 DEF OwnAnswer
  <2> QED
    BY <1>1, <1>2, <2>3, <2>4, <2>6, <2>7, Moves
<1>6. CASE Streams(c) /\ Goes(c, tail)
  <2> HIDE DEF tail, t
  <2>1. OwnSession(tail) /\ OwnContext(c, tail)
    BY <1>1, <1>2, <1>3 DEF OwnSession, OwnContext, StreamsAs
  <2>2. OwnAnswer(c, tail, seen)
    <3>1. StreamsAs(c, tail)
      BY <1>3, <1>6 DEF Streams, StreamsAs
    <3>2. Len(tail.pending) = 1 /\ Left(tail.pending) = t
      BY <1>3 DEF Left
    <3>3. seen \o Left(tail.pending) = t
      BY <1>3, <1>4, <3>2, ConcatEmptySeq DEF Words
    <3> QED
      BY <1>3, <1>4, <3>1, <3>2, <3>3 DEF OwnAnswer
  <2> QED
    BY <1>1, <1>2, <1>3, <1>6, <2>1, <2>2, Moves
<1>7. CASE ~Streams(c) /\ Goes(c, reply)
  <2> HIDE DEF reply, t
  <2>1. OwnSession(reply) /\ OwnContext(c, reply)
    BY <1>1, <1>2, <1>3 DEF OwnSession, OwnContext, StreamsAs
  <2>2. OwnAnswer(c, reply, seen)
    <3>1. ~StreamsAs(c, reply)
      BY <1>3, <1>7 DEF Streams, StreamsAs
    <3>2. ~Generated(reply.ask)
      BY <1>3, <1>4 DEF Generated
    <3> QED
      BY <1>3, <1>4, <3>1, <3>2 DEF OwnAnswer, AnswerKinds
  <2> QED
    BY <1>1, <1>2, <1>3, <1>7, <2>1, <2>2, Moves
<1> QED
  BY <1>1, <1>3, <1>5, <1>6, <1>7

LEMMA DeltaStep ==
    ASSUME ChatInv, NEW c \in Callers, Delta(c)
    PROVE  ChatInv'
<1> DEFINE r == asking[c]
           seen == asked[r.ask].seen
           sent == Len(seen)
           next == <<r.text[sent + 1]>>
<1>1. /\ Busy(c) /\ UNCHANGED <<world, stored, asking>> /\ r.at = "model" /\ Streams(c)
      /\ sent < Len(r.text) /\ asked' = Shows(c, next)
  BY DEF Delta, At, Busy
<1>2. /\ ChatTypes /\ r \in RequestRecords /\ seen \in Words
      /\ OwnSession(r) /\ OwnContext(c, r) /\ OwnAnswer(c, r, seen)
  BY <1>1, RequestFacts DEF OwnInv
<1>3. Goes(c, r)
  BY <1>1, <1>2 DEF Goes, ChatTypes
<1>4. r.text \in Words
  BY <1>2, ChatRequestFields
<1>5. sent \in Nat /\ Len(r.text) \in Nat /\ sent + 1 \in 1..Len(r.text) /\ 1 \in 1..Len(r.text)
  BY <1>1, <1>2, <1>4 DEF Words
<1>6. next \in Words
  <2>1. r.text[sent + 1] \in Pieces
    BY <1>4, <1>5 DEF Words
  <2> QED
    BY <2>1, ShortTexts
<1>7. /\ seen \o next \in Words /\ Len(seen \o next) = sent + 1
      /\ seen \o next = SubSeq(r.text, 1, sent + 1)
  <2>1. seen \o next \in Words /\ Len(seen \o next) = Len(seen) + 1
    BY <1>2, <1>6, ConcatProperties DEF Words
  <2>2. seen = SubSeq(r.text, 1, sent)
    BY <1>1, <1>2 DEF OwnAnswer, Streams, StreamsAs
  <2>3. SubSeq(r.text, 1, sent + 1) = SubSeq(r.text, 1, (sent + 1) - 1) \o <<r.text[sent + 1]>>
    <3>1. r.text \in Seq(Pieces) /\ sent + 1 \in 1..Len(r.text) /\ 1 \in 1..Len(r.text)
          /\ sent + 1 \in 1..Len(r.text)
      BY <1>4, <1>5 DEF Words
    <3> QED
      BY <3>1, SubSeqRecursiveSecond
  <2>4. (sent + 1) - 1 = sent
    BY <1>5
  <2> QED
    BY <2>1, <2>2, <2>3, <2>4
<1>8. OwnAnswer(c, r, seen \o next)
  <2>1. sent + 1 <= Len(r.text)
    BY <1>5
  <2> QED
    BY <1>1, <1>2, <1>7, <2>1 DEF OwnAnswer
<1> HIDE DEF next
<1> QED
  BY <1>1, <1>2, <1>3, <1>6, <1>7, <1>8, Moves

LEMMA AnsweredStep ==
    ASSUME ChatInv, NEW c \in Callers, Answered(c)
    PROVE  ChatInv'
<1> DEFINE r == asking[c]
           seen == asked[r.ask].seen
           t == Warned(WithRisk(r.text), r.warned)
           rest == Rest(r.text, r.warned)
           told == [r EXCEPT !.kind = "model", !.text = t]
           tail == [told EXCEPT !.at = "tail", !.pending = rest]
           logged == [told EXCEPT !.at = "log"]
<1>1. /\ Busy(c) /\ UNCHANGED <<world, stored, asked>> /\ r.at = "model"
      /\ (Streams(c) => Len(seen) = Len(r.text))
      /\ Goes(c, IF Streams(c) THEN tail ELSE logged)
  BY DEF Answered, At, Busy
<1>2. /\ ChatTypes /\ r \in RequestRecords /\ seen \in Words
      /\ OwnSession(r) /\ OwnContext(c, r) /\ OwnAnswer(c, r, seen)
  BY <1>1, RequestFacts DEF OwnInv
<1>3. r.text \in Words
  BY <1>2, ChatRequestFields
<1>4. /\ t \in Words /\ Fits(t, t) /\ rest \in Seq(Words) /\ Len(rest) <= 2
      /\ Fits(r.text \o Left(rest), t)
  BY <1>3, RestFits
<1>5. \A i \in DOMAIN logs : logs[i].ask # r.ask
  BY <1>1, <1>2 DEF OwnAnswer
<1> HIDE DEF t, rest
<1>6. /\ told \in RequestRecords /\ told.kind = "model" /\ told.text = t
      /\ told.ask = r.ask /\ told.question = r.question
      /\ told.session = r.session /\ told.context = r.context
      /\ told.nested = r.nested /\ told.ready = r.ready /\ told.intent = r.intent
  BY <1>2, <1>4 DEF RequestRecords, AnswerKinds
<1> HIDE DEF told
<1>7. CASE Streams(c)
  <2>1. Goes(c, tail)
    BY <1>1, <1>7
  <2>2. /\ tail \in RequestRecords /\ tail.kind = "model" /\ tail.text = t
        /\ tail.at = "tail" /\ tail.pending = rest
        /\ tail.ask = r.ask /\ tail.question = r.question
        /\ tail.session = r.session /\ tail.context = r.context
        /\ tail.nested = r.nested /\ tail.ready = r.ready /\ tail.intent = r.intent
    BY <1>4, <1>6 DEF RequestRecords
  <2> HIDE DEF tail
  <2>3. seen = r.text
    <3>1. seen = SubSeq(r.text, 1, Len(r.text))
      BY <1>1, <1>2, <1>7 DEF OwnAnswer, Streams, StreamsAs
    <3>2. SubSeq(r.text, 1, Len(r.text)) = r.text
      BY <1>3, SubSeqFull DEF Words
    <3> QED
      BY <3>1, <3>2
  <2>4. OwnSession(tail) /\ OwnContext(c, tail)
    BY <1>1, <1>2, <2>2 DEF OwnSession, OwnContext, StreamsAs
  <2>5. OwnAnswer(c, tail, seen)
    <3>1. StreamsAs(c, tail)
      BY <1>7, <2>2 DEF Streams, StreamsAs
    <3> QED
      BY <1>4, <1>5, <2>2, <2>3, <3>1 DEF OwnAnswer
  <2> QED
    BY <1>1, <1>2, <2>1, <2>2, <2>4, <2>5, Moves
<1>8. CASE ~Streams(c)
  <2>1. Goes(c, logged)
    BY <1>1, <1>8
  <2>2. /\ logged \in RequestRecords /\ logged.kind = "model" /\ logged.text = t
        /\ logged.at = "log" /\ logged.ask = r.ask /\ logged.question = r.question
        /\ logged.session = r.session /\ logged.context = r.context
        /\ logged.nested = r.nested /\ logged.ready = r.ready /\ logged.intent = r.intent
    BY <1>6 DEF RequestRecords
  <2> HIDE DEF logged
  <2>3. OwnSession(logged) /\ OwnContext(c, logged)
    BY <1>1, <1>2, <2>2 DEF OwnSession, OwnContext, StreamsAs
  <2>4. OwnAnswer(c, logged, seen)
    <3>1. ~StreamsAs(c, logged)
      BY <1>8, <2>2 DEF Streams, StreamsAs
    <3> QED
      BY <1>4, <1>5, <2>2, <3>1 DEF OwnAnswer
  <2> QED
    BY <1>1, <1>2, <2>1, <2>2, <2>3, <2>4, Moves
<1> QED
  BY <1>7, <1>8

LEMMA LeftOf ==
    ASSUME NEW pending
    PROVE  /\ Len(pending) = 0 => Left(pending) = <<>>
           /\ Len(pending) = 1 => Left(pending) = pending[1]
           /\ Len(pending) = 2 => Left(pending) = pending[1] \o pending[2]
<1>1. \A n, a, b, d :
         LET left == IF n = 0 THEN a ELSE IF n = 1 THEN b ELSE d
         IN  (n = 0 => left = a) /\ (n = 1 => left = b) /\ (n = 2 => left = d)
  OBVIOUS
<1> QED
  BY <1>1, Zenon DEF Left

(* Sending the first piece of the rest leaves the rest after it.           *)
LEMMA SentAndLeft ==
    ASSUME NEW pending \in Seq(Words), pending # <<>>, Len(pending) <= 2, NEW seen \in Words
    PROVE  /\ Head(pending) \in Words /\ Tail(pending) \in Seq(Words) /\ Len(Tail(pending)) <= 2
           /\ (seen \o Head(pending)) \o Left(Tail(pending)) = seen \o Left(pending)
<1>1. /\ Head(pending) \in Words /\ Tail(pending) \in Seq(Words)
      /\ Len(Tail(pending)) = Len(pending) - 1
      /\ \A i \in 1..Len(Tail(pending)) : Tail(pending)[i] = pending[i + 1]
  BY HeadTailProperties
<1>2. Head(pending) = pending[1] /\ Len(pending) \in Nat /\ Len(pending) # 0
  OBVIOUS
<1>3. seen \o Head(pending) \in Words
  BY <1>1, SaidConcat
<1>4. CASE Len(pending) = 1
  <2>1. Left(pending) = Head(pending) /\ Left(Tail(pending)) = <<>>
    BY <1>1, <1>2, <1>4 DEF Left
  <2>2. (seen \o Head(pending)) \o <<>> = seen \o Head(pending)
    BY <1>3, ConcatEmptySeq DEF Words
  <2>3. Len(Tail(pending)) <= 2
    BY <1>1, <1>4
  <2> QED
    BY <1>1, <2>1, <2>2, <2>3
<1>5. CASE Len(pending) = 2
  <2>1. PICK x, y : x = Head(pending) /\ y = pending[2]
    OBVIOUS
  <2>2. Len(Tail(pending)) = 1 /\ Tail(pending)[1] = y /\ x \in Words /\ y \in Words
    BY <1>1, <1>5, <2>1
  <2>3. Left(pending) = x \o y /\ Left(Tail(pending)) = y
    BY <1>2, <1>5, <2>1, <2>2, LeftOf
  <2>4. (seen \o x) \o y = seen \o (x \o y)
    <3>1. seen \in Seq(Pieces) /\ x \in Seq(Pieces) /\ y \in Seq(Pieces)
      BY <2>2 DEF Words
    <3> QED
      BY <3>1, ConcatAssociative
  <2>5. Len(Tail(pending)) <= 2
    BY <2>2
  <2>6. (seen \o Head(pending)) \o Left(Tail(pending)) = seen \o Left(pending)
    BY <2>1, <2>3, <2>4
  <2> QED
    BY <1>1, <2>5, <2>6
<1>6. Len(pending) = 1 \/ Len(pending) = 2
  <2>1. \A n \in Nat : n # 0 /\ n <= 2 => n = 1 \/ n = 2
    OBVIOUS
  <2> QED
    BY <1>2, <2>1
<1> QED
  BY <1>4, <1>5, <1>6

LEMMA SendRestStep ==
    ASSUME ChatInv, NEW c \in Callers, SendRest(c)
    PROVE  ChatInv'
<1> DEFINE r == asking[c]
           seen == asked[r.ask].seen
           to == IF r.kind = "model" THEN "log" ELSE "save"
           done == [r EXCEPT !.at = to]
           sent == [r EXCEPT !.pending = Tail(r.pending)]
<1>1. /\ Busy(c) /\ UNCHANGED <<world, stored>> /\ r.at = "tail"
      /\ IF r.pending = <<>> THEN Goes(c, done) /\ asked' = asked
         ELSE Goes(c, sent) /\ asked' = Shows(c, Head(r.pending))
  BY DEF SendRest, At, Busy
<1>2. /\ ChatTypes /\ r \in RequestRecords /\ seen \in Words
      /\ OwnSession(r) /\ OwnContext(c, r) /\ OwnAnswer(c, r, seen)
  BY <1>1, RequestFacts DEF OwnInv
<1>3. /\ StreamsAs(c, r) /\ r.kind \in {"local", "model"} /\ Len(r.pending) <= 2
      /\ Fits(seen \o Left(r.pending), r.text) /\ \A i \in DOMAIN logs : logs[i].ask # r.ask
  BY <1>1, <1>2 DEF OwnAnswer
<1>4. r.pending \in Seq(Words)
  BY <1>2, ChatRequestFields
<1>5. CASE r.pending = <<>>
  <2>1. /\ done \in RequestRecords /\ done.at = to /\ done.kind = r.kind /\ done.text = r.text
        /\ done.ask = r.ask /\ done.question = r.question
        /\ done.session = r.session /\ done.context = r.context
        /\ done.nested = r.nested /\ done.ready = r.ready /\ done.intent = r.intent
    BY <1>2 DEF RequestRecords
  <2>2. Goes(c, done) /\ asked' = asked
    BY <1>1, <1>5
  <2>3. to \in {"log", "save"} /\ (to = "log" <=> r.kind = "model")
    OBVIOUS
  <2> HIDE DEF done, to
  <2>4. Fits(seen, r.text)
    <3>1. Left(r.pending) = <<>>
      BY <1>5 DEF Left
    <3> QED
      BY <1>2, <1>3, <3>1, ConcatEmptySeq DEF Words
  <2>5. OwnSession(done) /\ OwnContext(c, done)
    BY <1>1, <1>2, <2>1, <2>3 DEF OwnSession, OwnContext, StreamsAs
  <2>6. OwnAnswer(c, done, seen)
    <3>1. StreamsAs(c, done) /\ ~Generated(done.ask)
      BY <1>3, <2>1 DEF StreamsAs, Generated
    <3> QED
      BY <1>3, <2>1, <2>3, <2>4, <3>1 DEF OwnAnswer, AnswerKinds
  <2> QED
    BY <1>1, <1>2, <2>1, <2>2, <2>5, <2>6, Moves
<1>6. CASE r.pending # <<>>
  <2>1. /\ Head(r.pending) \in Words /\ Tail(r.pending) \in Seq(Words)
        /\ Len(Tail(r.pending)) <= 2
        /\ (seen \o Head(r.pending)) \o Left(Tail(r.pending)) = seen \o Left(r.pending)
    BY <1>2, <1>3, <1>4, <1>6, SentAndLeft
  <2>2. /\ sent \in RequestRecords /\ sent.at = "tail" /\ sent.kind = r.kind
        /\ sent.text = r.text /\ sent.pending = Tail(r.pending)
        /\ sent.ask = r.ask /\ sent.question = r.question
        /\ sent.session = r.session /\ sent.context = r.context
        /\ sent.nested = r.nested /\ sent.ready = r.ready /\ sent.intent = r.intent
    BY <1>1, <1>2, <2>1 DEF RequestRecords
  <2>3. Goes(c, sent) /\ asked' = Shows(c, Head(r.pending))
    BY <1>1, <1>6
  <2> HIDE DEF sent
  <2>4. OwnSession(sent) /\ OwnContext(c, sent)
    BY <1>1, <1>2, <2>2 DEF OwnSession, OwnContext, StreamsAs
  <2>5. OwnAnswer(c, sent, seen \o Head(r.pending))
    <3>1. StreamsAs(c, sent)
      BY <1>3, <2>2 DEF StreamsAs
    <3> QED
      BY <1>3, <2>1, <2>2, <3>1 DEF OwnAnswer
  <2>6. seen \o Head(r.pending) \in Words
    BY <1>2, <2>1, SaidConcat
  <2> QED
    BY <1>1, <1>2, <2>1, <2>2, <2>3, <2>4, <2>5, <2>6, Moves
<1> QED
  BY <1>5, <1>6

(* A request that tells the log what became of its question goes on to     *)
(* save its message.                                                       *)
LEMMA Logging ==
    ASSUME ChatInv, NEW c \in Callers, Busy(c), asking[c].at # "save",
           NEW r \in RequestRecords, Goes(c, r), r.at = "save",
           UNCHANGED <<world, sessions, recent, messages, asked>>,
           NEW decision \in {"skipped", "error", "generated"}, logs' = LogOf(c, decision),
           r.ask = asking[c].ask, r.question = asking[c].question,
           r.kind = IF decision = "generated" THEN "model" ELSE "local",
           OwnSession(r), OwnContext(c, r),
           Fits(IF StreamsAs(c, r) THEN asked[r.ask].seen ELSE r.text, r.text)
    PROVE  ChatInv'
<1>1. /\ ChatTypes /\ asking[c] \in RequestRecords /\ OwnInv(c)
  BY RequestFacts
<1>2. /\ asking' \in [Callers -> RequestRecords] /\ asking'[c] = r
      /\ \A d \in Callers \ {c} : asking'[d] = asking[d]
  BY <1>1, GoesTo
<1>3. PICK x : x = [ask |-> r.ask, decision |-> decision]
  OBVIOUS
<1>4. x \in LogRecords /\ x.ask = r.ask /\ x.decision = decision /\ logs' = Append(logs, x)
  <2>1. r.ask \in Nat
    BY ChatRequestFields
  <2> QED
    BY <1>3, <2>1 DEF LogRecords, LogOf
<1>5. /\ logs' \in Seq(LogRecords) /\ Len(logs) \in Nat
      /\ DOMAIN logs = 1..Len(logs) /\ DOMAIN logs' = 1..(Len(logs) + 1)
      /\ \A i \in 1..Len(logs) : logs'[i] = logs[i]
      /\ logs'[Len(logs) + 1] = x
  <2>1. logs \in Seq(LogRecords)
    BY <1>1 DEF ChatTypes
  <2> QED
    BY <1>4, <2>1, AppendProperties
<1>6. ChatTypes'
  BY <1>1, <1>2, <1>5 DEF ChatTypes, world
<1>7. \A i \in DOMAIN logs : logs[i].ask # r.ask
  BY <1>1 DEF OwnInv, OwnAnswer
<1>8. (\E i \in DOMAIN logs' : logs'[i].ask = r.ask /\ logs'[i].decision = "generated")
          <=> decision = "generated"
  <2>1. \A i \in 1..(Len(logs) + 1) : i \in 1..Len(logs) \/ i = Len(logs) + 1
    BY <1>5
  <2>2. Len(logs) + 1 \in 1..(Len(logs) + 1)
    BY <1>5
  <2> QED
    BY <1>4, <1>5, <1>7, <2>1, <2>2
<1>9. OwnSession(asking[c])' /\ OwnContext(c, asking[c])'
  BY <1>2 DEF OwnSession, OwnContext, CarriesOn, StreamsAs, world
<1>10. OwnAnswer(c, asking[c], asked[asking[c].ask].seen)'
  <2>1. r.kind \in {"local", "model"} /\ (r.kind = "model" <=> decision = "generated")
    OBVIOUS
  <2> QED
    BY <1>2, <1>8, <2>1 DEF OwnAnswer, Generated, StreamsAs, AnswerKinds
<1>11. messages' = messages /\ asked' = asked /\ UNCHANGED <<current, ready>> /\ sessions' = sessions
  BY DEF world
<1>12. Len(sessions) <= Len(sessions')
  BY <1>1, <1>11, Lengths
<1> QED
  BY <1>2, <1>4, <1>6, <1>9, <1>10, <1>11, <1>12, StepKeeps

LEMMA WriteLogStep ==
    ASSUME ChatInv, NEW c \in Callers, WriteLog(c)
    PROVE  ChatInv'
<1> DEFINE r == asking[c]
           seen == asked[r.ask].seen
           new == [r EXCEPT !.at = "save"]
<1>1. /\ Busy(c) /\ r.at = "log" /\ UNCHANGED <<world, sessions, recent, messages, asked>>
      /\ Goes(c, new) /\ logs' = LogOf(c, "generated")
  BY DEF WriteLog, At, Busy
<1>2. /\ ChatTypes /\ r \in RequestRecords /\ seen \in Words
      /\ OwnSession(r) /\ OwnContext(c, r) /\ OwnAnswer(c, r, seen)
  BY <1>1, RequestFacts DEF OwnInv
<1>3. /\ new \in RequestRecords /\ new.at = "save" /\ new.kind = r.kind /\ new.text = r.text
      /\ new.ask = r.ask /\ new.question = r.question
      /\ new.session = r.session /\ new.context = r.context
      /\ new.nested = r.nested /\ new.ready = r.ready /\ new.intent = r.intent
  BY <1>2 DEF RequestRecords
<1> HIDE DEF new
<1>4. OwnSession(new) /\ OwnContext(c, new)
  BY <1>1, <1>2, <1>3 DEF OwnSession, OwnContext, StreamsAs
<1>5. r.kind = "model" /\ Fits(IF StreamsAs(c, new) THEN seen ELSE r.text, r.text)
  BY <1>1, <1>2, <1>3 DEF OwnAnswer, StreamsAs
<1> QED
  BY <1>1, <1>3, <1>4, <1>5, Logging

LEMMA NoAnswerStep ==
    ASSUME ChatInv, NEW c \in Callers, NoAnswer(c)
    PROVE  ChatInv'
<1> DEFINE r == asking[c]
           seen == asked[r.ask].seen
           t == LocalText(r.context, r.intent, r.warned)
           reply == [Locally(r) EXCEPT !.at = "save"]
<1>1. /\ Busy(c) /\ r.at = "model" /\ UNCHANGED <<world, sessions, recent, messages>>
      /\ IF Streams(c) THEN Closes(c, "error") ELSE Goes(c, reply) /\ asked' = asked
  BY DEF NoAnswer, At, Busy
<1>2. PICK decision \in {"skipped", "error"} : logs' = LogOf(c, decision)
  BY DEF NoAnswer
<1>3. /\ ChatTypes /\ r \in RequestRecords /\ seen \in Words
      /\ OwnSession(r) /\ OwnContext(c, r) /\ OwnAnswer(c, r, seen)
  BY <1>1, RequestFacts DEF OwnInv
<1>4. CASE Streams(c)
  <2>1. \E x \in LogRecords : x.ask = r.ask /\ logs' = Append(logs, x)
    <3>1. r.ask \in Nat
      BY <1>3, ChatRequestFields
    <3>2. PICK x : x = [ask |-> r.ask, decision |-> decision]
      OBVIOUS
    <3>3. x \in LogRecords /\ x.ask = r.ask /\ logs' = Append(logs, x)
      BY <1>2, <3>1, <3>2 DEF LogRecords, LogOf
    <3> QED
      BY <3>3
  <2> QED
    BY <1>1, <1>4, <2>1, Closing
<1>5. CASE ~Streams(c)
  <2>1. Goes(c, reply) /\ asked' = asked
    BY <1>1, <1>5
  <2>2. /\ t \in Words /\ Fits(t, t)
        /\ reply \in RequestRecords /\ reply.at = "save" /\ reply.text = t
        /\ reply.ask = r.ask /\ reply.question = r.question /\ reply.kind = "local"
        /\ reply.session = r.session /\ reply.context = r.context
        /\ reply.nested = r.nested /\ reply.ready = r.ready /\ reply.intent = r.intent
    BY <1>3, LocalRecord
  <2> HIDE DEF reply, t
  <2>3. OwnSession(reply) /\ OwnContext(c, reply)
    BY <1>1, <1>3, <2>2 DEF OwnSession, OwnContext, StreamsAs
  <2>4. ~StreamsAs(c, reply)
    BY <1>5, <2>2 DEF Streams, StreamsAs
  <2>5. decision \in {"skipped", "error", "generated"} /\ decision # "generated"
    OBVIOUS
  <2> QED
    BY <1>1, <1>2, <2>1, <2>2, <2>3, <2>4, <2>5, Logging
<1> QED
  BY <1>4, <1>5

(* What is saved is a message, and its lines are of the context.           *)
LEMMA MessageFields ==
    ASSUME ChatTypes, NEW r \in RequestRecords, r.session \in Nat, r.intent \in Intents,
           r.kind \in AnswerKinds, r.kind # "wait" => r.context \in ready
    PROVE  LET m == Message(r)
           IN  /\ m \in MessageRecords /\ m.ask = r.ask /\ m.session = r.session
               /\ m.context = r.context /\ m.intent = r.intent /\ m.kind = r.kind
               /\ m.text = r.text
               /\ m.lines \cup m.reminders # {} => m.context \in ready
<1> DEFINE lines == CASE r.kind = "wait" -> {}
                      [] r.kind = "local" -> LocalLines(r.context, r.intent)
                      [] OTHER -> Lines(r.context)
           reminders == IF r.kind = "wait" THEN {} ELSE Reminders(r.context, r.intent)
<1>1. /\ lines \subseteq Lines(r.context) /\ reminders \subseteq Lines(r.context)
      /\ r.kind = "wait" => lines = {} /\ reminders = {}
  <2>1. LocalLines(r.context, r.intent) \subseteq Lines(r.context)
    BY DEF LocalLines
  <2>2. Reminders(r.context, r.intent) \subseteq Lines(r.context)
    BY DEF Reminders
  <2> QED
    BY <2>1, <2>2
<1>2. r.context \in ready => Lines(r.context) \subseteq AllLines
  <2>1. ready \subseteq 1..Len(Contexts)
    BY ChatBounds DEF ChatTypes, ChatBounds
  <2> QED
    BY <2>1 DEF AllLines
<1>3. /\ Message(r) = [ask |-> r.ask, session |-> r.session, context |-> r.context,
                       intent |-> r.intent, kind |-> r.kind, text |-> r.text,
                       lines |-> lines, reminders |-> reminders]
  BY DEF Message
<1> HIDE DEF lines, reminders
<1>4. lines \in SUBSET AllLines /\ reminders \in SUBSET AllLines
  BY <1>1, <1>2
<1>5. r.ask \in Nat /\ r.context \in Nat /\ r.text \in Words
  BY ChatRequestFields
<1>6. /\ Message(r) \in MessageRecords /\ Message(r).ask = r.ask /\ Message(r).session = r.session
      /\ Message(r).context = r.context /\ Message(r).intent = r.intent
      /\ Message(r).kind = r.kind /\ Message(r).text = r.text
      /\ Message(r).lines = lines /\ Message(r).reminders = reminders
  BY <1>3, <1>4, <1>5 DEF MessageRecords
<1> QED
  BY <1>1, <1>6

LEMMA SaveMessageStep ==
    ASSUME ChatInv, NEW c \in Callers, SaveMessage(c)
    PROVE  ChatInv'
<1> DEFINE r == asking[c]
           saw == IF StreamsAs(c, r) THEN asked[r.ask].seen ELSE r.text
<1>1. /\ Busy(c) /\ r.at = "save" /\ UNCHANGED <<world, sessions, recent, logs>>
      /\ messages' = Append(messages, Message(r)) /\ Goes(c, Quiet)
      /\ asked' = [asked EXCEPT ![r.ask].end = "done",
                                ![r.ask].seen = IF Streams(c) THEN @ ELSE r.text]
  BY DEF SaveMessage, At, Busy
<1>2. /\ ChatTypes /\ r \in RequestRecords /\ asked[r.ask].seen \in Words
      /\ OwnAsk(c) /\ OwnSession(r) /\ OwnContext(c, r) /\ OwnAnswer(c, r, asked[r.ask].seen)
  BY <1>1, RequestFacts DEF OwnInv
<1>3. PICK k : k = r.ask
  OBVIOUS
<1>4. /\ k \in DOMAIN asked /\ asked[k].end = "open" /\ asked[k].question = r.question
      /\ asked[k] \in AskRecords /\ \A d \in Callers \ {c} : Busy(d) => asking[d].ask # k
  BY <1>2, <1>3, AskedRecords DEF OwnAsk
<1>5. r.text \in Words /\ saw \in Words
  BY <1>2, ChatRequestFields
<1>6. /\ asked' \in Seq(AskRecords) /\ Len(asked') = Len(asked) /\ DOMAIN asked' = DOMAIN asked
      /\ \A n \in DOMAIN asked \ {k} : asked'[n] = asked[n]
      /\ asked'[k].seen = saw /\ asked'[k].end = "done" /\ asked'[k].question = asked[k].question
  <2>1. PICK a : a = [asked[k] EXCEPT !.end = "done", !.seen = saw]
    OBVIOUS
  <2>2. asked' = [asked EXCEPT ![k] = a]
    BY <1>1, <1>2, <1>3, <1>4, <2>1 DEF Streams, StreamsAs
  <2> HIDE DEF saw
  <2>3. a \in AskRecords /\ a.seen = saw /\ a.end = "done" /\ a.question = asked[k].question
    BY <1>4, <1>5, <2>1 DEF AskRecords, Ends
  <2>4. /\ [asked EXCEPT ![k] = a] \in Seq(AskRecords)
        /\ DOMAIN [asked EXCEPT ![k] = a] = DOMAIN asked
        /\ Len([asked EXCEPT ![k] = a]) = Len(asked)
    BY <1>2, <1>4, <2>3, AskedRecords
  <2>5. asked' \in Seq(AskRecords) /\ Len(asked') = Len(asked) /\ DOMAIN asked' = DOMAIN asked
    BY <2>2, <2>4
  <2>6. asked'[k] = a /\ \A n \in DOMAIN asked \ {k} : asked'[n] = asked[n]
    BY <1>4, <2>2
  <2> QED
    BY <2>3, <2>5, <2>6
<1>7. PICK m : m = Message(r)
  OBVIOUS
<1>8. /\ r.session \in DOMAIN sessions /\ r.session \in Nat /\ r.kind \in AnswerKinds
      /\ r.intent \in Intents /\ (r.kind # "wait" => r.context \in ready)
      /\ (r.kind = "model" <=> Generated(k)) /\ r.context <= current
      /\ CarriesOn(r.question, r.session, r.intent, Len(messages) + 1)
  <2>1. r.session \in DOMAIN sessions
    BY <1>1, <1>2 DEF OwnSession
  <2>2. r.session \in Nat
    BY <1>2, <2>1, Lengths
  <2> QED
    BY <1>1, <1>2, <1>3, <2>1, <2>2 DEF OwnContext, OwnAnswer
<1>9. /\ m \in MessageRecords /\ m.ask = k /\ m.session = r.session
      /\ m.context = r.context /\ m.intent = r.intent /\ m.kind = r.kind /\ m.text = r.text
      /\ m.lines \cup m.reminders # {} => m.context \in ready
  BY <1>2, <1>3, <1>7, <1>8, MessageFields
<1>10. /\ EndsWith(Said(saw), Said(m.text))
       /\ "warn" \notin ToSet(Said(m.text)) => Said(m.text) = Said(saw)
       /\ m.kind # "wait" => "risk" \in ToSet(Said(saw))
  <2>1. CASE r.kind = "wait"
    <3>1. saw = m.text
      BY <1>1, <1>2, <1>9, <2>1 DEF OwnAnswer
    <3>2. EndsWith(Said(saw), Said(saw))
      BY <1>5, SaidText, EndsWithItself
    <3> QED
      BY <1>9, <2>1, <3>1, <3>2
  <2>2. CASE r.kind # "wait"
    <3>1. Fits(saw, m.text)
      BY <1>1, <1>2, <1>9, <2>2 DEF OwnAnswer
    <3> HIDE DEF saw
    <3> QED
      BY <3>1 DEF Fits
  <2> QED
    BY <2>1, <2>2
<1> HIDE DEF saw
<1>11. /\ Len(messages) \in Nat /\ DOMAIN messages = 1..Len(messages)
       /\ messages' \in Seq(MessageRecords) /\ Len(messages') = Len(messages) + 1
       /\ DOMAIN messages' = 1..(Len(messages) + 1)
       /\ \A i \in 1..Len(messages) : messages'[i] = messages[i]
       /\ messages'[Len(messages) + 1] = m
  <2>1. messages \in Seq(MessageRecords)
    BY <1>2 DEF ChatTypes
  <2> QED
    BY <1>1, <1>7, <1>9, <2>1, AppendProperties
<1>12. \A i \in 1..(Len(messages) + 1) : i \in 1..Len(messages) \/ i = Len(messages) + 1
  BY <1>11
<1>13. /\ asking' \in [Callers -> RequestRecords] /\ asking'[c].at = "idle"
       /\ \A d \in Callers \ {c} : asking'[d] = asking[d]
  BY <1>1, <1>2, GoesTo, QuietTyped
<1>14. ChatTypes'
  BY <1>1, <1>2, <1>6, <1>11, <1>13 DEF ChatTypes, world
<1>15. Grows(k)
  <2>1. /\ \A i \in DOMAIN messages : i \in DOMAIN messages' /\ messages'[i] = messages[i]
        /\ current <= current' /\ Len(sessions) <= Len(sessions') /\ ready' = ready
    <3>1. current' = current /\ sessions' = sessions /\ ready' = ready
      BY <1>1 DEF world
    <3>2. current \in Nat /\ Len(sessions) \in Nat
      BY <1>2, Lengths
    <3>3. \A i \in 1..Len(messages) : i \in 1..(Len(messages) + 1)
      BY <1>11
    <3> QED
      BY <1>11, <3>1, <3>2, <3>3
  <2> QED
    BY <1>1, <1>6, <2>1 DEF Grows
<1>16. MessageInv
  BY DEF ChatInv
<1>17. \A j \in DOMAIN messages : MessageOK(j) /\ messages[j].ask # k
  BY <1>4, <1>16 DEF MessageInv, MessageOK
<1>18. RequestsInv'
  <2> SUFFICES ASSUME NEW d \in Callers, Busy(d)' PROVE OwnInv(d)'
    BY DEF RequestsInv
  <2>1. d # c /\ asking'[d] = asking[d] /\ Busy(d)
    BY <1>13 DEF Busy
  <2>2. OwnInv(d) /\ asking[d].ask # k
    BY <1>4, <2>1 DEF ChatInv, RequestsInv
  <2>3. \A e \in Callers \ {d} : asking'[e].at # "idle" => asking'[e].ask # asking[d].ask
    <3>1. \A e \in Callers \ {d} : e = c
      BY <2>1 DEF Callers
    <3> QED
      BY <1>13, <3>1
  <2> QED
    BY <1>2, <1>14, <1>15, <2>1, <2>2, <2>3, RequestStays
<1>19. ASSUME NEW j, j = Len(messages) + 1 PROVE MessageOK(j)'
  <2>1. messages'[j] = m
    BY <1>11, <1>19
  <2>2. /\ m.ask \in DOMAIN asked' /\ asked'[m.ask].end = "done" /\ m.session \in DOMAIN sessions'
        /\ m.context <= current'
        /\ m.lines \cup m.reminders # {} => m.context \in ready'
    BY <1>1, <1>4, <1>6, <1>8, <1>9 DEF world
  <2>3. m.kind = "model" <=>
            \E i \in DOMAIN logs' : logs'[i].ask = m.ask /\ logs'[i].decision = "generated"
    BY <1>1, <1>8, <1>9 DEF Generated
  <2>4. LET q == asked'[m.ask].question
        IN  q.subjects = {} /\ q.hint = "none" =>
                \/ m.intent = "buy_window"
                \/ \E i \in 1..(j - 1) :
                      messages'[i].session = m.session /\ messages'[i].intent = m.intent
    <3>1. (Len(messages) + 1) - 1 = Len(messages) /\ j - 1 = Len(messages)
      BY <1>11, <1>19
    <3>2. CarriesOn(asked[k].question, m.session, m.intent, j)
      BY <1>4, <1>8, <1>9, <1>19
    <3>3. \A i \in 1..(j - 1) : messages'[i] = messages[i]
      BY <1>11, <3>1
    <3>4. asked'[m.ask].question = asked[k].question
      BY <1>6, <1>9
    <3> QED
      BY <3>2, <3>3, <3>4 DEF CarriesOn
  <2>5. /\ EndsWith(Said(asked'[m.ask].seen), Said(m.text))
        /\ "warn" \notin ToSet(Said(m.text)) => Said(m.text) = Said(asked'[m.ask].seen)
        /\ m.kind # "wait" => "risk" \in ToSet(Said(asked'[m.ask].seen))
    BY <1>6, <1>9, <1>10
  <2> QED
    BY <2>1, <2>2, <2>3, <2>4, <2>5 DEF MessageOK, Generated, CarriesOn
<1>20. MessageInv'
  <2>1. ~Twice(messages') /\ ~Twice(logs')
    <3>1. \A i \in DOMAIN messages : messages[i].ask # m.ask
      BY <1>9, <1>17
    <3>2. ~Twice(messages) /\ ~Twice(logs) /\ messages \in Seq(MessageRecords)
      BY <1>2, <1>16 DEF MessageInv, ChatTypes
    <3>3. ~Twice(Append(messages, m))
      BY <1>9, <3>1, <3>2, TwiceAppended
    <3> QED
      BY <1>1, <1>7, <3>2, <3>3 DEF Twice
  <2>2. \A i \in DOMAIN logs' : logs'[i].ask \in DOMAIN asked'
    BY <1>1, <1>6, <1>16 DEF MessageInv
  <2>3. \A n \in DOMAIN asked' :
           asked'[n].end = "done" => \E i \in DOMAIN messages' : messages'[i].ask = n
    <3> SUFFICES ASSUME NEW n \in DOMAIN asked, asked'[n].end = "done"
                 PROVE  \E i \in DOMAIN messages' : messages'[i].ask = n
      BY <1>6
    <3>1. CASE n = k
      <4>1. Len(messages) + 1 \in DOMAIN messages'
        BY <1>11
      <4> QED
        BY <1>9, <1>11, <3>1, <4>1
    <3>2. CASE n # k
      <4>1. \E i \in DOMAIN messages : messages[i].ask = n
        BY <1>6, <1>16, <3>2 DEF MessageInv
      <4> QED
        BY <1>15, <4>1 DEF Grows
    <3> QED
      BY <3>1, <3>2
  <2>4. ASSUME NEW j \in DOMAIN messages' PROVE MessageOK(j)'
    <3>1. CASE j \in DOMAIN messages
      BY <1>2, <1>14, <1>15, <1>17, <3>1, MessageStays
    <3>2. CASE j = Len(messages) + 1
      BY <1>19, <3>2
    <3> QED
      BY <1>11, <1>12, <3>1, <3>2
  <2> QED
    BY <2>1, <2>2, <2>3, <2>4 DEF MessageInv
<1> QED
  BY <1>14, <1>18, <1>20 DEF ChatInv

LEMMA AsksStep ==
    ASSUME ChatInv, NEW c \in Callers, NEW q \in Questions,
           NEW given \in {None, Unknown} \cup DOMAIN sessions, Asks(c, q, given)
    PROVE  ChatInv'
<1> DEFINE row == [by |-> c, question |-> q, seen |-> <<>>, end |-> "open"]
           new == [Quiet EXCEPT !.at = "context", !.ask = Len(asked) + 1, !.question = q,
                                !.given = given]
<1>1. /\ asking[c].at = "idle" /\ UNCHANGED <<world, stored>>
      /\ asked' = Append(asked, row) /\ Goes(c, new)
  BY DEF Asks, At
<1>2. ChatTypes /\ MessageInv /\ RequestsInv
  BY DEF ChatInv
<1>3. PICK k : k = Len(asked) + 1
  OBVIOUS
<1>4. /\ row \in AskRecords /\ row.question = q /\ row.seen = <<>> /\ row.end = "open"
  <2>1. <<>> \in Words
    BY DEF Words
  <2> QED
    BY <2>1 DEF AskRecords, Ends
<1> HIDE DEF row
<1>5. /\ asked' \in Seq(AskRecords) /\ Len(asked) \in Nat /\ k \in Nat /\ k # 0
      /\ DOMAIN asked = 1..Len(asked) /\ DOMAIN asked' = 1..k /\ k \notin DOMAIN asked
      /\ \A n \in DOMAIN asked : n \in DOMAIN asked' /\ n # k /\ asked'[n] = asked[n]
      /\ asked'[k] = row /\ k \in DOMAIN asked'
  <2>1. asked \in Seq(AskRecords)
    BY <1>2 DEF ChatTypes
  <2>2. /\ asked' \in Seq(AskRecords) /\ Len(asked') = Len(asked) + 1
        /\ \A n \in 1..Len(asked) : asked'[n] = asked[n]
        /\ asked'[Len(asked) + 1] = row
    BY <1>1, <1>4, <2>1, AppendProperties
  <2>3. \A n \in 1..Len(asked) : n \in 1..(Len(asked) + 1) /\ n # Len(asked) + 1
    BY <2>1
  <2> QED
    BY <1>3, <2>1, <2>2, <2>3
<1>6. /\ new \in RequestRecords /\ new.at = "context" /\ new.ask = k /\ new.question = q
      /\ new.given = given
  <2>1. given \in Int
    BY <1>2, Lengths DEF None, Unknown
  <2>2. Quiet \in RequestRecords
    BY QuietTyped
  <2> QED
    BY <1>3, <1>5, <2>1, <2>2 DEF RequestRecords
<1> HIDE DEF new
<1>7. /\ asking' \in [Callers -> RequestRecords] /\ asking'[c] = new
      /\ \A d \in Callers \ {c} : asking'[d] = asking[d]
  BY <1>1, <1>2, <1>6, GoesTo
<1>8. ChatTypes'
  BY <1>1, <1>2, <1>5, <1>7 DEF ChatTypes, world, stored
<1>9. /\ messages' = messages /\ logs' = logs /\ sessions' = sessions
      /\ current' = current /\ ready' = ready
  BY <1>1 DEF world, stored
<1>10. Grows(k)
  <2>1. current <= current /\ Len(sessions) <= Len(sessions)
    BY <1>2, Lengths
  <2> QED
    BY <1>5, <1>9, <2>1 DEF Grows
<1>11. \A d \in Callers : Busy(d) => asking[d].ask \in DOMAIN asked /\ asking[d].ask # k
  BY <1>2, <1>5 DEF RequestsInv, OwnInv, OwnAsk
<1>12. \A i \in DOMAIN logs : logs[i].ask # k
  BY <1>2, <1>5 DEF MessageInv
<1>13. RequestsInv'
  <2> SUFFICES ASSUME NEW d \in Callers, Busy(d)' PROVE OwnInv(d)'
    BY DEF RequestsInv
  <2>1. CASE d # c
    <3>1. asking'[d] = asking[d] /\ Busy(d) /\ OwnInv(d)
      BY <1>2, <1>7, <2>1 DEF Busy, RequestsInv
    <3>2. \A e \in Callers \ {d} : asking'[e].at # "idle" => asking'[e].ask # asking[d].ask
      <4>1. \A e \in Callers \ {d} : e = c
        BY <2>1 DEF Callers
      <4> QED
        BY <1>6, <1>7, <1>11, <3>1, <4>1
    <3> QED
      BY <1>2, <1>8, <1>10, <1>11, <3>1, <3>2, RequestStays
  <2>2. CASE d = c
    <3>1. OwnAsk(c)'
      <4>1. \A e \in Callers \ {c} : Busy(e)' => asking'[e].ask # k
        BY <1>7, <1>11 DEF Busy
      <4> QED
        BY <1>4, <1>5, <1>6, <1>7, <4>1 DEF OwnAsk, Busy
    <3>2. OwnSession(asking[c])' /\ OwnContext(c, asking[c])'
      BY <1>6, <1>7, <1>9 DEF OwnSession, OwnContext
    <3>3. OwnAnswer(c, asking[c], asked[asking[c].ask].seen)'
      BY <1>4, <1>5, <1>6, <1>7, <1>9, <1>12 DEF OwnAnswer
    <3> QED
      BY <2>2, <3>1, <3>2, <3>3 DEF OwnInv
  <2> QED
    BY <2>1, <2>2
<1>14. MessageInv'
  <2>1. ~Twice(messages') /\ ~Twice(logs')
    BY <1>2, <1>9 DEF MessageInv, Twice
  <2>2. \A i \in DOMAIN logs' : logs'[i].ask \in DOMAIN asked'
    BY <1>2, <1>5, <1>9 DEF MessageInv
  <2>3. \A n \in DOMAIN asked' :
           asked'[n].end = "done" => \E i \in DOMAIN messages' : messages'[i].ask = n
    <3>1. \A n \in DOMAIN asked' : n \in DOMAIN asked \/ n = k
      BY <1>3, <1>5
    <3> QED
      BY <1>2, <1>4, <1>5, <1>9, <3>1 DEF MessageInv
  <2>4. ASSUME NEW j \in DOMAIN messages' PROVE MessageOK(j)'
    <3>1. j \in DOMAIN messages /\ MessageOK(j)
      BY <1>2, <1>9 DEF MessageInv
    <3>2. messages[j].ask # k
      BY <1>5, <3>1 DEF MessageOK
    <3> QED
      BY <1>2, <1>8, <1>10, <3>1, <3>2, MessageStays
  <2> QED
    BY <2>1, <2>2, <2>3, <2>4 DEF MessageInv
<1> QED
  BY <1>8, <1>13, <1>14 DEF ChatInv

(* What others do changes no question.                                     *)
LEMMA OthersAct ==
    ASSUME ChatInv, ChatTypes', UNCHANGED <<stored, asking, asked>>, current <= current',
           ready \subseteq ready'
    PROVE  ChatInv'
<1>1. ChatTypes /\ MessageInv /\ RequestsInv
  BY DEF ChatInv
<1>2. Grows(0)
  <2>1. Len(sessions) <= Len(sessions)
    BY <1>1, Lengths
  <2> QED
    BY <2>1 DEF Grows, stored
<1>3. 0 \notin DOMAIN asked
  BY <1>1, Lengths
<1>4. RequestsInv'
  <2> SUFFICES ASSUME NEW d \in Callers, Busy(d)' PROVE OwnInv(d)'
    BY DEF RequestsInv
  <2>1. asking'[d] = asking[d] /\ Busy(d) /\ OwnInv(d)
    BY <1>1 DEF Busy, RequestsInv
  <2>2. asking[d].ask # 0
    BY <1>3, <2>1 DEF OwnInv, OwnAsk
  <2>3. \A e \in Callers \ {d} : asking'[e].at # "idle" => asking'[e].ask # asking[d].ask
    BY <2>1 DEF OwnInv, OwnAsk, Busy
  <2> QED
    BY <1>1, <1>2, <2>1, <2>2, <2>3, RequestStays
<1>5. MessageInv'
  <2>1. ASSUME NEW j \in DOMAIN messages' PROVE MessageOK(j)'
    <3>1. j \in DOMAIN messages /\ MessageOK(j)
      BY <1>1 DEF MessageInv, stored
    <3>2. messages[j].ask # 0
      BY <1>3, <3>1 DEF MessageOK
    <3> QED
      BY <1>1, <1>2, <3>1, <3>2, MessageStays
  <2>2. /\ ~Twice(messages') /\ ~Twice(logs')
        /\ \A i \in DOMAIN logs' : logs'[i].ask \in DOMAIN asked'
        /\ \A n \in DOMAIN asked' :
              asked'[n].end = "done" => \E i \in DOMAIN messages' : messages'[i].ask = n
    BY <1>1 DEF MessageInv, Twice, stored
  <2> QED
    BY <2>1, <2>2 DEF MessageInv
<1> QED
  BY <1>4, <1>5 DEF ChatInv

LEMMA HappensStep ==
    ASSUME ChatInv, SaveContext \/ Reason \/ LoseRun \/ Remember
    PROVE  ChatInv'
<1>1. UNCHANGED <<stored, asking, asked>>
  BY DEF SaveContext, Reason, LoseRun, Remember, Happens
<1>2. ChatTypes /\ MessageInv /\ RequestsInv
  BY DEF ChatInv
<1>3. /\ current' \in 0..Len(Contexts) /\ current <= current' /\ ready \subseteq ready'
      /\ ready' \subseteq 1..current' /\ withText' \subseteq 1..current' /\ warned' \in BOOLEAN
  <2>1. /\ current \in 0..Len(Contexts) /\ ready \subseteq 1..current
        /\ withText \subseteq 1..current /\ warned \in BOOLEAN /\ Len(Contexts) \in Nat
    BY <1>2, ChatBounds DEF ChatTypes, ChatBounds
  <2>2. CASE SaveContext
    <3>1. current < Len(Contexts) /\ current' = current + 1
          /\ ready' = ready /\ withText' = withText /\ warned' = warned
      BY <2>2 DEF SaveContext
    <3>2. 1..current \subseteq 1..current' /\ current' \in 0..Len(Contexts) /\ current <= current'
      BY <2>1, <3>1
    <3> QED
      BY <2>1, <3>1, <3>2
  <2>3. CASE Reason
    <3>1. /\ current > 0 /\ current' = current /\ warned' = warned
          /\ ready' = ready \cup {current} /\ withText' = withText \cup {current}
      BY <2>3 DEF Reason
    <3>2. current \in 1..current /\ current <= current
      BY <2>1, <3>1
    <3> QED
      BY <2>1, <3>1, <3>2
  <2>4. CASE LoseRun
    <3>1. /\ current' = current /\ ready' = ready /\ warned' = warned
          /\ withText' \subseteq withText
      BY <2>4 DEF LoseRun
    <3>2. current <= current
      BY <2>1
    <3> QED
      BY <2>1, <3>1, <3>2
  <2>5. CASE Remember
    <3>1. /\ current' = current /\ ready' = ready /\ withText' = withText /\ warned' = ~warned
      BY <2>5 DEF Remember
    <3>2. current <= current
      BY <2>1
    <3>3. warned' \in BOOLEAN
      BY <3>1
    <3> QED
      BY <2>1, <3>1, <3>2, <3>3
  <2> QED
    BY <2>2, <2>3, <2>4, <2>5
<1>4. ChatTypes'
  <2>1. \A s \in 1..Len(sessions) : sessions[s] <= current'
    <3>1. /\ \A s \in 1..Len(sessions) : sessions[s] \in Nat /\ sessions[s] <= current
          /\ current \in Nat /\ current' \in Nat
      BY <1>2, <1>3, Lengths DEF ChatTypes
    <3> QED
      BY <1>3, <3>1
  <2> QED
    BY <1>1, <1>2, <1>3, <2>1 DEF ChatTypes, stored
<1> QED
  BY <1>1, <1>3, <1>4, OthersAct

-----------------------------------------------------------------------------
(* The invariant.                                                          *)

LEMMA ChatStarts == ChatInit => ChatInv
<1> SUFFICES ASSUME ChatInit PROVE ChatInv
  OBVIOUS
<1>1. /\ current = 0 /\ ready = {} /\ withText = {} /\ warned = FALSE
      /\ sessions = <<>> /\ recent = None /\ messages = <<>> /\ logs = <<>> /\ asked = <<>>
      /\ \A c \in Callers : asking[c] = Quiet
      /\ asking = [c \in Callers |-> Quiet]
  BY DEF ChatInit
<1>2. ChatTypes
  <2>1. asking \in [Callers -> RequestRecords]
    BY <1>1, QuietTyped
  <2>2. Len(Contexts) \in Nat
    BY ChatBounds DEF ChatBounds
  <2>3. /\ <<>> \in Seq(Nat) /\ <<>> \in Seq(MessageRecords) /\ <<>> \in Seq(LogRecords)
        /\ <<>> \in Seq(AskRecords) /\ Len(<<>>) = 0
    OBVIOUS
  <2>4. 0 \in 0..Len(Contexts)
    BY <2>2
  <2>5. /\ current \in 0..Len(Contexts) /\ ready \subseteq 1..current
        /\ withText \subseteq 1..current /\ warned \in BOOLEAN
    BY <1>1, <2>4
  <2>6. /\ sessions \in Seq(Nat) /\ \A s \in 1..Len(sessions) : sessions[s] <= current
        /\ recent \in 0..Len(sessions) /\ (recent = None <=> sessions = <<>>)
    BY <1>1, <2>3 DEF None
  <2>7. messages \in Seq(MessageRecords) /\ logs \in Seq(LogRecords) /\ asked \in Seq(AskRecords)
    BY <1>1, <2>3
  <2> QED
    BY <2>1, <2>5, <2>6, <2>7 DEF ChatTypes
<1>3. RequestsInv
  BY <1>1, QuietTyped DEF RequestsInv, Busy
<1>4. MessageInv
  BY <1>1 DEF MessageInv, Twice
<1> QED
  BY <1>2, <1>3, <1>4 DEF ChatInv

LEMMA ChatGoesOn == ASSUME ChatInv, [ChatNext]_chatVars PROVE ChatInv'
<1>1. CASE UNCHANGED chatVars
  <2>1. ChatTypes'
    BY <1>1 DEF chatVars, ChatInv, ChatTypes
  <2>2. UNCHANGED <<stored, asking, asked>> /\ ready \subseteq ready' /\ current' = current
    BY <1>1 DEF chatVars, stored
  <2>3. current <= current'
    BY <2>2, Lengths DEF ChatInv
  <2> QED
    BY <2>1, <2>2, <2>3, OthersAct
<1>2. ASSUME NEW c \in Callers, NEW q \in Questions,
             Asks(c, q, None) \/ Asks(c, q, Unknown)
                 \/ \E s \in DOMAIN sessions : Asks(c, q, s)
      PROVE  ChatInv'
  <2>1. PICK given \in {None, Unknown} \cup DOMAIN sessions : Asks(c, q, given)
    BY <1>2
  <2> QED
    BY <2>1, AsksStep
<1>3. ASSUME NEW c \in Callers,
             \/ ReadContext(c) \/ FindSession(c) \/ WriteSession(c) \/ ReadTalk(c)
             \/ ReadMemory(c) \/ ReadMaterial(c) \/ Delta(c) \/ Answered(c) \/ NoAnswer(c)
             \/ SendRest(c) \/ WriteLog(c) \/ SaveMessage(c) \/ Raises(c) \/ Leaves(c)
      PROVE  ChatInv'
  BY <1>3, ReadContextStep, FindSessionStep, WriteSessionStep, ReadTalkStep, ReadMemoryStep,
     ReadMaterialStep, DeltaStep, AnsweredStep, NoAnswerStep, SendRestStep, WriteLogStep,
     SaveMessageStep, RaisesStep
<1>4. CASE SaveContext \/ Reason \/ LoseRun \/ Remember
  BY <1>4, HappensStep
<1> QED
  BY <1>1, <1>2, <1>3, <1>4 DEF ChatNext

(* What a chat keeps is what its users may rely on.                        *)
LEMMA ChatInvIsSound == ChatInv => ChatSound
<1> SUFFICES ASSUME ChatInv PROVE ChatSound
  OBVIOUS
<1>1. ChatTypes /\ MessageInv /\ RequestsInv
  BY DEF ChatInv
<1>2. \A m \in ToSet(messages) : \E j \in DOMAIN messages : m = messages[j] /\ MessageOK(j)
  BY <1>1 DEF MessageInv, ToSet
<1>3. /\ \A n : (\E m \in ToSet(messages) : m.ask = n)
                    <=> \E j \in DOMAIN messages : messages[j].ask = n
      /\ \A n : (\E x \in ToSet(logs) : x.ask = n /\ x.decision = "generated") <=> Generated(n)
  BY DEF ToSet, Generated
<1>4. ChatTypeOK
  <2>1. /\ current \in 0..Len(Contexts) /\ ready \cup withText \subseteq 1..current
        /\ \A s \in DOMAIN sessions : sessions[s] \in 0..current
    <3>1. /\ DOMAIN sessions = 1..Len(sessions) /\ current \in Nat
          /\ \A s \in 1..Len(sessions) : sessions[s] \in Nat /\ sessions[s] <= current
      BY <1>1, Lengths DEF ChatTypes
    <3> QED
      BY <1>1, <3>1 DEF ChatTypes
  <2>2. recent \in IF sessions = <<>> THEN {None} ELSE DOMAIN sessions
    <3>1. DOMAIN sessions = 1..Len(sessions) /\ Len(sessions) \in Nat
      BY <1>1, Lengths
    <3> QED
      BY <1>1, <3>1 DEF ChatTypes, None
  <2>3. \A m \in ToSet(messages) :
           /\ m.ask \in DOMAIN asked /\ m.session \in DOMAIN sessions
           /\ m.context \in 0..current /\ m.intent \in Intents
    <3> SUFFICES ASSUME NEW m \in ToSet(messages)
                 PROVE  /\ m.ask \in DOMAIN asked /\ m.session \in DOMAIN sessions
                        /\ m.context \in 0..current /\ m.intent \in Intents
      OBVIOUS
    <3>1. PICK j \in DOMAIN messages : m = messages[j] /\ MessageOK(j)
      BY <1>2
    <3>2. m \in MessageRecords
      BY <1>1, <3>1 DEF ChatTypes
    <3>3. m.context \in Nat /\ m.intent \in Intents /\ current \in Nat
      BY <1>1, <3>2, Lengths DEF MessageRecords
    <3> QED
      BY <3>1, <3>3 DEF MessageOK
  <2>4. \A c \in Callers : At(c, "idle") \/ asking[c].ask \in DOMAIN asked
    BY <1>1 DEF RequestsInv, OwnInv, OwnAsk, Busy, At
  <2> QED
    BY <2>1, <2>2, <2>3, <2>4 DEF ChatTypeOK
<1>5. AnsweredIsSaved
  <2>1. \A k \in DOMAIN asked :
           asked[k].end = "done" <=> \E j \in DOMAIN messages : messages[j].ask = k
    BY <1>1 DEF MessageInv, MessageOK
  <2> QED
    BY <1>1, <1>3, <2>1 DEF AnsweredIsSaved, MessageInv
<1>6. OneDecision
  <2>1. \A m \in ToSet(messages) : m.kind = "model" <=> Generated(m.ask)
    BY <1>2 DEF MessageOK
  <2> QED
    BY <1>1, <1>3, <2>1 DEF OneDecision, MessageInv
<1>7. LinesNeedReasoning
  BY <1>2 DEF LinesNeedReasoning, MessageOK
<1>8. FollowsOwnSession
  BY <1>1 DEF FollowsOwnSession, MessageInv, MessageOK, CarriesOn
<1>9. SeenIsSaved
  <2> SUFFICES ASSUME NEW m \in ToSet(messages)
               PROVE  /\ EndsWith(Said(asked[m.ask].seen), Said(m.text))
                      /\ "warn" \notin ToSet(Said(m.text)) => Said(m.text) = Said(asked[m.ask].seen)
                      /\ m.kind # "wait" => "risk" \in ToSet(Said(asked[m.ask].seen))
    BY DEF SeenIsSaved
  <2> QED
    BY <1>2 DEF MessageOK
<1> QED
  BY <1>4, <1>5, <1>6, <1>7, <1>8, <1>9 DEF ChatSound

(* For every set of questions and contexts and whatever the model says,    *)
(* with two requests at a time: what a client has seen is what is saved,   *)
(* once and for it alone, and a message speaks of its own session and of   *)
(* lines with a reasoning (answer_structure_question,                      *)
(* stream_structure_question).                                             *)
THEOREM ChatsAreSound == ChatSpec => []ChatSound
<1>1. ChatInit => ChatInv
  BY ChatStarts
<1>2. ChatInv /\ [ChatNext]_chatVars => ChatInv'
  BY ChatGoesOn
<1>3. ChatInv => ChatSound
  BY ChatInvIsSound
<1> QED
  BY <1>1, <1>2, <1>3, PTL DEF ChatSpec
=============================================================================
