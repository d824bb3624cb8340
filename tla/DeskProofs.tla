----------------------------- MODULE DeskProofs -----------------------------
(***************************************************************************)
(* The books, for any number of pages, screenshots and drafts and any      *)
(* bounds on what is recorded and edited: a draft becomes one trade; the   *)
(* row of positions is what the trades give, however it got there; an      *)
(* alert is pushed once a day.                                             *)
(***************************************************************************)
EXTENDS MCDesk, FiniteSetTheorems, NaturalsInduction, WellFoundedInduction, TLAPS

(* The rows of the tables and what the pages have read, but for the row of *)
(* positions, on which no draft depends.                                   *)
BooksTypeOK ==
    /\ trades \subseteq Trades
    /\ recorded \in 0..MaxTrades
    /\ drafts \in [Drafts -> DraftRows]
    /\ request \in [Clients -> Requests]
    /\ \A c \in Clients : request[c].at = "sell" => request[c].quantity \in Sizes
    /\ edits \in 0..MaxEdits

(* A trade keeps the number it was recorded under.                         *)
Numbered ==
    /\ \A t \in trades : t.id <= recorded
    /\ \A s, t \in trades : s.id = t.id => s = t

(* A page that is about to confirm has read every draft once, and no draft *)
(* that was not there, as long as nothing has been edited or deleted; one  *)
(* that is about to write a draft is counted.                              *)
ReadOnce(read) ==
    /\ IsFiniteSet(read)
    /\ \A x, y \in read : x.draft = y.draft => x = y

ReadWell(c) ==
    /\ ReadOnce(request[c].read)
    /\ edits = 0 => \A x \in request[c].read : Existing(x.draft)

Readings ==
    \A c \in Clients : /\ request[c].at = "confirm" => ReadWell(c)
                       /\ request[c].at = "patch" => edits # 0

BookInv == BooksTypeOK /\ Numbered /\ Readings /\ OneTradePerDraft

-----------------------------------------------------------------------------
(* Sets and sequences.                                                     *)

LEMMA SetToSeqBijective ==
    ASSUME NEW S, IsFiniteSet(S)
    PROVE  /\ Cardinality(S) \in Nat
           /\ SetToSeq(S) \in [1..Cardinality(S) -> S]
           /\ \A i, j \in 1..Cardinality(S) : SetToSeq(S)[i] = SetToSeq(S)[j] => i = j
           /\ \A x \in S : \E i \in 1..Cardinality(S) : SetToSeq(S)[i] = x
<1> DEFINE n == Cardinality(S)
           f == SetToSeq(S)
<1>1. n \in Nat /\ ExistsBijection(1..n, S)
  BY FS_CardinalityType
<1>2. \E g \in [1..n -> S] : IsInjective(g)
  BY <1>1 DEF ExistsBijection, Bijection, Injection, IsInjective
<1>3. f \in [1..n -> S] /\ IsInjective(f)
  BY <1>2 DEF SetToSeq
<1> HIDE DEF f, n
<1>4. \A i, j \in 1..n : f[i] = f[j] => i = j
  BY <1>3 DEF IsInjective
<1>5. \A x \in S : \E i \in 1..n : f[i] = x
  <2> DEFINE T == {f[i] : i \in 1..n}
  <2>1. IsFiniteSet(1..n) /\ Cardinality(1..n) = n
    BY <1>1, FS_Interval
  <2>2. f \in Bijection(1..n, T)
    BY <1>3, <1>4 DEF Bijection, Injection, Surjection, IsInjective
  <2>3. Cardinality(T) = Cardinality(1..n) /\ ExistsBijection(1..n, T)
    BY <2>1, <2>2, FS_Bijection DEF ExistsBijection
  <2>4. T \in SUBSET S
    BY <1>3
  <2> HIDE DEF T
  <2>5. Cardinality(S) = Cardinality(T)
    BY <2>1, <2>3 DEF n
  <2>6. S = T
    BY <2>4, <2>5, FS_Subset
  <2> QED
    BY <2>6 DEF T
<1> QED
  BY <1>1, <1>3, <1>4, <1>5 DEF f, n

LEMMA LenOfFunction ==
    ASSUME NEW S, NEW n \in Nat, NEW f \in [1..n -> S]
    PROVE  Len(f) = n /\ DOMAIN f = 1..n
  OBVIOUS

-----------------------------------------------------------------------------
(* Trades.                                                                 *)

LEMMA ByHandTyped ==
    ASSUME BooksTypeOK, recorded < MaxTrades, NEW q \in Sizes, NEW direction \in Directions,
           NEW at \in 0..(recorded + 1 + TextAfter)
    PROVE  /\ ByHand(at, direction, q) \in Trades
           /\ ByHand(at, direction, q).id = recorded + 1
           /\ ByHand(at, direction, q).draft = NoDraft
<1>1. /\ MaxTrades \in Nat /\ recorded \in 0..MaxTrades
  BY DeskBounds DEF BooksTypeOK
<1>2. recorded + 1 \in 1..MaxTrades /\ at \in 0..(MaxTrades + TextAfter)
  BY <1>1 DEF TextAfter
<1> QED
  BY <1>2 DEF ByHand, Trades

LEMMA TimesTyped ==
    ASSUME BooksTypeOK, NEW at \in Times
    PROVE  at \in 0..(recorded + 1) /\ at \in 0..(recorded + 1 + TextAfter)
                /\ at \in 0..(MaxTrades + TextAfter)
  BY DeskBounds DEF BooksTypeOK, Times, TextAfter

(* A trade that is not booked from a draft disturbs nothing.               *)
LEMMA NewTradeKeeps ==
    ASSUME BookInv, NEW t \in Trades, t.id = recorded + 1, t.draft = NoDraft, NewTrade(t),
           UNCHANGED <<drafts, edits>>
    PROVE  /\ trades' \subseteq Trades /\ recorded' \in 0..MaxTrades
           /\ Numbered' /\ OneTradePerDraft'
<1>1. /\ trades' = trades \cup {t} /\ recorded' = recorded + 1 /\ recorded < MaxTrades
      /\ trades \subseteq Trades /\ recorded \in 0..MaxTrades /\ MaxTrades \in Nat
  BY DeskBounds DEF NewTrade, BookInv, BooksTypeOK
<1>2. trades' \subseteq Trades /\ recorded' \in 0..MaxTrades
  BY <1>1
<1>3. Numbered'
  <2>1. \A s \in trades : s.id \in Int /\ s.id <= recorded
    BY <1>1 DEF BookInv, Numbered, Trades
  <2>2. \A r, s \in trades : r.id = s.id => r = s
    BY DEF BookInv, Numbered
  <2>3. \A s \in trades' : s.id <= recorded'
    BY <1>1, <2>1
  <2>4. \A r, s \in trades' : r.id = s.id => r = s
    BY <1>1, <2>1, <2>2
  <2> QED
    BY <2>3, <2>4 DEF Numbered
<1>4. OneTradePerDraft'
  <2>1. \A r, s \in trades' : r.draft = s.draft /\ r.draft # NoDraft => r = s
    BY <1>1 DEF BookInv, OneTradePerDraft
  <2>2. \A d \in Drafts : (\E s \in trades' : s.draft = d) <=> (\E s \in trades : s.draft = d)
    BY <1>1, DraftsAssumption
  <2> QED
    BY <2>1, <2>2 DEF BookInv, OneTradePerDraft
<1> QED
  BY <1>2, <1>3, <1>4

(* Nothing can be edited without being counted.                            *)
LEMMA EditedCounts ==
    ASSUME BooksTypeOK, Edited
    PROVE  edits' \in 0..MaxEdits /\ edits' # 0
  BY DeskBounds DEF BooksTypeOK, Edited

(* What nobody has read again stays as good.                               *)
LEMMA SameReadings ==
    ASSUME BookInv, UNCHANGED request,
           edits' = 0 => edits = 0 /\ \A d \in Drafts : Existing(d) => Existing(d)'
    PROVE  Readings'
<1> SUFFICES ASSUME NEW b \in Clients
             PROVE  /\ request[b].at = "confirm" => ReadWell(b)'
                    /\ request[b].at = "patch" => edits' # 0
  BY DEF Readings
<1>1. /\ request[b].at = "confirm" => ReadWell(b)
      /\ request[b].at = "patch" => edits # 0
  BY DEF BookInv, Readings
<1>2. \A x \in request[b].read : x.draft \in Drafts
  BY DEF BookInv, BooksTypeOK, Requests, Bookings
<1> QED
  BY <1>1, <1>2 DEF ReadWell, ReadOnce

(* What the other pages have read is unchanged, and stays as good.         *)
LEMMA ReadingsKept ==
    ASSUME BookInv, NEW c \in Clients, request' \in [Clients -> Requests],
           \A b \in Clients \ {c} : request'[b] = request[b],
           \/ request'[c] = request[c]
           \/ request'[c].at # "confirm" /\ (request'[c].at = "patch" => edits' # 0),
           edits' = 0 => edits = 0 /\ \A d \in Drafts : Existing(d) => Existing(d)'
    PROVE  Readings'
<1> SUFFICES ASSUME NEW b \in Clients
             PROVE  /\ request'[b].at = "confirm" => ReadWell(b)'
                    /\ request'[b].at = "patch" => edits' # 0
  BY DEF Readings
<1>1. CASE request'[b] = request[b]
  <2>1. /\ request[b].at = "confirm" => ReadWell(b)
        /\ request[b].at = "patch" => edits # 0
    BY DEF BookInv, Readings
  <2>2. \A x \in request[b].read : x.draft \in Drafts
    BY DEF BookInv, BooksTypeOK, Requests, Bookings
  <2> QED
    BY <1>1, <2>1, <2>2 DEF ReadWell, ReadOnce
<1>2. CASE request'[b] # request[b]
  BY <1>2
<1> QED
  BY <1>1, <1>2

-----------------------------------------------------------------------------
(* The steps.                                                              *)

(* A step that leaves trades, numbers and drafts alone.                    *)
LEMMA SameBooks ==
    ASSUME BookInv, UNCHANGED <<trades, recorded, drafts, edits>>
    PROVE  /\ trades' \subseteq Trades /\ recorded' \in 0..MaxTrades
           /\ drafts' \in [Drafts -> DraftRows] /\ edits' \in 0..MaxEdits
           /\ Numbered' /\ OneTradePerDraft'
  BY DEF BookInv, BooksTypeOK, Numbered, OneTradePerDraft

LEMMA IdleTyped ==
    Idle \in Requests /\ Idle.at = "idle" /\ Idle.quantity = 0 /\ Idle.read = {}
  BY DEF Idle, Requests

LEMMA BuyKeeps == ASSUME BookInv, NEW c \in Clients, Buy(c) PROVE BookInv'
<1>1. PICK q \in Sizes, at \in Times : NewTrade(ByHand(at, "BUY", q))
  BY DEF Buy
<1> DEFINE t == ByHand(at, "BUY", q)
<1>2. BooksTypeOK /\ recorded < MaxTrades /\ UNCHANGED <<drafts, request, edits>>
  BY <1>1 DEF BookInv, Buy, NewTrade
<1>3. t \in Trades /\ t.id = recorded + 1 /\ t.draft = NoDraft
  BY <1>2, TimesTyped, ByHandTyped DEF Directions
<1>4. /\ trades' \subseteq Trades /\ recorded' \in 0..MaxTrades
      /\ Numbered' /\ OneTradePerDraft'
  <2> HIDE DEF t
  <2> QED
    BY <1>1, <1>2, <1>3, NewTradeKeeps DEF t
<1>5. Readings'
  BY <1>2, ReadingsKept DEF BooksTypeOK, Existing
<1> QED
  BY <1>2, <1>4, <1>5 DEF BookInv, BooksTypeOK

LEMMA ImportKeeps == ASSUME BookInv, NEW c \in Clients, ImportStatement(c) PROVE BookInv'
<1>1. PICK q \in Sizes, direction \in Directions :
         NewTrade(ByHand(recorded + 1 + TextAfter, direction, q))
  BY DEF ImportStatement
<1> DEFINE t == ByHand(recorded + 1 + TextAfter, direction, q)
<1>2. BooksTypeOK /\ recorded < MaxTrades /\ UNCHANGED <<drafts, request, edits>>
  BY <1>1 DEF BookInv, ImportStatement, NewTrade
<1>3. t \in Trades /\ t.id = recorded + 1 /\ t.draft = NoDraft
  <2>1. recorded + 1 + TextAfter \in 0..(recorded + 1 + TextAfter)
    BY <1>2, DeskBounds DEF BooksTypeOK, TextAfter
  <2> QED
    BY <1>2, <2>1, ByHandTyped
<1>4. /\ trades' \subseteq Trades /\ recorded' \in 0..MaxTrades
      /\ Numbered' /\ OneTradePerDraft'
  <2> HIDE DEF t
  <2> QED
    BY <1>1, <1>2, <1>3, NewTradeKeeps DEF t
<1>5. Readings'
  BY <1>2, ReadingsKept DEF BooksTypeOK, Existing
<1> QED
  BY <1>2, <1>4, <1>5 DEF BookInv, BooksTypeOK

LEMMA CheckSaleKeeps == ASSUME BookInv, NEW c \in Clients, CheckSale(c) PROVE BookInv'
<1>1. PICK q \in Sizes :
         request' = [request EXCEPT ![c] = [Idle EXCEPT !.at = "sell", !.quantity = q]]
  BY DEF CheckSale
<1> DEFINE new == [Idle EXCEPT !.at = "sell", !.quantity = q]
<1>2. BooksTypeOK /\ UNCHANGED <<trades, recorded, drafts, edits>>
  BY DEF BookInv, CheckSale
<1>3. new \in Requests /\ new.at = "sell" /\ new.quantity = q
  BY DEF Idle, Requests
<1> HIDE DEF new
<1>4. /\ request' \in [Clients -> Requests] /\ request'[c] = new
      /\ \A b \in Clients \ {c} : request'[b] = request[b]
  BY <1>1, <1>2, <1>3 DEF BooksTypeOK, new
<1>5. Readings'
  BY <1>2, <1>3, <1>4, ReadingsKept DEF Existing
<1>6. \A b \in Clients : request'[b].at = "sell" => request'[b].quantity \in Sizes
  BY <1>2, <1>3, <1>4 DEF BooksTypeOK
<1> QED
  BY <1>2, <1>4, <1>5, <1>6, SameBooks DEF BookInv, BooksTypeOK

(* Whoever has been answered has nothing in hand.                          *)
LEMMA AnsweredKeeps ==
    ASSUME BookInv, NEW c \in Clients, Answered(c),
           edits' = 0 => edits = 0 /\ \A d \in Drafts : Existing(d) => Existing(d)'
    PROVE  /\ request' \in [Clients -> Requests] /\ Readings'
           /\ \A b \in Clients : request'[b].at = "sell" => request'[b].quantity \in Sizes
<1>1. /\ request' \in [Clients -> Requests] /\ request'[c].at = "idle"
      /\ \A b \in Clients \ {c} : request'[b] = request[b]
  BY IdleTyped DEF Answered, BookInv, BooksTypeOK
<1> QED
  BY <1>1, ReadingsKept DEF BookInv, BooksTypeOK

LEMMA SellKeeps == ASSUME BookInv, NEW c \in Clients, Sell(c) PROVE BookInv'
<1> DEFINE q == request[c].quantity
<1>1. PICK at \in Times : NewTrade(ByHand(at, "SELL", q))
  BY DEF Sell
<1> DEFINE t == ByHand(at, "SELL", q)
<1>2. /\ BooksTypeOK /\ recorded < MaxTrades /\ q \in Sizes
      /\ UNCHANGED <<drafts, edits>> /\ Answered(c)
  BY <1>1 DEF BookInv, BooksTypeOK, Sell, NewTrade
<1>3. t \in Trades /\ t.id = recorded + 1 /\ t.draft = NoDraft
  BY <1>2, TimesTyped, ByHandTyped DEF Directions
<1>4. /\ trades' \subseteq Trades /\ recorded' \in 0..MaxTrades
      /\ Numbered' /\ OneTradePerDraft'
  <2> HIDE DEF t
  <2> QED
    BY <1>1, <1>2, <1>3, NewTradeKeeps DEF t
<1>5. /\ request' \in [Clients -> Requests] /\ Readings'
      /\ \A b \in Clients : request'[b].at = "sell" => request'[b].quantity \in Sizes
  BY <1>2, AnsweredKeeps DEF Existing
<1> QED
  BY <1>2, <1>4, <1>5 DEF BookInv, BooksTypeOK

(* An edit leaves every draft at most the trade it has.                    *)
LEMMA EditKeeps ==
    ASSUME BookInv, Edited, trades' \subseteq Trades,
           \A s, t \in trades' : s.draft = t.draft /\ s.draft # NoDraft => s = t
    PROVE  OneTradePerDraft' /\ edits' \in 0..MaxEdits /\ edits' # 0
<1>1. edits' \in 0..MaxEdits /\ edits' # 0
  BY EditedCounts DEF BookInv
<1> QED
  BY <1>1 DEF OneTradePerDraft

LEMMA UpdateKeeps == ASSUME BookInv, NEW c \in Clients, UpdateTrade(c) PROVE BookInv'
<1>1. PICK t \in trades : \E q \in Sizes, direction \in Directions :
                            \E at \in {t.at} \cup (IF OutOfOrder THEN Times ELSE {}) :
         trades' = (trades \ {t}) \cup
                      {[t EXCEPT !.quantity = q, !.direction = direction, !.at = at]}
  BY DEF UpdateTrade
<1>2. PICK q \in Sizes, direction \in Directions,
           at \in {t.at} \cup (IF OutOfOrder THEN Times ELSE {}) :
         trades' = (trades \ {t}) \cup
                      {[t EXCEPT !.quantity = q, !.direction = direction, !.at = at]}
  BY <1>1
<1> DEFINE new == [t EXCEPT !.quantity = q, !.direction = direction, !.at = at]
<1>3. BooksTypeOK /\ Edited /\ UNCHANGED <<recorded, drafts, request>>
  BY DEF BookInv, UpdateTrade
<1>4. t \in Trades /\ at \in 0..(MaxTrades + TextAfter)
  <2>1. t \in Trades
    BY <1>3 DEF BooksTypeOK
  <2>2. t.at \in 0..(MaxTrades + TextAfter)
    BY <2>1 DEF Trades
  <2> QED
    BY <1>3, <2>1, <2>2, TimesTyped
<1>5. new \in Trades /\ new.id = t.id /\ new.draft = t.draft
  BY <1>4 DEF Trades
<1> HIDE DEF new
<1>6. trades' \subseteq Trades
  BY <1>2, <1>3, <1>5 DEF BooksTypeOK, new
<1>7. trades' = (trades \ {t}) \cup {new}
  BY <1>2 DEF new
<1>8. Numbered'
  BY <1>3, <1>5, <1>7 DEF BookInv, Numbered
<1>9. \A r, s \in trades' : r.draft = s.draft /\ r.draft # NoDraft => r = s
  BY <1>5, <1>7 DEF BookInv, OneTradePerDraft
<1>10. OneTradePerDraft' /\ edits' \in 0..MaxEdits /\ edits' # 0
  BY <1>3, <1>6, <1>9, EditKeeps
<1>11. Readings'
  BY <1>3, <1>10, ReadingsKept DEF BooksTypeOK
<1> QED
  BY <1>3, <1>6, <1>8, <1>10, <1>11 DEF BookInv, BooksTypeOK

LEMMA DeleteKeeps == ASSUME BookInv, NEW c \in Clients, DeleteTrade(c) PROVE BookInv'
<1>1. PICK t \in trades : trades' = trades \ {t}
  BY DEF DeleteTrade
<1>2. BooksTypeOK /\ Edited /\ UNCHANGED <<recorded, drafts, request>>
  BY DEF BookInv, DeleteTrade
<1>3. trades' \subseteq Trades
  BY <1>1, <1>2 DEF BooksTypeOK
<1>4. Numbered'
  BY <1>1, <1>2 DEF BookInv, Numbered
<1>5. \A r, s \in trades' : r.draft = s.draft /\ r.draft # NoDraft => r = s
  BY <1>1 DEF BookInv, OneTradePerDraft
<1>6. OneTradePerDraft' /\ edits' \in 0..MaxEdits /\ edits' # 0
  BY <1>2, <1>3, <1>5, EditKeeps
<1>7. Readings'
  BY <1>2, <1>6, ReadingsKept DEF BooksTypeOK
<1> QED
  BY <1>2, <1>3, <1>4, <1>6, <1>7 DEF BookInv, BooksTypeOK

(* A page that takes a new row of a draft in hand.                         *)
LEMMA HoldingKeeps ==
    ASSUME BookInv, NEW c \in Clients, NEW d \in Drafts, NEW row \in DraftRows,
           Holds(c, d, row), Edited, UNCHANGED <<trades, recorded, drafts>>
    PROVE  BookInv'
<1> DEFINE p == [draft |-> d, row |-> row]
           new == [Idle EXCEPT !.at = "patch", !.patch = {p}]
<1>1. request' = [request EXCEPT ![c] = new] /\ BooksTypeOK
  BY DEF Holds, BookInv
<1>2. p \in Patches
  BY DEF Patches
<1> HIDE DEF p
<1>3. new \in Requests /\ new.at = "patch"
  BY <1>2 DEF Idle, Requests
<1> HIDE DEF new
<1>4. /\ request' \in [Clients -> Requests] /\ request'[c].at = "patch"
      /\ \A b \in Clients \ {c} : request'[b] = request[b]
  BY <1>1, <1>3 DEF BooksTypeOK
<1>5. OneTradePerDraft' /\ edits' \in 0..MaxEdits /\ edits' # 0
  BY <1>1, EditKeeps DEF BookInv, BooksTypeOK, OneTradePerDraft
<1>6. Readings'
  BY <1>4, <1>5, ReadingsKept
<1>7. \A b \in Clients : request'[b].at = "sell" => request'[b].quantity \in Sizes
  BY <1>1, <1>4 DEF BooksTypeOK
<1> QED
  BY <1>1, <1>4, <1>5, <1>6, <1>7 DEF BookInv, BooksTypeOK, Numbered

LEMMA EditDraftKeeps ==
    ASSUME BookInv, NEW c \in Clients, NEW d \in Drafts, EditDraft(c, d)
    PROVE  BookInv'
<1>1. PICK sound, ack \in BOOLEAN, q \in Sizes :
         Holds(c, d, [drafts[d] EXCEPT !.status = StatusFor(sound, drafts[d].status, ack),
                                       !.sound = sound, !.ack = ack, !.quantity = q])
  BY Zenon DEF EditDraft
<1> DEFINE status == StatusFor(sound, drafts[d].status, ack)
           row == [drafts[d] EXCEPT !.status = status, !.sound = sound, !.ack = ack,
                                    !.quantity = q]
<1>2. drafts[d] \in DraftRows
  BY DEF BookInv, BooksTypeOK
<1>3. status \in DraftStatuses
  BY DEF StatusFor, DraftStatuses
<1> HIDE DEF status
<1>4. row \in DraftRows
  BY <1>2, <1>3 DEF DraftRows
<1>5. Holds(c, d, row)
  BY <1>1, Zenon DEF status
<1> HIDE DEF row
<1> QED
  BY <1>4, <1>5, HoldingKeeps DEF EditDraft

LEMMA DeleteDraftKeeps ==
    ASSUME BookInv, NEW c \in Clients, NEW d \in Drafts, DeleteDraft(c, d)
    PROVE  BookInv'
<1> DEFINE row == [drafts[d] EXCEPT !.status = "DELETED"]
<1>1. row \in DraftRows
  BY DEF BookInv, BooksTypeOK, DraftRows, DraftStatuses
<1>2. Holds(c, d, row)
  BY DEF DeleteDraft
<1> HIDE DEF row
<1> QED
  BY <1>1, <1>2, HoldingKeeps DEF DeleteDraft

(* What is written of a draft was counted when the draft was read.         *)
LEMMA WriteDraftKeeps == ASSUME BookInv, NEW c \in Clients, WriteDraft(c) PROVE BookInv'
<1>1. /\ BooksTypeOK /\ Answered(c) /\ UNCHANGED <<trades, recorded, edits>> /\ edits # 0
  BY DEF BookInv, WriteDraft, Readings
<1>2. PICK p \in request[c].patch :
         drafts' = IF Existing(p.draft) THEN [drafts EXCEPT ![p.draft] = p.row] ELSE drafts
  BY DEF WriteDraft
<1>3. p.draft \in Drafts /\ p.row \in DraftRows
  BY <1>1 DEF BooksTypeOK, Requests, Patches
<1>4. drafts' \in [Drafts -> DraftRows]
  BY <1>1, <1>2, <1>3 DEF BooksTypeOK
<1>5. OneTradePerDraft'
  BY <1>1 DEF BookInv, OneTradePerDraft
<1>6. /\ request' \in [Clients -> Requests] /\ Readings'
      /\ \A b \in Clients : request'[b].at = "sell" => request'[b].quantity \in Sizes
  BY <1>1, AnsweredKeeps
<1> QED
  BY <1>1, <1>4, <1>5, <1>6 DEF BookInv, BooksTypeOK, Numbered

(* A batch is uploaded where there was none: no draft of it is booked.     *)
LEMMA UploadKeeps == ASSUME BookInv, NEW b, UploadBatch(b) PROVE BookInv'
<1> DEFINE rows == {d \in Drafts : BatchOf[d] = b}
           Twin(d) == \E e \in TwinOf[d] : BatchOf[e] # b /\ Existing(e)
           Status(d, found) == IF ~found THEN "BLOCKED"
                               ELSE IF Twin(d) THEN "POSSIBLE_DUPLICATE" ELSE "DRAFT"
<1>1. /\ BooksTypeOK /\ UNCHANGED <<trades, recorded, position, request, edits>>
      /\ \A d \in rows : drafts[d].status = "NONE"
  BY DEF BookInv, UploadBatch
<1>2. PICK found \in [rows -> BOOLEAN] :
         drafts' = [d \in Drafts |->
            IF d \in rows
            THEN [drafts[d] EXCEPT !.status = Status(d, found[d]), !.sound = found[d],
                                   !.duplicate = Twin(d)]
            ELSE drafts[d]]
  BY DEF UploadBatch
<1>3. \A d \in Drafts :
         /\ drafts'[d] \in DraftRows
         /\ d \notin rows => drafts'[d] = drafts[d]
         /\ d \in rows => drafts'[d].status \in {"BLOCKED", "POSSIBLE_DUPLICATE", "DRAFT"}
  <2> SUFFICES ASSUME NEW d \in Drafts
               PROVE  /\ drafts'[d] \in DraftRows
                      /\ d \notin rows => drafts'[d] = drafts[d]
                      /\ d \in rows =>
                            drafts'[d].status \in {"BLOCKED", "POSSIBLE_DUPLICATE", "DRAFT"}
    OBVIOUS
  <2>1. drafts[d] \in DraftRows
    BY <1>1 DEF BooksTypeOK
  <2>2. CASE d \notin rows
    BY <1>2, <2>1, <2>2
  <2>3. CASE d \in rows
    <3> DEFINE twin == Twin(d)
               f == found[d]
               status == IF ~f THEN "BLOCKED"
                         ELSE IF twin THEN "POSSIBLE_DUPLICATE" ELSE "DRAFT"
    <3>1. twin \in BOOLEAN /\ f \in BOOLEAN
      BY <2>3
    <3>2. drafts'[d] = [drafts[d] EXCEPT !.status = status, !.sound = f, !.duplicate = twin]
      BY <1>2, <2>3
    <3> HIDE DEF twin, f
    <3>3. /\ drafts'[d] \in DraftRows
          /\ drafts'[d].status \in {"BLOCKED", "POSSIBLE_DUPLICATE", "DRAFT"}
      BY <2>1, <3>1, <3>2 DEF DraftRows, DraftStatuses
    <3> QED
      BY <2>3, <3>3
  <2> QED
    BY <2>2, <2>3
<1>4. drafts' \in [Drafts -> DraftRows]
  <2>1. DOMAIN drafts' = Drafts /\ drafts' = [d \in Drafts |-> drafts'[d]]
    BY <1>2
  <2> QED
    BY <1>3, <2>1
<1> HIDE DEF rows
<1>5. Readings'
  BY <1>1, <1>3, SameReadings DEF BooksTypeOK, Existing, rows
<1>6. OneTradePerDraft'
  <2>1. \A d \in Drafts : drafts'[d].status = "CONFIRMED" <=> drafts[d].status = "CONFIRMED"
    BY <1>1, <1>3
  <2> QED
    BY <1>1, <2>1 DEF BookInv, OneTradePerDraft
<1> QED
  BY <1>1, <1>4, <1>5, <1>6 DEF BookInv, BooksTypeOK, Numbered

LEMMA ReadKeeps == ASSUME BookInv, NEW b, NEW c \in Clients, ReadBatch(c, b) PROVE BookInv'
<1>1. PICK chosen \in SUBSET {d \in Drafts : BatchOf[d] = b /\ Existing(d)} :
         request' = [request EXCEPT
            ![c] = [Idle EXCEPT !.at = "confirm", !.read = {Booking(d) : d \in Bookable(chosen)}]]
  BY DEF ReadBatch
<1> DEFINE rows == Bookable(chosen)
           read == {Booking(d) : d \in rows}
           new == [Idle EXCEPT !.at = "confirm", !.read = read]
<1>2. BooksTypeOK /\ UNCHANGED <<trades, recorded, position, drafts, edits>>
  BY DEF BookInv, ReadBatch
<1>3. rows \subseteq Drafts /\ \A d \in rows : Existing(d)
  BY DEF Bookable
<1>4. IsFiniteSet(read)
  <2>1. IsFiniteSet(rows)
    BY <1>3, DraftsAssumption, FS_Subset
  <2> HIDE DEF rows
  <2>2. [d \in rows |-> Booking(d)] \in Surjection(rows, read)
    BY DEF Surjection
  <2> QED
    BY <2>1, <2>2, FS_Surjection
<1>5. \A d \in Drafts : Booking(d) \in Bookings /\ Booking(d).draft = d
  <2> TAKE d \in Drafts
  <2>1. drafts[d] \in DraftRows
    BY <1>2 DEF BooksTypeOK
  <2> QED
    BY <2>1 DEF Booking, Bookings, DraftRows
<1>6. /\ read \in SUBSET Bookings /\ ReadOnce(read) /\ \A x \in read : Existing(x.draft)
  <2> HIDE DEF rows
  <2>1. read \in SUBSET Bookings
    BY <1>3, <1>5
  <2>2. \A x, y \in read : x.draft = y.draft => x = y
    BY <1>3, <1>5
  <2>3. \A x \in read : Existing(x.draft)
    BY <1>3, <1>5
  <2> QED
    BY <1>4, <2>1, <2>2, <2>3 DEF ReadOnce
<1> HIDE DEF rows, read
<1>7. new \in Requests /\ new.at = "confirm" /\ new.read = read
  BY <1>6 DEF Idle, Requests
<1> HIDE DEF new
<1>8. /\ request' \in [Clients -> Requests] /\ request'[c] = new
      /\ \A e \in Clients \ {c} : request'[e] = request[e]
  BY <1>1, <1>2, <1>7 DEF BooksTypeOK, new, read, rows
<1>9. Readings'
  <2> SUFFICES ASSUME NEW e \in Clients
               PROVE  /\ request'[e].at = "confirm" => ReadWell(e)'
                      /\ request'[e].at = "patch" => edits' # 0
    BY DEF Readings
  <2>1. CASE e = c
    BY <1>2, <1>6, <1>7, <1>8, <2>1 DEF ReadWell, Existing
  <2>2. CASE e # c
    BY <1>2, <1>8, <2>2 DEF BookInv, Readings, ReadWell, Existing
  <2> QED
    BY <2>1, <2>2
<1>10. \A e \in Clients : request'[e].at = "sell" => request'[e].quantity \in Sizes
  BY <1>2, <1>7, <1>8 DEF BooksTypeOK
<1> QED
  BY <1>2, <1>8, <1>9, <1>10, SameBooks DEF BookInv, BooksTypeOK

LEMMA RaisesKeeps == ASSUME BookInv, NEW c \in Clients, ConfirmRaises(c) PROVE BookInv'
<1>1. Answered(c) /\ UNCHANGED <<trades, recorded, position, drafts, edits>>
  BY DEF ConfirmRaises
<1>2. /\ request' \in [Clients -> Requests] /\ Readings'
      /\ \A b \in Clients : request'[b].at = "sell" => request'[b].quantity \in Sizes
  BY <1>1, AnsweredKeeps DEF Existing
<1> QED
  BY <1>1, <1>2, SameBooks DEF BookInv, BooksTypeOK

(* Confirm books drafts of which none is booked yet, each once.            *)
LEMMA ConfirmKeeps == ASSUME BookInv, NEW c \in Clients, Confirm(c) PROVE BookInv'
<1> DEFINE read == request[c].read
           rows == SetToSeq(read)
           n == Len(rows)
           done == {row.draft : row \in read}
           Booked(i, at) ==
              [ id |-> recorded + i, at |-> at, direction |-> rows[i].direction,
                quantity |-> rows[i].quantity, draft |-> rows[i].draft, acked |-> rows[i].ack ]
<1>1. /\ request[c].at = "confirm" /\ ~AlreadyBooked(done)
      /\ recorded + n <= MaxTrades /\ recorded' = recorded + n
      /\ Answered(c) /\ UNCHANGED edits
      /\ drafts' = [d \in Drafts |-> IF d \in done /\ Existing(d)
                                     THEN [drafts[d] EXCEPT !.status = "CONFIRMED"] ELSE drafts[d]]
  BY DEF Confirm
<1>2. PICK at \in Times : trades' = trades \cup {Booked(i, at) : i \in DOMAIN rows}
  BY DEF Confirm
<1>3. /\ BooksTypeOK /\ ReadOnce(read) /\ read \subseteq Bookings
      /\ edits = 0 => \A x \in read : Existing(x.draft)
  BY <1>1 DEF BookInv, BooksTypeOK, Requests, Readings, ReadWell
<1>4. /\ n \in Nat /\ DOMAIN rows = 1..n /\ rows \in [1..n -> read]
      /\ \A i, j \in 1..n : rows[i] = rows[j] => i = j
      /\ \A x \in read : \E i \in 1..n : rows[i] = x
  <2>1. IsFiniteSet(read)
    BY <1>3 DEF ReadOnce
  <2>2. /\ Cardinality(read) \in Nat /\ rows \in [1..Cardinality(read) -> read]
        /\ \A i, j \in 1..Cardinality(read) : rows[i] = rows[j] => i = j
        /\ \A x \in read : \E i \in 1..Cardinality(read) : rows[i] = x
    BY <2>1, SetToSeqBijective
  <2> HIDE DEF rows
  <2>3. n = Cardinality(read) /\ DOMAIN rows = 1..n
    BY <2>2, LenOfFunction
  <2> QED
    BY <2>2, <2>3
<1> DEFINE new == {Booked(i, at) : i \in 1..n}
<1> HIDE DEF read, rows, n, done
<1>5. recorded \in Nat /\ MaxTrades \in Nat /\ trades \subseteq Trades
  BY <1>3, DeskBounds DEF BooksTypeOK
<1>6. \A i \in 1..n : /\ Booked(i, at) \in Trades
                      /\ Booked(i, at).id = recorded + i
                      /\ Booked(i, at).draft = rows[i].draft /\ rows[i] \in read
  <2> TAKE i \in 1..n
  <2>1. rows[i] \in Bookings /\ rows[i] \in read
    BY <1>3, <1>4
  <2>2. recorded + i \in 1..MaxTrades
    BY <1>1, <1>4, <1>5
  <2>3. at \in 0..(MaxTrades + TextAfter)
    BY <1>3, TimesTyped
  <2> HIDE DEF rows
  <2> QED
    BY <2>1, <2>2, <2>3 DEF Trades, Bookings
<1>7. trades' = trades \cup new
  BY <1>2, <1>4
<1>8. \A t \in new : \E i \in 1..n : t = Booked(i, at)
  OBVIOUS
<1>9. \A i \in 1..n : Booked(i, at) \in new
  OBVIOUS
<1> HIDE DEF new, Booked
<1>10. trades' \subseteq Trades /\ recorded' \in 0..MaxTrades
  BY <1>1, <1>4, <1>5, <1>6, <1>7, <1>8
<1>11. Numbered'
  <2>1. \A t \in trades : t.id \in Int /\ t.id <= recorded
    BY <1>5 DEF BookInv, Numbered, Trades
  <2>2. \A t \in new : t.id \in Int /\ t.id > recorded /\ t.id <= recorded + n
    BY <1>4, <1>5, <1>6, <1>8
  <2>3. \A s, t \in new : s.id = t.id => s = t
    <3> SUFFICES ASSUME NEW s \in new, NEW t \in new, s.id = t.id
                 PROVE  s = t
      OBVIOUS
    <3>1. PICK i \in 1..n : s = Booked(i, at)
      BY <1>8
    <3>2. PICK j \in 1..n : t = Booked(j, at)
      BY <1>8
    <3>3. recorded + i = recorded + j
      BY <1>6, <3>1, <3>2
    <3>4. i = j
      BY <1>4, <1>5, <3>3
    <3> QED
      BY <3>1, <3>2, <3>4
  <2>4. \A s, t \in trades : s.id = t.id => s = t
    BY DEF BookInv, Numbered
  <2>5. \A t \in trades' : t.id <= recorded'
    BY <1>1, <1>4, <1>5, <1>7, <2>1, <2>2
  <2>6. \A s, t \in trades' : s.id = t.id => s = t
    BY <1>5, <1>7, <2>1, <2>2, <2>3, <2>4
  <2> QED
    BY <2>5, <2>6 DEF Numbered
<1>12. \A s, t \in trades' : s.draft = t.draft /\ s.draft # NoDraft => s = t
  <2>1. \A t \in trades : t.draft \notin done
    BY <1>1 DEF AlreadyBooked
  <2>2. \A t \in new : t.draft \in done
    BY <1>6, <1>8 DEF done
  <2>3. \A s, t \in new : s.draft = t.draft => s = t
    <3> SUFFICES ASSUME NEW s \in new, NEW t \in new, s.draft = t.draft
                 PROVE  s = t
      OBVIOUS
    <3>1. PICK i \in 1..n : s = Booked(i, at)
      BY <1>8
    <3>2. PICK j \in 1..n : t = Booked(j, at)
      BY <1>8
    <3>3. rows[i] = rows[j]
      BY <1>3, <1>6, <3>1, <3>2 DEF ReadOnce
    <3> QED
      BY <1>4, <3>1, <3>2, <3>3
  <2> QED
    BY <1>7, <2>1, <2>2, <2>3 DEF BookInv, OneTradePerDraft
<1>13. \A d \in Drafts :
         /\ drafts'[d] \in DraftRows
         /\ d \notin done => drafts'[d] = drafts[d]
         /\ Existing(d) /\ d \in done => drafts'[d].status = "CONFIRMED"
  BY <1>1, <1>3 DEF BooksTypeOK, DraftRows, DraftStatuses
<1>14. drafts' \in [Drafts -> DraftRows]
  BY <1>1, <1>13
<1>15. OneTradePerDraft'
  <2> SUFFICES ASSUME edits = 0, NEW d \in Drafts
               PROVE  drafts'[d].status = "CONFIRMED" <=> \E t \in trades' : t.draft = d
    BY <1>1, <1>12 DEF OneTradePerDraft
  <2>1. drafts[d].status = "CONFIRMED" <=> \E t \in trades : t.draft = d
    BY DEF BookInv, OneTradePerDraft
  <2>2. CASE d \in done
    <3>1. PICK x \in read : x.draft = d
      BY <2>2 DEF done
    <3>2. PICK i \in 1..n : rows[i] = x
      BY <1>4
    <3>3. Booked(i, at) \in trades' /\ Booked(i, at).draft = d
      BY <1>6, <1>7, <1>9, <3>1, <3>2
    <3>4. drafts'[d].status = "CONFIRMED"
      BY <1>3, <1>13, <2>2, <3>1
    <3> QED
      BY <3>3, <3>4
  <2>3. CASE d \notin done
    <3>1. \A t \in new : t.draft # d
      BY <1>6, <1>8, <2>3 DEF done
    <3> QED
      BY <1>7, <1>13, <2>1, <2>3, <3>1
  <2> QED
    BY <2>2, <2>3
<1>16. \A d \in Drafts : Existing(d) => Existing(d)'
  BY <1>13 DEF Existing
<1>17. /\ request' \in [Clients -> Requests] /\ Readings'
       /\ \A b \in Clients : request'[b].at = "sell" => request'[b].quantity \in Sizes
  BY <1>1, <1>16, AnsweredKeeps
<1> QED
  BY <1>1, <1>3, <1>10, <1>11, <1>14, <1>15, <1>17 DEF BookInv, BooksTypeOK

-----------------------------------------------------------------------------
(* The theorem.                                                            *)

LEMMA BooksInit == DeskInit => BookInv
<1> SUFFICES ASSUME DeskInit PROVE BookInv
  OBVIOUS
<1>1. BooksTypeOK
  BY IdleTyped, DeskBounds, DraftsAssumption
  DEF DeskInit, BooksTypeOK, DraftRows, DraftStatuses
<1>2. Numbered /\ Readings /\ OneTradePerDraft
  BY IdleTyped DEF DeskInit, Numbered, Readings, OneTradePerDraft
<1> QED
  BY <1>1, <1>2 DEF BookInv

LEMMA BooksNext == BookInv /\ [DeskNext]_deskVars => BookInv'
<1> SUFFICES ASSUME BookInv, [DeskNext]_deskVars PROVE BookInv'
  OBVIOUS
<1>1. ASSUME NEW c \in Clients, Buy(c) \/ CheckSale(c) \/ Sell(c) PROVE BookInv'
  BY <1>1, BuyKeeps, CheckSaleKeeps, SellKeeps
<1>2. ASSUME NEW c \in Clients, UpdateTrade(c) \/ DeleteTrade(c) \/ ImportStatement(c)
      PROVE  BookInv'
  BY <1>2, UpdateKeeps, DeleteKeeps, ImportKeeps
<1>3. ASSUME NEW b \in Batches, UploadBatch(b) \/ \E c \in Clients : ReadBatch(c, b)
      PROVE  BookInv'
  BY <1>3, UploadKeeps, ReadKeeps
<1>4. ASSUME NEW c \in Clients, NEW d \in Drafts, EditDraft(c, d) \/ DeleteDraft(c, d)
      PROVE  BookInv'
  BY <1>4, EditDraftKeeps, DeleteDraftKeeps
<1>5. ASSUME NEW c \in Clients, WriteDraft(c) \/ Confirm(c) \/ ConfirmRaises(c) PROVE BookInv'
  BY <1>5, WriteDraftKeeps, ConfirmKeeps, RaisesKeeps
<1>6. CASE UNCHANGED deskVars
  BY <1>6, SameBooks, SameReadings DEF deskVars, BookInv, BooksTypeOK, Existing
<1> QED
  BY <1>1, <1>2, <1>3, <1>4, <1>5, <1>6 DEF DeskNext

(* confirm_import_batch, for any number of pages that confirm the same     *)
(* drafts at once, edit them, delete their trades and confirm them again:  *)
(* a draft becomes one trade at most, and says CONFIRMED just when it has, *)
(* as long as nothing is edited or deleted (OneTradePerDraft).             *)
THEOREM DraftsAreBookedOnce == DeskSpec => []OneTradePerDraft
<1>1. DeskSpec => []BookInv
  BY BooksInit, BooksNext, PTL DEF DeskSpec
<1>2. BookInv => OneTradePerDraft
  BY DEF BookInv
<1> QED
  BY <1>1, <1>2, PTL

-----------------------------------------------------------------------------
(* Finite sets, and the recursion over them by which a position is folded. *)

(* Of the subsets of a finite set, some are as small as any.               *)
LEMMA SmallestSubset ==
    ASSUME NEW T, IsFiniteSet(T), NEW F \in SUBSET (SUBSET T), F # {}
    PROVE  \E S \in F : \A U \in F : ~(U \subseteq S /\ U # S)
<1> DEFINE R == OpToRel(<, Nat)
           sizes == {Cardinality(S) : S \in F}
<1>1. \A S \in SUBSET T : IsFiniteSet(S) /\ Cardinality(S) \in Nat
  BY FS_Subset, FS_CardinalityType
<1>2. sizes \subseteq Nat /\ sizes # {}
  BY <1>1
<1>3. PICK n \in sizes : \A m \in sizes : ~(<<m, n>> \in R)
  <2>1. IsWellFoundedOn(R, Nat)
    BY NatLessThanWellFounded
  <2> HIDE DEF R, sizes
  <2> QED
    BY <1>2, <2>1, WFMin
<1>4. \A m \in sizes : ~(m < n)
  BY <1>2, <1>3 DEF OpToRel
<1>5. PICK S \in F : n = Cardinality(S)
  OBVIOUS
<1>6. ASSUME NEW U \in F, U \subseteq S, U # S PROVE FALSE
  <2>1. Cardinality(U) <= Cardinality(S) /\ (Cardinality(U) = Cardinality(S) => U = S)
    BY <1>1, <1>6, FS_Subset
  <2>2. ~(Cardinality(U) < Cardinality(S))
    BY <1>4, <1>5
  <2> QED
    BY <1>1, <1>6, <2>1, <2>2
<1> QED
  BY <1>6

(* What the recursion says of one set of trades.                           *)
OneStep(f, some) ==
    IF some = {} THEN NoPosition ELSE Moved(f[some \ {Newest(some)}], Newest(some))

Folding(ts) == CHOOSE f : f = [some \in SUBSET ts |-> OneStep(f, some)]

LEMMA FoldIsFolding ==
    ASSUME NEW ts
    PROVE  Fold(ts) = Folding(ts)[ts]
  BY DEF Fold, Folding, OneStep

-----------------------------------------------------------------------------
(* Trades in the order of their times. *)

(* Trades that can be put in order.                                        *)
Orderly(ts) ==
    /\ ts \subseteq Trades /\ IsFiniteSet(ts)
    /\ \A s, t \in ts : s.id = t.id => s = t

LEMMA PartOfOrderly == ASSUME NEW ts, Orderly(ts), NEW S \in SUBSET ts PROVE Orderly(S)
  BY FS_Subset DEF Orderly

LEMMA BeforeIsOrder ==
    ASSUME NEW ts, Orderly(ts)
    PROVE  /\ \A s \in ts : ~Before(s, s)
           /\ \A s, t \in ts : s # t => Before(s, t) \/ Before(t, s)
           /\ \A r, s, t \in ts : Before(r, s) /\ Before(s, t) => Before(r, t)
<1>1. \A t \in ts : t.at \in Int /\ t.id \in Int
  BY DeskBounds DEF Orderly, Trades, TextAfter
<1>2. \A s, t \in ts : s.id = t.id => s = t
  BY DEF Orderly
<1> QED
  BY <1>1, <1>2 DEF Before

LEMMA NewestIsThere ==
    ASSUME NEW ts, Orderly(ts), ts # {}
    PROVE  Newest(ts) \in ts /\ \A s \in ts \ {Newest(ts)} : Before(s, Newest(ts))
<1> DEFINE later(t) == {s \in ts : Before(t, s)}
           F == {later(t) : t \in ts}
<1>1. F \in SUBSET (SUBSET ts) /\ F # {} /\ IsFiniteSet(ts)
  <2>1. \A t \in ts : later(t) \in SUBSET ts
    OBVIOUS
  <2> HIDE DEF later
  <2> QED
    BY <2>1 DEF Orderly
<1>2. PICK S \in F : \A U \in F : ~(U \subseteq S /\ U # S)
  <2> HIDE DEF F
  <2> QED
    BY <1>1, SmallestSubset
<1>3. PICK t \in ts : S = later(t)
  OBVIOUS
<1>4. ASSUME NEW s \in later(t) PROVE FALSE
  <2>1. s \in ts /\ Before(t, s)
    OBVIOUS
  <2>2. later(s) \subseteq later(t)
    BY <2>1, BeforeIsOrder
  <2>3. s \notin later(s)
    BY <2>1, BeforeIsOrder
  <2> QED
    BY <1>2, <1>3, <1>4, <2>1, <2>2, <2>3
<1>5. \A s \in ts \ {t} : Before(s, t)
  BY <1>4, BeforeIsOrder
<1> QED
  BY <1>5 DEF Newest

(* The recursion reaches every set of trades, and gives it what Fold does. *)
WellFolded(ts) ==
    /\ Folding(ts) = [some \in SUBSET ts |-> OneStep(Folding(ts), some)]
    /\ \A some \in SUBSET ts : Folding(ts)[some] = Fold(some)

LEMMA FoldingIsUnique ==
    ASSUME NEW ts, Orderly(ts), NEW f, NEW g,
           f = [some \in SUBSET ts |-> OneStep(f, some)],
           g = [some \in SUBSET ts |-> OneStep(g, some)]
    PROVE  f = g
<1> SUFFICES ASSUME NEW U \in SUBSET ts, f[U] # g[U] PROVE FALSE
  <2>1. (\A some \in SUBSET ts : f[some] = g[some]) => f = g
    <3>1. ASSUME \A some \in SUBSET ts : f[some] = g[some] PROVE f = g
      <4>1. f = [some \in SUBSET ts |-> f[some]] /\ g = [some \in SUBSET ts |-> g[some]]
        OBVIOUS
      <4> QED
        BY <3>1, <4>1
    <3> QED
      BY <3>1
  <2> QED
    BY <2>1
<1> DEFINE F == {some \in SUBSET ts : f[some] # g[some]}
<1>1. F \in SUBSET (SUBSET ts) /\ F # {} /\ IsFiniteSet(ts)
  BY DEF Orderly
<1>2. PICK S \in F : \A V \in F : ~(V \subseteq S /\ V # S)
  <2> HIDE DEF F
  <2> QED
    BY <1>1, SmallestSubset
<1>3. f[S] = OneStep(f, S) /\ g[S] = OneStep(g, S)
  BY <1>2
<1>4. S # {}
  BY <1>2, <1>3 DEF OneStep
<1>5. Newest(S) \in S
  BY <1>4, PartOfOrderly, NewestIsThere
<1>6. f[S \ {Newest(S)}] = g[S \ {Newest(S)}]
  BY <1>2, <1>5
<1> QED
  BY <1>2, <1>3, <1>6 DEF OneStep

LEMMA FoldingWorks ==
    ASSUME NEW ts, Orderly(ts)
    PROVE  WellFolded(ts)
<1> DEFINE F == {some \in SUBSET ts : ~WellFolded(some)}
<1> SUFFICES ASSUME F # {} PROVE FALSE
  OBVIOUS
<1>1. F \in SUBSET (SUBSET ts) /\ IsFiniteSet(ts)
  BY DEF Orderly
<1>2. PICK S \in F : \A V \in F : ~(V \subseteq S /\ V # S)
  <2> HIDE DEF F
  <2> QED
    BY <1>1, SmallestSubset
<1>3. S \in SUBSET ts /\ ~WellFolded(S) /\ Orderly(S)
  BY <1>2, PartOfOrderly
<1>4. \A V \in SUBSET S : V # S => WellFolded(V)
  BY <1>2, <1>3
<1> HIDE DEF F
<1>5. \A V \in SUBSET S : V # {} => Newest(V) \in V
  BY <1>3, PartOfOrderly, NewestIsThere
(* By what is known of the smaller sets, Fold goes one step at a time.     *)
<1>6. ASSUME NEW V \in SUBSET S, V # S
      PROVE  Fold(V) = IF V = {} THEN NoPosition
                       ELSE Moved(Fold(V \ {Newest(V)}), Newest(V))
  <2>1. WellFolded(V)
    BY <1>4, <1>6
  <2>2. Fold(V) = Folding(V)[V]
    BY FoldIsFolding
  <2>3. Folding(V)[V] = OneStep(Folding(V), V)
    BY <2>1 DEF WellFolded
  <2>4. Folding(V)[V \ {Newest(V)}] = Fold(V \ {Newest(V)})
    BY <2>1 DEF WellFolded
  <2> QED
    BY <2>2, <2>3, <2>4 DEF OneStep
<1> DEFINE step(V) == IF V = {} THEN NoPosition
                      ELSE Moved(Fold(V \ {Newest(V)}), Newest(V))
           g == [some \in SUBSET S |-> step(some)]
<1>7. g = [some \in SUBSET S |-> OneStep(g, some)]
  <2>1. ASSUME NEW V \in SUBSET S PROVE step(V) = OneStep(g, V)
    <3>1. CASE V = {}
      BY <3>1 DEF OneStep
    <3>2. CASE V # {}
      <4>1. V \ {Newest(V)} \in SUBSET S /\ V \ {Newest(V)} # S
        BY <1>5, <3>2
      <4>2. g[V \ {Newest(V)}] = step(V \ {Newest(V)})
        BY <4>1
      <4>3. Fold(V \ {Newest(V)}) = step(V \ {Newest(V)})
        BY <1>6, <4>1
      <4> HIDE DEF g
      <4> QED
        BY <3>2, <4>2, <4>3 DEF OneStep
    <3> QED
      BY <3>1, <3>2
  <2> QED
    BY <2>1
<1> HIDE DEF g
<1>8. Folding(S) = [some \in SUBSET S |-> OneStep(Folding(S), some)]
  BY <1>7 DEF Folding
<1>9. Folding(S) = g
  BY <1>3, <1>7, <1>8, FoldingIsUnique
<1>10. ASSUME NEW V \in SUBSET S PROVE Folding(S)[V] = Fold(V)
  <2>1. CASE V = S
    BY <2>1, FoldIsFolding
  <2>2. CASE V # S
    BY <1>6, <1>9, <2>2 DEF g
  <2> QED
    BY <2>1, <2>2
<1> QED
  BY <1>3, <1>8, <1>10 DEF WellFolded

LEMMA FoldOfNone == Fold({}) = NoPosition
<1>1. Orderly({})
  BY FS_EmptySet DEF Orderly
<1>2. WellFolded({})
  BY <1>1, FoldingWorks
<1> QED
  BY <1>2, FoldIsFolding DEF WellFolded, OneStep

LEMMA FoldOfSome ==
    ASSUME NEW ts, Orderly(ts), ts # {}
    PROVE  Fold(ts) = Moved(Fold(ts \ {Newest(ts)}), Newest(ts))
<1>1. WellFolded(ts) /\ Fold(ts) = Folding(ts)[ts]
  BY FoldingWorks, FoldIsFolding
<1>2. Folding(ts)[ts] = OneStep(Folding(ts), ts)
  BY <1>1 DEF WellFolded
<1>3. Folding(ts)[ts \ {Newest(ts)}] = Fold(ts \ {Newest(ts)})
  BY <1>1 DEF WellFolded
<1> QED
  BY <1>1, <1>2, <1>3 DEF OneStep

(* The newest trade is the last that moves the position.                   *)
LEMMA FoldGoesOn ==
    ASSUME NEW ts, NEW t, Orderly(ts \cup {t}), t \notin ts, \A s \in ts : Before(s, t)
    PROVE  Fold(ts \cup {t}) = Moved(Fold(ts), t)
<1> DEFINE all == ts \cup {t}
<1>1. Newest(all) \in all /\ \A s \in all \ {Newest(all)} : Before(s, Newest(all))
  BY NewestIsThere
<1>2. Newest(all) = t
  <2>1. ASSUME Newest(all) # t PROVE FALSE
    <3>1. Before(t, Newest(all)) /\ Before(Newest(all), t)
      BY <1>1, <2>1
    <3> QED
      BY <1>1, <3>1, BeforeIsOrder
  <2> QED
    BY <2>1
<1>3. all \ {t} = ts
  OBVIOUS
<1> QED
  BY <1>2, <1>3, FoldOfSome

-----------------------------------------------------------------------------
(* Rows of positions. *)

Uncalibrated(row) == Calibrated \notin Range(row.basis)

(* What a trade leaves of a quantity.                                      *)
Held(quantity, t) ==
    IF t.direction = "BUY" THEN quantity + t.quantity ELSE Max({0, quantity - t.quantity})

LEMMA MaxOfTwo ==
    ASSUME NEW a \in Int, NEW b \in Int
    PROVE  Max({a, b}) = IF a >= b THEN a ELSE b
<1> DEFINE m == IF a >= b THEN a ELSE b
<1>1. m \in {a, b} /\ \A y \in {a, b} : m >= y
  OBVIOUS
<1>2. \A x \in {a, b} : (\A y \in {a, b} : x >= y) => x = m
  OBVIOUS
<1> HIDE DEF m
<1>3. Max({a, b}) = m
  BY <1>1, <1>2 DEF Max
<1> QED
  BY <1>3 DEF m

LEMMA HeldTyped ==
    ASSUME NEW t \in Trades, NEW q \in Nat
    PROVE  /\ Held(q, t) \in Nat
           /\ \A p \in Nat : p <= q => Held(p, t) <= Held(q, t)
<1>1. t.quantity \in Nat
  BY DeskBounds DEF Trades
<1>2. \A n \in Nat : Held(n, t) = IF t.direction = "BUY" THEN n + t.quantity
                                 ELSE IF 0 >= n - t.quantity THEN 0 ELSE n - t.quantity
  BY <1>1, MaxOfTwo DEF Held
<1> QED
  BY <1>1, <1>2

LEMMA NoPositionIsRow ==
    /\ NoPosition \in Rows /\ NoPosition.quantity = 0 /\ NoPosition.basis = <<>>
    /\ NoPosition.zg = 0 /\ Uncalibrated(NoPosition)
  BY DEF NoPosition, Rows, Uncalibrated, Range

(* The entry of a trade in what a cost was computed from.                  *)
Entry(t) == <<t.id, t.direction, t.quantity>>

LEMMA EntryTyped ==
    ASSUME NEW t \in Trades
    PROVE  Entry(t) \in Nat \X Directions \X Nat /\ Entry(t) # Calibrated
<1>1. MaxTrades \in Nat /\ Sizes \subseteq Nat
  BY DeskBounds
<1>2. t.id \in 1..MaxTrades /\ t.direction \in Directions /\ t.quantity \in Sizes
  BY DEF Trades
<1>3. t.id \in Nat /\ t.id # 0
  <2>1. \A i \in 1..MaxTrades : i \in Nat /\ i # 0
    BY <1>1
  <2> QED
    BY <1>2, <2>1
<1>4. t.quantity \in Nat
  BY <1>1, <1>2
<1> QED
  BY <1>2, <1>3, <1>4 DEF Entry, Calibrated

LEMMA RangeOfAppend ==
    ASSUME NEW S, NEW s \in Seq(S), NEW x
    PROVE  Range(Append(s, x)) = Range(s) \cup {x}
<1>1. DOMAIN s = 1..Len(s) /\ Len(s) \in Nat
  OBVIOUS
<1>2. /\ DOMAIN Append(s, x) = 1..(Len(s) + 1)
      /\ \A i \in 1..(Len(s) + 1) : Append(s, x)[i] = IF i = Len(s) + 1 THEN x ELSE s[i]
  BY <1>1
<1>3. 1..(Len(s) + 1) = 1..Len(s) \cup {Len(s) + 1}
  BY <1>1
<1>4. Len(s) + 1 \notin 1..Len(s)
  BY <1>1
<1> QED
  BY <1>1, <1>2, <1>3, <1>4 DEF Range

LEMMA MovedTyped ==
    ASSUME NEW row \in Rows, NEW t \in Trades
    PROVE  /\ Moved(row, t) \in Rows
           /\ Moved(row, t).quantity = Held(row.quantity, t)
           /\ Moved(row, t).quantity = 0 => Moved(row, t) = NoPosition
           /\ Moved(row, t).quantity # 0 =>
                 /\ Moved(row, t).basis = Append(row.basis, Entry(t))
                 /\ Uncalibrated(Moved(row, t)) <=> Uncalibrated(row)
<1> DEFINE held == Held(row.quantity, t)
<1>1. held \in Nat /\ row.quantity \in Nat
  BY HeldTyped DEF Rows
<1>2. Moved(row, t) = IF held = 0 THEN NoPosition
                      ELSE [row EXCEPT !.quantity = held, !.basis = Append(@, Entry(t))]
  BY DEF Moved, Held, Entry
<1>3. CASE held = 0
  BY <1>2, <1>3, NoPositionIsRow
<1>4. CASE held # 0
  <2> HIDE DEF held
  <2>1. row.basis \in Seq(Nat \X Directions \X Nat)
    BY DEF Rows
  <2>2. Append(row.basis, Entry(t)) \in Seq(Nat \X Directions \X Nat)
    BY <2>1, EntryTyped
  <2>3. /\ Moved(row, t) \in Rows /\ Moved(row, t).quantity = held
        /\ Moved(row, t).basis = Append(row.basis, Entry(t))
    BY <1>1, <1>2, <1>4, <2>2 DEF Rows
  <2>4. Range(Append(row.basis, Entry(t))) = Range(row.basis) \cup {Entry(t)}
    BY <2>1, RangeOfAppend
  <2> QED
    BY <1>4, <2>3, <2>4, EntryTyped DEF Uncalibrated, held
<1> QED
  BY <1>3, <1>4

(* What the trades give is a row like any other, and nobody's calibration. *)
FoldedWell(ts) ==
    /\ Fold(ts) \in Rows /\ Uncalibrated(Fold(ts))
    /\ Fold(ts).quantity = 0 => Fold(ts) = NoPosition

LEMMA FoldTyped == ASSUME NEW ts, Orderly(ts) PROVE FoldedWell(ts)
<1> DEFINE F == {some \in SUBSET ts : ~FoldedWell(some)}
<1> SUFFICES ASSUME F # {} PROVE FALSE
  OBVIOUS
<1>1. F \in SUBSET (SUBSET ts) /\ IsFiniteSet(ts)
  BY DEF Orderly
<1>2. PICK S \in F : \A V \in F : ~(V \subseteq S /\ V # S)
  <2> HIDE DEF F
  <2> QED
    BY <1>1, SmallestSubset
<1>3. S \in SUBSET ts /\ ~FoldedWell(S) /\ Orderly(S)
  BY <1>2, PartOfOrderly
<1>4. CASE S = {}
  BY <1>3, <1>4, FoldOfNone, NoPositionIsRow DEF FoldedWell
<1>5. CASE S # {}
  <2> DEFINE rest == S \ {Newest(S)}
  <2>1. Newest(S) \in S /\ Newest(S) \in Trades
    BY <1>3, <1>5, NewestIsThere DEF Orderly
  <2>2. FoldedWell(rest)
    BY <1>2, <1>3, <2>1
  <2>3. Fold(S) = Moved(Fold(rest), Newest(S))
    BY <1>3, <1>5, FoldOfSome
  <2> HIDE DEF rest
  <2>4. Fold(rest) \in Rows
    BY <2>2 DEF FoldedWell
  <2>5. /\ Fold(S) \in Rows
        /\ Fold(S).quantity = 0 => Fold(S) = NoPosition
        /\ Fold(S).quantity # 0 => Uncalibrated(Fold(S))
    BY <2>1, <2>2, <2>3, <2>4, MovedTyped DEF FoldedWell
  <2> QED
    BY <1>3, <2>5, NoPositionIsRow DEF FoldedWell
<1> QED
  BY <1>4, <1>5

-----------------------------------------------------------------------------
(* The row of positions and the trades. *)

(* The row is what the trades give; a row that was there without trades    *)
(* holds no less than they give.                                           *)
Follows(row, ts) ==
    /\ row \in Rows
    /\ row.quantity = 0 => row = NoPosition
    /\ Uncalibrated(row) =>
          row.quantity = Fold(ts).quantity /\ row.basis = Fold(ts).basis
    /\ row.quantity >= Fold(ts).quantity

LEMMA RecalculatedFollows ==
    ASSUME NEW ts, Orderly(ts), NEW row \in Rows
    PROVE  Follows(Recalculated(row, ts), ts)
<1>1. Fold(ts) \in Rows /\ (Fold(ts).quantity = 0 => Fold(ts) = NoPosition)
  BY FoldTyped DEF FoldedWell
<1>2. CASE Fold(ts).quantity = 0
  BY <1>1, <1>2, NoPositionIsRow DEF Follows, Recalculated
<1>3. CASE Fold(ts).quantity # 0
  <2>1. Recalculated(row, ts) =
            [row EXCEPT !.quantity = Fold(ts).quantity, !.basis = Fold(ts).basis]
    BY <1>3 DEF Recalculated
  <2>2. Fold(ts).quantity \in Nat /\ Fold(ts).basis \in Seq(Nat \X Directions \X Nat)
    BY <1>1 DEF Rows
  <2>3. /\ Recalculated(row, ts) \in Rows
        /\ Recalculated(row, ts).quantity = Fold(ts).quantity
        /\ Recalculated(row, ts).basis = Fold(ts).basis
    BY <2>1, <2>2 DEF Rows
  <2> QED
    BY <1>3, <2>2, <2>3 DEF Follows
<1> QED
  BY <1>2, <1>3

(* A line changes neither the quantity nor the cost.                       *)
LEMMA AppliedIsMoved ==
    ASSUME NEW row \in Rows, NEW t \in Trades, t.quantity # 0, NEW line \in Nat
    PROVE  /\ Applied(row, t, line) \in Rows
           /\ Applied(row, t, line).quantity = Moved(row, t).quantity
           /\ Applied(row, t, line).basis = Moved(row, t).basis
           /\ Moved(row, t).quantity = 0 => Applied(row, t, line) = NoPosition
<1> DEFINE moved == Moved(row, t)
<1>1. /\ moved \in Rows /\ moved.quantity = Held(row.quantity, t)
      /\ moved.quantity = 0 => moved = NoPosition
  BY MovedTyped
<1>2. t.direction = "BUY" => moved.quantity # 0
  <2>1. row.quantity \in Nat /\ t.quantity \in Nat
    BY DeskBounds DEF Rows, Trades
  <2> QED
    BY <1>1, <2>1 DEF Held
<1>3. Applied(row, t, line) = IF t.direction = "BUY" /\ moved.zg = 0
                              THEN [moved EXCEPT !.zg = line] ELSE moved
  BY DEF Applied
<1> HIDE DEF moved
<1>4. CASE t.direction = "BUY" /\ moved.zg = 0
  <2>1. Applied(row, t, line) = [moved EXCEPT !.zg = line]
    BY <1>3, <1>4
  <2>2. /\ Applied(row, t, line) \in Rows
        /\ Applied(row, t, line).quantity = moved.quantity
        /\ Applied(row, t, line).basis = moved.basis
    BY <1>1, <2>1 DEF Rows
  <2> QED
    BY <1>2, <1>4, <2>2 DEF moved
<1>5. CASE ~(t.direction = "BUY" /\ moved.zg = 0)
  BY <1>1, <1>3, <1>5 DEF moved
<1> QED
  BY <1>4, <1>5

LEMMA AppliedFollows ==
    ASSUME NEW ts, NEW t \in Trades, t.quantity # 0, Orderly(ts \cup {t}), t \notin ts,
           \A s \in ts : Before(s, t), NEW row, Follows(row, ts), NEW line \in Nat
    PROVE  Follows(Applied(row, t, line), ts \cup {t})
<1> DEFINE new == Applied(row, t, line)
           whole == Fold(ts \cup {t})
<1>1. whole = Moved(Fold(ts), t)
  BY FoldGoesOn
<1>2. Orderly(ts)
  BY PartOfOrderly
<1>3. Fold(ts) \in Rows /\ Uncalibrated(Fold(ts)) /\ row \in Rows
  BY <1>2, FoldTyped DEF FoldedWell, Follows
<1>4. /\ whole.quantity = Held(Fold(ts).quantity, t)
      /\ whole.quantity = 0 => whole = NoPosition
      /\ whole.quantity # 0 => whole.basis = Append(Fold(ts).basis, Entry(t))
  BY <1>1, <1>3, MovedTyped
<1>5. /\ new \in Rows /\ new.quantity = Held(row.quantity, t)
      /\ new.quantity = 0 => new = NoPosition
      /\ new.quantity # 0 => /\ new.basis = Append(row.basis, Entry(t))
                             /\ Uncalibrated(new) <=> Uncalibrated(row)
  <2> DEFINE moved == Moved(row, t)
  <2>1. /\ new \in Rows /\ new.quantity = moved.quantity /\ new.basis = moved.basis
        /\ moved.quantity = 0 => new = NoPosition
    BY <1>3, AppliedIsMoved
  <2>2. /\ moved.quantity = Held(row.quantity, t)
        /\ moved.quantity # 0 => /\ moved.basis = Append(row.basis, Entry(t))
                                 /\ Uncalibrated(moved) <=> Uncalibrated(row)
    BY <1>3, MovedTyped
  <2> HIDE DEF moved, new
  <2>3. Uncalibrated(new) <=> Uncalibrated(moved)
    BY <2>1 DEF Uncalibrated
  <2> QED
    BY <2>1, <2>2, <2>3
<1>6. /\ row.quantity \in Nat /\ Fold(ts).quantity \in Nat
      /\ row.quantity >= Fold(ts).quantity
  BY <1>3 DEF Follows, Rows
<1>7. /\ new.quantity \in Nat /\ whole.quantity \in Nat /\ new.quantity >= whole.quantity
  BY <1>4, <1>5, <1>6, HeldTyped
<1> HIDE DEF new, whole
<1>8. CASE new.quantity = 0
  <2>1. whole.quantity = 0
    BY <1>7, <1>8
  <2> QED
    BY <1>4, <1>5, <1>7, <1>8, <2>1 DEF Follows, new, whole
<1>9. CASE new.quantity # 0
  <2>1. ASSUME Uncalibrated(new)
        PROVE  new.quantity = whole.quantity /\ new.basis = whole.basis
    <3>1. row.quantity = Fold(ts).quantity /\ row.basis = Fold(ts).basis
      BY <1>5, <1>9, <2>1 DEF Follows
    <3> QED
      BY <1>4, <1>5, <1>9, <3>1
  <2> QED
    BY <1>5, <1>7, <1>9, <2>1 DEF Follows, new, whole
<1> QED
  BY <1>8, <1>9

-----------------------------------------------------------------------------
(* The steps keep the row of positions.                                    *)

Punctual == \A t \in trades : t.at <= recorded

PositionInv == Follows(position, trades) /\ Punctual

LEMMA TradesAreOrderly == ASSUME BookInv PROVE Orderly(trades)
<1> DEFINE f == [t \in trades |-> t.id]
<1>1. trades \subseteq Trades /\ \A s, t \in trades : s.id = t.id => s = t
  BY DEF BookInv, BooksTypeOK, Numbered
<1>2. f \in Injection(trades, 1..MaxTrades)
  <2>1. f \in [trades -> 1..MaxTrades]
    BY <1>1 DEF Trades
  <2> QED
    BY <1>1, <2>1 DEF Injection, IsInjective
<1>3. IsFiniteSet(1..MaxTrades)
  BY DeskBounds, FS_Interval
<1>4. IsFiniteSet(trades)
  BY <1>2, <1>3, FS_Injection
<1> QED
  BY <1>1, <1>4 DEF Orderly

LEMMA OrderlyNext == ASSUME BookInv' PROVE Orderly(trades')
<1> DEFINE f == [t \in trades' |-> t.id]
<1>1. trades' \subseteq Trades /\ \A s, t \in trades' : s.id = t.id => s = t
  BY DEF BookInv, BooksTypeOK, Numbered
<1>2. f \in Injection(trades', 1..MaxTrades)
  <2>1. f \in [trades' -> 1..MaxTrades]
    BY <1>1 DEF Trades
  <2> QED
    BY <1>1, <2>1 DEF Injection, IsInjective
<1>3. IsFiniteSet(1..MaxTrades)
  BY DeskBounds, FS_Interval
<1>4. IsFiniteSet(trades')
  BY <1>2, <1>3, FS_Injection
<1> QED
  BY <1>1, <1>4 DEF Orderly

(* A trade that is recorded now comes after all others.                    *)
LEMMA NewTradeMoves ==
    ASSUME BookInv, BookInv', PositionInv, NEW t \in Trades, NewTrade(t),
           t.id = recorded + 1, t.at = recorded + 1, NEW line \in Nat,
           position' = Applied(position, t, line)
    PROVE  PositionInv'
<1>1. /\ trades' = trades \cup {t} /\ recorded' = recorded + 1 /\ recorded \in Nat
      /\ trades \subseteq Trades
  BY DeskBounds DEF NewTrade, BookInv, BooksTypeOK
<1>2. \A s \in trades : s.id \in Int /\ s.id <= recorded /\ s.at \in Int /\ s.at <= recorded
  BY <1>1, DeskBounds DEF BookInv, Numbered, PositionInv, Punctual, Trades, TextAfter
<1>3. t \notin trades /\ \A s \in trades : Before(s, t)
  BY <1>1, <1>2 DEF Before
<1>4. Orderly(trades \cup {t})
  BY <1>1, OrderlyNext
<1>5. t.quantity # 0
  BY DeskBounds DEF Trades
<1>6. Follows(Applied(position, t, line), trades \cup {t})
  BY <1>3, <1>4, <1>5, AppliedFollows DEF PositionInv
<1>7. Punctual'
  BY <1>1, <1>2 DEF Punctual
<1> QED
  BY <1>1, <1>6, <1>7 DEF PositionInv

LEMMA SamePosition ==
    ASSUME PositionInv, UNCHANGED <<trades, recorded, position>>
    PROVE  PositionInv'
  BY DEF PositionInv, Punctual

(* The row is computed again from the trades of now.                       *)
LEMMA AgainFollows ==
    ASSUME BookInv', PositionInv, position' = Recalculated(position, trades'), Punctual'
    PROVE  PositionInv'
<1>1. Orderly(trades')
  BY OrderlyNext
<1>2. position \in Rows
  BY DEF PositionInv, Follows
<1> QED
  BY <1>1, <1>2, RecalculatedFollows DEF PositionInv

LEMMA BuyMoves ==
    ASSUME BookInv, BookInv', PositionInv, ~OutOfOrder, NEW c \in Clients, Buy(c)
    PROVE  PositionInv'
<1>1. PICK q \in Sizes, at \in Times, line \in Lines \cup {0} :
         /\ NewTrade(ByHand(at, "BUY", q))
         /\ position' = Applied(position, ByHand(at, "BUY", q), line)
  BY DEF Buy
<1>2. at = recorded + 1 /\ line \in Nat
  BY DeskBounds DEF Times
<1>3. BooksTypeOK /\ recorded < MaxTrades
  BY <1>1 DEF BookInv, NewTrade
<1>4. /\ ByHand(at, "BUY", q) \in Trades /\ ByHand(at, "BUY", q).id = recorded + 1
      /\ ByHand(at, "BUY", q).at = recorded + 1
  BY <1>2, <1>3, TimesTyped, ByHandTyped DEF Directions, ByHand
<1> QED
  BY <1>1, <1>2, <1>4, NewTradeMoves

LEMMA SellMoves ==
    ASSUME BookInv, BookInv', PositionInv, ~OutOfOrder, NEW c \in Clients, Sell(c)
    PROVE  PositionInv'
<1> DEFINE q == request[c].quantity
<1>1. PICK at \in Times :
         /\ NewTrade(ByHand(at, "SELL", q))
         /\ position' = Applied(position, ByHand(at, "SELL", q), 0)
  BY DEF Sell
<1>2. at = recorded + 1 /\ 0 \in Nat
  BY DEF Times
<1>3. BooksTypeOK /\ recorded < MaxTrades /\ q \in Sizes
  BY <1>1 DEF BookInv, BooksTypeOK, NewTrade, Sell
<1> HIDE DEF q
<1>4. /\ ByHand(at, "SELL", q) \in Trades /\ ByHand(at, "SELL", q).id = recorded + 1
      /\ ByHand(at, "SELL", q).at = recorded + 1
  BY <1>2, <1>3, TimesTyped, ByHandTyped DEF Directions, ByHand
<1> QED
  BY <1>1, <1>2, <1>4, NewTradeMoves DEF q

LEMMA EditMoves ==
    ASSUME BookInv, BookInv', PositionInv, ~OutOfOrder, NEW c \in Clients,
           UpdateTrade(c) \/ DeleteTrade(c)
    PROVE  PositionInv'
<1>1. CASE UpdateTrade(c)
  <2>1. PICK t \in trades, q \in Sizes, direction \in Directions : \E at \in {t.at} :
           LET new == [t EXCEPT !.quantity = q, !.direction = direction, !.at = at]
           IN  trades' = (trades \ {t}) \cup {new}
    BY <1>1 DEF UpdateTrade
  <2>2. /\ UNCHANGED recorded /\ position' = Recalculated(position, trades')
        /\ trades \subseteq Trades
    BY <1>1 DEF UpdateTrade, BookInv, BooksTypeOK
  <2> DEFINE new == [t EXCEPT !.quantity = q, !.direction = direction, !.at = t.at]
  <2>3. trades' = (trades \ {t}) \cup {new}
    BY <2>1
  <2>4. new.at = t.at
    BY <2>2 DEF Trades
  <2> HIDE DEF new
  <2>5. Punctual'
    BY <2>2, <2>3, <2>4 DEF PositionInv, Punctual
  <2> QED
    BY <2>2, <2>5, AgainFollows
<1>2. CASE DeleteTrade(c)
  <2>1. /\ UNCHANGED recorded /\ position' = Recalculated(position, trades')
        /\ trades' \subseteq trades
    BY <1>2 DEF DeleteTrade
  <2>2. Punctual'
    BY <2>1 DEF PositionInv, Punctual
  <2> QED
    BY <2>1, <2>2, AgainFollows
<1> QED
  BY <1>1, <1>2

LEMMA ConfirmMoves ==
    ASSUME BookInv, BookInv', PositionInv, ~OutOfOrder, NEW c \in Clients, Confirm(c)
    PROVE  PositionInv'
<1> DEFINE read == request[c].read
           rows == SetToSeq(read)
           n == Len(rows)
           Booked(i, at) ==
              [ id |-> recorded + i, at |-> at, direction |-> rows[i].direction,
                quantity |-> rows[i].quantity, draft |-> rows[i].draft, acked |-> rows[i].ack ]
<1>1. /\ recorded' = recorded + n /\ position' = Recalculated(position, trades')
      /\ request[c].at = "confirm"
  BY DEF Confirm
<1>2. PICK at \in Times : trades' = trades \cup {Booked(i, at) : i \in DOMAIN rows}
  BY DEF Confirm
<1>3. at = recorded + 1 /\ recorded \in Nat /\ trades \subseteq Trades
  BY DeskBounds DEF Times, BookInv, BooksTypeOK
<1>4. n \in Nat /\ DOMAIN rows = 1..n
  <2>1. IsFiniteSet(read)
    BY <1>1 DEF BookInv, Readings, ReadWell, ReadOnce
  <2>2. /\ Cardinality(read) \in Nat /\ rows \in [1..Cardinality(read) -> read]
    BY <2>1, SetToSeqBijective
  <2> HIDE DEF rows
  <2> QED
    BY <2>2, LenOfFunction
<1>5. ASSUME NEW t \in trades' PROVE t.at <= recorded'
  <2>1. CASE t \in trades
    <3>1. t.at <= recorded /\ t.at \in Int
      BY <1>3, <2>1, DeskBounds DEF PositionInv, Punctual, Trades, TextAfter
    <3> HIDE DEF n
    <3> QED
      BY <1>1, <1>3, <1>4, <3>1
  <2>2. CASE t \notin trades
    <3>1. PICK i \in DOMAIN rows : t = Booked(i, at)
      BY <1>2, <2>2
    <3>2. t.at = at
      BY <3>1
    <3> HIDE DEF n, rows, Booked
    <3>3. n >= 1
      BY <1>4, <3>1
    <3> QED
      BY <1>1, <1>3, <1>4, <3>2, <3>3
  <2> QED
    BY <2>1, <2>2
<1>6. Punctual'
  BY <1>5 DEF Punctual
<1> QED
  BY <1>1, <1>6, AgainFollows

LEMMA DeskMoves ==
    ASSUME BookInv, BookInv', PositionInv, ~OutOfOrder, ~Statements, [DeskNext]_deskVars
    PROVE  PositionInv'
<1>1. ASSUME NEW c \in Clients, Buy(c) \/ Sell(c) PROVE PositionInv'
  BY <1>1, BuyMoves, SellMoves
<1>2. ASSUME NEW c \in Clients, CheckSale(c) \/ ConfirmRaises(c) PROVE PositionInv'
  BY <1>2, SamePosition DEF CheckSale, ConfirmRaises
<1>3. ASSUME NEW c \in Clients, UpdateTrade(c) \/ DeleteTrade(c) PROVE PositionInv'
  BY <1>3, EditMoves
<1>4. ASSUME NEW c \in Clients, ImportStatement(c) PROVE PositionInv'
  BY <1>4 DEF ImportStatement
<1>5. ASSUME NEW b \in Batches, UploadBatch(b) \/ \E c \in Clients : ReadBatch(c, b)
      PROVE  PositionInv'
  BY <1>5, SamePosition DEF UploadBatch, ReadBatch
<1>6. ASSUME NEW c \in Clients, (\E d \in Drafts : EditDraft(c, d) \/ DeleteDraft(c, d)) \/ WriteDraft(c)
      PROVE  PositionInv'
  BY <1>6, SamePosition DEF EditDraft, DeleteDraft, WriteDraft
<1>7. ASSUME NEW c \in Clients, Confirm(c) PROVE PositionInv'
  BY <1>7, ConfirmMoves
<1>8. CASE UNCHANGED deskVars
  BY <1>8, SamePosition DEF deskVars
<1> QED
  BY <1>1, <1>2, <1>3, <1>4, <1>5, <1>6, <1>7, <1>8 DEF DeskNext

LEMMA PositionInit == ASSUME DeskInit PROVE PositionInv
<1>1. /\ trades = {} /\ position \in {NoPosition} \cup OldRows /\ Punctual
  BY DEF DeskInit, Punctual
<1>2. Fold(trades) = NoPosition
  BY <1>1, FoldOfNone
<1>3. CASE position = NoPosition
  BY <1>1, <1>2, <1>3, NoPositionIsRow DEF PositionInv, Follows
<1>4. CASE position \in OldRows
  <2>1. position \in Rows /\ position.quantity > 0 /\ Calibrated \in Range(position.basis)
    BY <1>4, OldRowsAssumption
  <2>2. position.quantity \in Nat
    BY <2>1 DEF Rows
  <2> QED
    BY <1>1, <1>2, <2>1, <2>2, NoPositionIsRow DEF PositionInv, Follows, Uncalibrated
<1> QED
  BY <1>1, <1>3, <1>4

LEMMA DeskHolds == ASSUME BookInv, PositionInv PROVE DeskTypeOK /\ PositionIsFold
<1>1. DeskTypeOK
  BY DEF DeskTypeOK, BookInv, BooksTypeOK, Numbered, PositionInv, Follows
<1>2. PositionIsFold
  BY DEF PositionIsFold, PositionInv, Follows, Uncalibrated
<1> QED
  BY <1>1, <1>2

-----------------------------------------------------------------------------
(* The alerts.                                                             *)

(* What a round is about to send is recorded and was not sent yet; before  *)
(* it has recorded anything it has nothing to send.                        *)
AlertInv ==
    /\ AlertTypeOK /\ PushedOnceADay
    /\ \A a \in monitor.messages : a \in alerts /\ pushed[a] = 0
    /\ monitor.at \in {"idle", "prices", "update"} => monitor.messages = {}

LEMMA MonitorIsARound ==
    ASSUME AlertTypeOK
    PROVE  /\ monitor.at \in {"idle", "prices", "update", "scan", "push"}
           /\ monitor.row \in Rows /\ monitor.price \in Prices \cup {NoPrice}
           /\ monitor.messages \subseteq Alerts
           /\ monitor =
                 [ at |-> monitor.at, row |-> monitor.row, price |-> monitor.price,
                   messages |-> monitor.messages ]
  BY DEF AlertTypeOK, Rounds

LEMMA AsleepIsARound ==
    Asleep \in Rounds /\ Asleep.at = "idle" /\ Asleep.messages = {}
  BY NoPositionIsRow DEF Asleep, Rounds

LEMMA EvaluatedTypes == ASSUME NEW row, NEW p PROVE Evaluate(row, p) \subseteq AlertTypes
  BY DEF Evaluate, AlertTypes

LEMMA AlertsStart == ASSUME AlertInit PROVE AlertInv
<1>1. AlertTypeOK
  BY AlertBounds, AsleepIsARound DEF AlertInit, AlertTypeOK
<1>2. PushedOnceADay
  BY DEF AlertInit, PushedOnceADay
<1> QED
  BY <1>1, <1>2, AsleepIsARound DEF AlertInit, AlertInv

(* A step that neither records nor sends: what there is to send is as      *)
(* before.                                                                 *)
LEMMA MessagesStay ==
    ASSUME AlertInv, UNCHANGED <<alerts, pushed, unsent>>, AlertTypeOK',
           monitor'.messages = monitor.messages,
           monitor'.at \in {"idle", "prices", "update"} =>
              monitor.at \in {"idle", "prices", "update"}
    PROVE  AlertInv'
<1>1. PushedOnceADay'
  BY DEF AlertInv, PushedOnceADay
<1> QED
  BY <1>1 DEF AlertInv

LEMMA ReadsAlerts ==
    ASSUME AlertInv, position \in Rows,
           ReadPositions \/ GetBatchPrices \/ ScanReminders \/ PriceMoves \/ Midnight
    PROVE  AlertInv'
<1>1. AlertTypeOK /\ MaxDay \in Nat /\ MaxMoves \in Nat
  BY AlertBounds DEF AlertInv
<1>2. CASE ReadPositions
  <2>1. monitor' = [ at |-> "prices", row |-> position, price |-> monitor.price,
                     messages |-> monitor.messages ]
    BY <1>1, <1>2, MonitorIsARound DEF ReadPositions
  <2>2. monitor' \in Rounds /\ monitor'.messages = monitor.messages /\ monitor.at = "idle"
    BY <1>1, <1>2, <2>1, MonitorIsARound DEF Rounds, ReadPositions, Round
  <2>3. AlertTypeOK'
    BY <1>1, <1>2, <2>2 DEF AlertTypeOK, ReadPositions
  <2> QED
    BY <1>2, <2>2, <2>3, MessagesStay DEF ReadPositions
<1>3. CASE GetBatchPrices
  <2>1. monitor' = [ at |-> "update", row |-> monitor.row, price |-> price,
                     messages |-> monitor.messages ]
    BY <1>1, <1>3, MonitorIsARound DEF GetBatchPrices
  <2>2. monitor' \in Rounds /\ monitor'.messages = monitor.messages /\ monitor.at = "prices"
    BY <1>1, <1>3, <2>1, MonitorIsARound DEF Rounds, GetBatchPrices, Round, AlertTypeOK
  <2>3. AlertTypeOK'
    BY <1>1, <1>3, <2>2 DEF AlertTypeOK, GetBatchPrices
  <2> QED
    BY <1>3, <2>2, <2>3, MessagesStay DEF GetBatchPrices
<1>4. CASE ScanReminders
  <2>1. monitor' = [ at |-> "push", row |-> monitor.row, price |-> monitor.price,
                     messages |-> monitor.messages ]
    BY <1>1, <1>4, MonitorIsARound DEF ScanReminders
  <2>2. monitor' \in Rounds /\ monitor'.messages = monitor.messages /\ monitor'.at = "push"
    BY <1>1, <2>1, MonitorIsARound DEF Rounds
  <2>3. AlertTypeOK'
    BY <1>1, <1>4, <2>2 DEF AlertTypeOK, ScanReminders
  <2> QED
    BY <1>4, <2>2, <2>3, MessagesStay DEF ScanReminders
<1>5. CASE PriceMoves
  <2>1. AlertTypeOK'
    BY <1>1, <1>5 DEF AlertTypeOK, PriceMoves
  <2> QED
    BY <1>5, <2>1, MessagesStay DEF PriceMoves
<1>6. CASE Midnight
  <2>1. AlertTypeOK'
    BY <1>1, <1>6 DEF AlertTypeOK, Midnight
  <2> QED
    BY <1>6, <2>1, MessagesStay DEF Midnight
<1> QED
  BY <1>2, <1>3, <1>4, <1>5, <1>6

LEMMA RecordsAlerts == ASSUME AlertInv, UpdateAndAlert PROVE AlertInv'
<1> DEFINE new == NewAlerts(Evaluate(monitor.row, monitor.price))
<1>1. /\ AlertTypeOK /\ MaxFaults \in Nat /\ monitor.at = "update" /\ monitor.messages = {}
      /\ UNCHANGED <<day, price, pushed, moves>>
  BY AlertBounds DEF AlertInv, UpdateAndAlert, Round
<1>2. new \subseteq Alerts /\ new \cap alerts = {}
  <2>1. Evaluate(monitor.row, monitor.price) \subseteq AlertTypes /\ day \in 1..MaxDay
    BY <1>1, EvaluatedTypes DEF AlertTypeOK
  <2> QED
    BY <2>1 DEF NewAlerts, Alerts
<1> DEFINE all == /\ alerts' = alerts \cup new
                  /\ monitor' = [monitor EXCEPT !.at = "scan", !.messages = new]
                  /\ UNCHANGED <<unsent, faults>>
<1>3. \/ all
      \/ \E lost \in new :
            /\ Fault
            /\ monitor' = [monitor EXCEPT !.at = "scan", !.messages = new \ {lost}]
            /\ \/ alerts' = alerts \cup (new \ {lost}) /\ UNCHANGED unsent
               \/ alerts' = alerts \cup new /\ unsent' = unsent \cup {lost}
  BY DEF UpdateAndAlert
<1> HIDE DEF new
(* Whichever of them: what is to be sent is new, and what is new is to be  *)
(* sent or kept from it.                                                   *)
<1> DEFINE goes(sent) ==
              /\ monitor' = [monitor EXCEPT !.at = "scan", !.messages = sent]
              /\ alerts' \subseteq alerts \cup new /\ alerts \cup sent \subseteq alerts'
              /\ unsent \subseteq unsent' /\ unsent' \subseteq unsent \cup new
              /\ alerts' \subseteq alerts \cup sent \cup unsent'
              /\ faults' \in 0..MaxFaults
<1>4. PICK sent \in SUBSET new : goes(sent)
  <2>1. CASE all
    <3>1. goes(new)
      BY <1>1, <2>1 DEF AlertTypeOK
    <3> QED
      BY <3>1
  <2>2. ASSUME NEW lost \in new, Fault,
               monitor' = [monitor EXCEPT !.at = "scan", !.messages = new \ {lost}],
               \/ alerts' = alerts \cup (new \ {lost}) /\ UNCHANGED unsent
               \/ alerts' = alerts \cup new /\ unsent' = unsent \cup {lost}
        PROVE  \E sent \in SUBSET new : goes(sent)
    <3>1. faults' \in 0..MaxFaults
      BY <1>1, <2>2 DEF Fault, AlertTypeOK
    <3>2. goes(new \ {lost})
      BY <2>2, <3>1
    <3>3. new \ {lost} \in SUBSET new
      OBVIOUS
    <3> HIDE DEF goes
    <3> QED
      BY <3>2, <3>3
  <2> QED
    BY <1>3, <2>1, <2>2
<1>5. monitor' = [ at |-> "scan", row |-> monitor.row, price |-> monitor.price,
                   messages |-> sent ]
  BY <1>1, <1>4, MonitorIsARound
<1>6. monitor' \in Rounds /\ monitor'.messages = sent /\ monitor'.at = "scan"
  BY <1>1, <1>2, <1>5, MonitorIsARound DEF Rounds
<1>7. AlertTypeOK'
  BY <1>1, <1>2, <1>4, <1>6 DEF AlertTypeOK
<1>8. \A a \in new : pushed[a] = 0
  <2>1. \A a \in Alerts : pushed[a] \in Nat
    BY <1>1 DEF AlertTypeOK
  <2> QED
    BY <1>2, <2>1 DEF AlertInv, PushedOnceADay
<1>9. PushedOnceADay'
  BY <1>1, <1>2, <1>4, <1>6 DEF AlertInv, PushedOnceADay
<1> QED
  BY <1>1, <1>4, <1>6, <1>7, <1>8, <1>9 DEF AlertInv

LEMMA SendsAlerts == ASSUME AlertInv, Send PROVE AlertInv'
<1>1. /\ AlertTypeOK /\ monitor' = Asleep
      /\ pushed' = [a \in Alerts |-> IF a \in monitor.messages THEN pushed[a] + 1 ELSE pushed[a]]
      /\ UNCHANGED <<day, price, alerts, unsent, moves, faults>>
  BY DEF AlertInv, Send
<1>2. \A a \in Alerts : pushed[a] \in Nat
  BY <1>1 DEF AlertTypeOK
<1>3. pushed' \in [Alerts -> Nat]
  BY <1>1, <1>2
<1>4. AlertTypeOK'
  BY <1>1, <1>3, AsleepIsARound DEF AlertTypeOK
<1>5. PushedOnceADay'
  BY <1>1, <1>2, AsleepIsARound DEF AlertInv, PushedOnceADay
<1> QED
  BY <1>1, <1>4, <1>5, AsleepIsARound DEF AlertInv

LEMMA ForgetsAlerts == ASSUME AlertInv, NoPrices \/ RoundFails PROVE AlertInv'
<1>1. /\ AlertTypeOK /\ MaxFaults \in Nat /\ monitor' = Asleep /\ Fault
      /\ UNCHANGED <<day, price, alerts, pushed, moves>>
      /\ unsent' = unsent \cup monitor.messages
  BY AlertBounds DEF AlertInv, NoPrices, RoundFails, Round
<1>2. monitor.messages \subseteq Alerts
  BY <1>1, MonitorIsARound
<1>3. AlertTypeOK'
  BY <1>1, <1>2, AsleepIsARound DEF AlertTypeOK, Fault
<1>4. PushedOnceADay'
  BY <1>1 DEF AlertInv, PushedOnceADay
<1> QED
  BY <1>1, <1>3, <1>4, AsleepIsARound DEF AlertInv

LEMMA AlertsNext ==
    ASSUME AlertInv, position \in Rows, AlertNext \/ UNCHANGED alertVars
    PROVE  AlertInv'
<1>1. CASE UNCHANGED alertVars
  BY <1>1, MessagesStay DEF alertVars, AlertInv, AlertTypeOK
<1> QED
  BY <1>1, ReadsAlerts, RecordsAlerts, SendsAlerts, ForgetsAlerts DEF AlertNext, MonitorStep

-----------------------------------------------------------------------------
(* The theorem.                                                            *)

(* The pages of one lane and the page and the monitor of the other.        *)
LEMMA DeskGoesOn ==
    ASSUME "page" \in Clients, ~OutOfOrder, ~Statements,
           BookInv, PositionInv, AlertInv, [MCNext]_vars
    PROVE  BookInv' /\ PositionInv' /\ AlertInv'
<1>1. /\ [DeskNext]_deskVars
      /\ AlertNext \/ UNCHANGED alertVars
  BY DEF MCNext, Books, Trading, Monitoring, DeskNext, AlertNext, vars
<1>2. position \in Rows
  BY DEF PositionInv, Follows
<1>3. BookInv'
  BY <1>1, BooksNext
<1> QED
  BY <1>1, <1>2, <1>3, DeskMoves, AlertsNext

(* Trades as they are recorded (the time of a trade is the time it is      *)
(* recorded at, and no statement is imported): the row of positions is     *)
(* what all trades give, whether create_trade has moved it by one of them  *)
(* or recalculate_position has computed it again, and an alert is pushed   *)
(* once a day at most and only when its row is there (DeskSound).          *)
THEOREM DeskIsSound ==
    ASSUME "page" \in Clients, ~OutOfOrder, ~Statements
    PROVE  FairDeskSpec => []DeskSound
<1>1. MCInit => BookInv /\ PositionInv /\ AlertInv
  BY BooksInit, PositionInit, AlertsStart DEF MCInit
<1>2. BookInv /\ PositionInv /\ AlertInv /\ [MCNext]_vars
         => BookInv' /\ PositionInv' /\ AlertInv'
  BY DeskGoesOn
<1>3. BookInv /\ PositionInv /\ AlertInv => DeskSound
  BY DeskHolds DEF DeskSound, AlertInv
<1> QED
  BY <1>1, <1>2, <1>3, PTL DEF FairDeskSpec
=============================================================================
