-------------------------------- MODULE Desk --------------------------------
(***************************************************************************)
(* The trades of one user in one symbol, and the position that is computed *)
(* from them.                                                              *)
(*   - a page records a trade, and the position row is moved by it         *)
(*     (apply_trade_to_position);                                          *)
(*   - a page edits or deletes a trade, imports a statement of the broker  *)
(*     or confirms the drafts read from a screenshot, and the row is       *)
(*     computed again from all trades (recalculate_position).              *)
(* Every request reads on a connection of its own, and its writes are one  *)
(* transaction that begins with the first of them: what it has read before *)
(* may be old by then.  Quantities are in lots.  A cost is what it was     *)
(* computed from: two rows of equal basis have equal cost.                 *)
(***************************************************************************)
EXTENDS Integers, FiniteSets, Sequences, SequencesExt, FiniteSetsExt

CONSTANTS
    Clients,        \* the pages that record and edit trades
    Drafts,         \* the rows of the screenshots
    BatchOf,        \* draft -> its batch
    TwinOf,         \* draft -> the drafts with its fingerprint
    RowOf,          \* draft -> the direction and the quantity that was read
    Sizes,          \* the quantities of a trade
    Lines,          \* the lower edges of a five minute pivot that a buy may name
    OldRows,        \* the position rows without trades an older database may hold
    OutOfOrder,     \* a trade may be given an earlier time than it is recorded
    Statements,     \* the broker's statements are imported
    MaxTrades,      \* bound: how many trades are recorded
    MaxEdits        \* bound: how often a trade or a draft is edited or deleted

ASSUME DeskBounds ==
    /\ {MaxTrades, MaxEdits} \subseteq Nat
    /\ Sizes \subseteq Nat \ {0} /\ Lines \subseteq Nat \ {0}

VARIABLES
    trades,         \* the table trades
    recorded,       \* the last trade id, which is also the clock
    position,       \* the row of positions, NoPosition without one
    drafts,         \* trade_import_drafts
    request,        \* what each client has read and not yet written
    edits           \* history: see MaxEdits

deskVars == <<trades, recorded, position, drafts, request, edits>>

Batches == {BatchOf[d] : d \in Drafts}
Directions == {"BUY", "SELL"}

(* In a statement a day is written 20260506 or 2026/05/06, elsewhere it is *)
(* 2026-05-06T15:00:00: as text, all days of a year's statements come      *)
(* after all others of that year.                                          *)
TextAfter == MaxTrades + 1

NoDraft == "no draft"

ASSUME DraftsAssumption ==
    /\ IsFiniteSet(Drafts) /\ NoDraft \notin Drafts
    /\ RowOf \in [Drafts -> [direction : Directions, quantity : Sizes]]

Trades ==
    [ id : 1..MaxTrades, at : 0..(MaxTrades + TextAfter), direction : Directions,
      quantity : Sizes, draft : Drafts \cup {NoDraft}, acked : BOOLEAN ]
Rows == [ quantity : Nat, basis : Seq(Nat \X Directions \X Nat), zg : Nat, stop : Nat,
          trailing : Nat ]
NoPosition == [quantity |-> 0, basis |-> <<>>, zg |-> 0, stop |-> 0, trailing |-> 0]
Calibrated == <<0, "BUY", 0>>

ASSUME OldRowsAssumption ==
    \A row \in OldRows : row \in Rows /\ row.quantity > 0 /\ Calibrated \in Range(row.basis)

DraftStatuses == {"NONE", "DRAFT", "BLOCKED", "POSSIBLE_DUPLICATE", "CONFIRMED", "DELETED"}
DraftRows ==
    [ status : DraftStatuses, sound : BOOLEAN, duplicate : BOOLEAN, ack : BOOLEAN,
      direction : Directions, quantity : Sizes ]
Bookings == [draft : Drafts, direction : Directions, quantity : Sizes, ack : BOOLEAN]
Patches == [draft : Drafts, row : DraftRows]
Requests ==
    [ at : {"idle", "sell", "confirm", "patch"}, quantity : Sizes \cup {0},
      read : SUBSET Bookings, patch : SUBSET Patches ]
Idle == [at |-> "idle", quantity |-> 0, read |-> {}, patch |-> {}]

DeskTypeOK ==
    /\ trades \subseteq Trades
    /\ \A s, t \in trades : s.id = t.id => s = t
    /\ recorded \in 0..MaxTrades
    /\ position \in Rows
    /\ position.quantity = 0 => position = NoPosition
    /\ drafts \in [Drafts -> DraftRows]
    /\ request \in [Clients -> Requests]
    /\ edits \in 0..MaxEdits

DeskInit ==
    /\ trades = {}
    /\ recorded = 0
    /\ position \in {NoPosition} \cup OldRows
    /\ drafts = [d \in Drafts |->
                   [ status |-> "NONE", sound |-> TRUE, duplicate |-> FALSE, ack |-> FALSE,
                     direction |-> RowOf[d].direction, quantity |-> RowOf[d].quantity ]]
    /\ request = [c \in Clients |-> Idle]
    /\ edits = 0

-----------------------------------------------------------------------------
(* The position of a sequence of trades.                                   *)

(* A sale takes no more than there is and leaves the average alone; when   *)
(* nothing is left, the cost is forgotten.                                 *)
Moved(row, t) ==
    LET held == IF t.direction = "BUY" THEN row.quantity + t.quantity
                                       ELSE Max({0, row.quantity - t.quantity}) IN
    IF held = 0
    THEN NoPosition
    ELSE [row EXCEPT !.quantity = held,
                     !.basis = Append(@, <<t.id, t.direction, t.quantity>>)]

(* ORDER BY traded_at; what comes of equal times is the order of the rows. *)
Before(s, t) == s.at < t.at \/ (s.at = t.at /\ s.id < t.id)
Newest(ts) == CHOOSE t \in ts : \A s \in ts \ {t} : Before(s, t)

(* All trades, from the oldest to the newest.                              *)
Fold(ts) ==
    LET row[some \in SUBSET ts] ==
          IF some = {} THEN NoPosition ELSE Moved(row[some \ {Newest(some)}], Newest(some))
    IN  row[ts]

(* Mutant: the row of a position that is gone keeps its lines.             *)
RecalculatedKept(row, ts) ==
    LET whole == Fold(ts) IN
    [row EXCEPT !.quantity = whole.quantity, !.basis = whole.basis]

(* The upsert sets the quantity and the cost; the lines stay as they are,  *)
(* and a row that is made again has none.                                  *)
Recalculated(row, ts) ==
    LET whole == Fold(ts) IN
    IF whole.quantity = 0
    THEN NoPosition
    ELSE [row EXCEPT !.quantity = whole.quantity, !.basis = whole.basis]

(* create_trade after a sale or a purchase: apply_trade_to_position, and   *)
(* for a purchase persist_entry_thesis, which keeps an edge that is set.   *)
Applied(row, t, line) ==
    LET moved == Moved(row, t) IN
    IF t.direction = "BUY" /\ moved.zg = 0 THEN [moved EXCEPT !.zg = line] ELSE moved

-----------------------------------------------------------------------------
(* Trades by hand.                                                         *)

Times == IF OutOfOrder THEN 0..(recorded + 1) ELSE {recorded + 1}

NewTrade(t) ==
    /\ recorded < MaxTrades
    /\ recorded' = recorded + 1
    /\ trades' = trades \cup {t}

ByHand(at, direction, q) ==
    [ id |-> recorded + 1, at |-> at, direction |-> direction, quantity |-> q, draft |-> NoDraft,
      acked |-> FALSE ]

Answered(c) == request' = [request EXCEPT ![c] = Idle]
Edited == edits < MaxEdits /\ edits' = edits + 1

(* create_trade, BUY.  Nothing it has read decides what it writes.         *)
Buy(c) ==
    /\ request[c].at = "idle"
    /\ \E q \in Sizes, at \in Times, line \in Lines \cup {0} :
          LET t == ByHand(at, "BUY", q) IN
          /\ NewTrade(t)
          /\ position' = Applied(position, t, line)
    /\ UNCHANGED <<drafts, request, edits>>

(* create_trade, SELL: _check_position, then the T+1 check and the stop of *)
(* the average range are waited for.                                       *)
CheckSale(c) ==
    /\ request[c].at = "idle"
    /\ \E q \in Sizes :
          /\ q <= position.quantity
          /\ request' = [request EXCEPT ![c] = [Idle EXCEPT !.at = "sell", !.quantity = q]]
    /\ UNCHANGED <<trades, recorded, position, drafts, edits>>

Sell(c) ==
    /\ request[c].at = "sell"
    /\ \E at \in Times :
          LET t == ByHand(at, "SELL", request[c].quantity) IN
          /\ NewTrade(t)
          /\ position' = Applied(position, t, 0)
    /\ Answered(c)
    /\ UNCHANGED <<drafts, edits>>

(* update_trade: quantity, direction and time; no rule of create_trade is  *)
(* asked again.                                                            *)
UpdateTrade(c) ==
    /\ request[c].at = "idle"
    /\ Edited
    /\ \E t \in trades, q \in Sizes, direction \in Directions :
       \E at \in {t.at} \cup (IF OutOfOrder THEN Times ELSE {}) :
          LET new == [t EXCEPT !.quantity = q, !.direction = direction, !.at = at] IN
          /\ trades' = (trades \ {t}) \cup {new}
          /\ position' = Recalculated(position, trades')
    /\ UNCHANGED <<recorded, drafts, request>>

(* Mutant: the row is moved back by the trade instead of computed again.   *)
DeleteTradeUndone(c) ==
    /\ request[c].at = "idle"
    /\ Edited
    /\ \E t \in trades :
          LET back == [t EXCEPT !.direction = IF @ = "BUY" THEN "SELL" ELSE "BUY"] IN
          /\ trades' = trades \ {t}
          /\ position' = Moved(position, back)
    /\ UNCHANGED <<recorded, drafts, request>>

DeleteTrade(c) ==
    /\ request[c].at = "idle"
    /\ Edited
    /\ \E t \in trades :
          /\ trades' = trades \ {t}
          /\ position' = Recalculated(position, trades')
    /\ UNCHANGED <<recorded, drafts, request>>

(* import_csv: one row of a statement.  Nothing keeps a statement from     *)
(* being imported again, or a sale from exceeding the position.            *)
ImportStatement(c) ==
    /\ Statements
    /\ request[c].at = "idle"
    /\ \E q \in Sizes, direction \in Directions :
          /\ NewTrade(ByHand(recorded + 1 + TextAfter, direction, q))
          /\ position' = Recalculated(position, trades')
    /\ UNCHANGED <<drafts, request, edits>>

-----------------------------------------------------------------------------
(* Trades from screenshots.                                                *)

Existing(d) == drafts[d].status \notin {"NONE", "DELETED"}

(* _create_batch_and_drafts, after a model has read the screenshot.  A row *)
(* whose name is no symbol is BLOCKED, be it a duplicate or not.           *)
UploadBatch(b) ==
    LET rows == {d \in Drafts : BatchOf[d] = b}
        Twin(d) == \E e \in TwinOf[d] : BatchOf[e] # b /\ Existing(e)
        Status(d, found) == IF ~found THEN "BLOCKED"
                            ELSE IF Twin(d) THEN "POSSIBLE_DUPLICATE" ELSE "DRAFT" IN
    /\ \A d \in rows : drafts[d].status = "NONE"
    /\ \E found \in [rows -> BOOLEAN] :
          drafts' = [d \in Drafts |->
             IF d \in rows
             THEN [drafts[d] EXCEPT !.status = Status(d, found[d]), !.sound = found[d],
                                    !.duplicate = Twin(d)]
             ELSE drafts[d]]
    /\ UNCHANGED <<trades, recorded, position, request, edits>>

(* _status_for_warnings                                                    *)
StatusFor(sound, status, ack) ==
    CASE ~sound -> "BLOCKED"
      [] sound /\ status = "POSSIBLE_DUPLICATE" /\ ~ack -> "POSSIBLE_DUPLICATE"
      [] OTHER -> "DRAFT"

(* A page holds what it is about to write of a draft.                      *)
Holds(c, d, row) ==
    request' = [request EXCEPT
       ![c] = [Idle EXCEPT !.at = "patch", !.patch = {[draft |-> d, row |-> row]}]]

(* update_import_draft, whatever the status is: its SELECT, from which the *)
(* new values and the new status are made.                                 *)
EditDraft(c, d) ==
    /\ request[c].at = "idle" /\ Existing(d)
    /\ Edited
    /\ \E sound, ack \in BOOLEAN, q \in Sizes :
          Holds(c, d, [drafts[d] EXCEPT !.status = StatusFor(sound, @, ack), !.sound = sound,
                                        !.ack = ack, !.quantity = q])
    /\ UNCHANGED <<trades, recorded, position, drafts>>

(* delete_import_draft: its SELECT, and what it refuses.                   *)
DeleteDraft(c, d) ==
    /\ request[c].at = "idle" /\ Existing(d) /\ drafts[d].status # "CONFIRMED"
    /\ Edited
    /\ Holds(c, d, [drafts[d] EXCEPT !.status = "DELETED"])
    /\ UNCHANGED <<trades, recorded, position, drafts>>

(* ... and the UPDATE or the DELETE, which finds the draft by its id alone:*)
(* it may have been confirmed by now, and if it is gone nothing is written.*)
WriteDraft(c) ==
    /\ request[c].at = "patch"
    /\ \E p \in request[c].patch :
          drafts' = IF Existing(p.draft) THEN [drafts EXCEPT ![p.draft] = p.row] ELSE drafts
    /\ Answered(c)
    /\ UNCHANGED <<trades, recorded, position, edits>>

Bookable(ds) == {d \in ds : drafts[d].status # "CONFIRMED"}

Booking(d) ==
    [ draft |-> d, direction |-> drafts[d].direction, quantity |-> drafts[d].quantity,
      ack |-> drafts[d].ack ]

Sold(ds) ==
    FoldSet(LAMBDA d, n : n + drafts[d].quantity, 0, {d \in ds : drafts[d].direction = "SELL"})

(* confirm_import_batch: what it reads, and what it refuses.               *)
ReadBatch(c, b) ==
    /\ request[c].at = "idle"
    /\ \E chosen \in SUBSET {d \in Drafts : BatchOf[d] = b /\ Existing(d)} :
          LET rows == Bookable(chosen) IN
          /\ rows # {}
          /\ \A d \in rows :
                /\ drafts[d].sound
                /\ drafts[d].status = "POSSIBLE_DUPLICATE" => drafts[d].ack
          /\ Sold(rows) <= position.quantity
          /\ request' = [request EXCEPT
                ![c] = [Idle EXCEPT !.at = "confirm", !.read = {Booking(d) : d \in rows}]]
    /\ UNCHANGED <<trades, recorded, position, drafts, edits>>

(* Mutant: the index is not unique, or was never made.                     *)
NeverBooked(ds) == FALSE

(* idx_trades_import_draft_unique refuses a second trade of a draft.       *)
AlreadyBooked(ds) == \E t \in trades : t.draft \in ds

(* ... and its transaction, of which nothing is left when the index raises.*)
ConfirmRaises(c) ==
    /\ request[c].at = "confirm"
    /\ AlreadyBooked({row.draft : row \in request[c].read})
    /\ Answered(c)
    /\ UNCHANGED <<trades, recorded, position, drafts, edits>>

(* All its trades get the time of the close.                               *)
Confirm(c) ==
    LET rows == SetToSeq(request[c].read)
        Booked(i, at) ==
            [ id |-> recorded + i, at |-> at, direction |-> rows[i].direction,
              quantity |-> rows[i].quantity, draft |-> rows[i].draft, acked |-> rows[i].ack ]
        done == {row.draft : row \in request[c].read} IN
    /\ request[c].at = "confirm" /\ ~AlreadyBooked(done)
    /\ recorded + Len(rows) <= MaxTrades
    /\ recorded' = recorded + Len(rows)
    /\ \E at \in Times : trades' = trades \cup {Booked(i, at) : i \in DOMAIN rows}
    /\ drafts' = [d \in Drafts |-> IF d \in done /\ Existing(d)
                                   THEN [drafts[d] EXCEPT !.status = "CONFIRMED"] ELSE drafts[d]]
    /\ position' = Recalculated(position, trades')
    /\ Answered(c)
    /\ UNCHANGED edits

DeskNext ==
    \/ \E c \in Clients : \/ Buy(c) \/ CheckSale(c) \/ Sell(c)
                          \/ UpdateTrade(c) \/ DeleteTrade(c) \/ ImportStatement(c)
    \/ \E b \in Batches : UploadBatch(b) \/ \E c \in Clients : ReadBatch(c, b)
    \/ \E c \in Clients, d \in Drafts : EditDraft(c, d) \/ DeleteDraft(c, d)
    \/ \E c \in Clients : WriteDraft(c) \/ Confirm(c) \/ ConfirmRaises(c)

DeskSpec == DeskInit /\ [][DeskNext]_deskVars

-----------------------------------------------------------------------------
(* What must be true.                                                      *)

(* The row of positions is "computed from the trades": moved by a trade or *)
(* computed again, it is what all trades in the order of their times give. *)
(* A row that was not made from trades is excepted until it is computed    *)
(* again (position_calc.py:112).                                           *)
PositionIsFold ==
    Calibrated \notin Range(position.basis) =>
        /\ position.quantity = Fold(trades).quantity
        /\ position.basis = Fold(trades).basis

(* However often a batch is confirmed, by whom, edited in between or       *)
(* confirmed in parts, a draft has become one trade at most; and until     *)
(* something is edited or deleted it says CONFIRMED just when it has.      *)
OneTradePerDraft ==
    /\ \A s, t \in trades : s.draft = t.draft /\ s.draft # NoDraft => s = t
    /\ edits = 0 =>
          \A d \in Drafts :
             drafts[d].status = "CONFIRMED" <=> \E t \in trades : t.draft = d
=============================================================================
