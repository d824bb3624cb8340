------------------------------ MODULE LevelChain ------------------------------
(***************************************************************************)
(* The deduction over the chain day - 30 - 5 for a page without a position *)
(* (engines/decision/level_chain_deduction.py): a pure function of the     *)
(* structure facts of three levels, here one step Deduce over the facts at *)
(* hand.  A price, edge or time of 0 is one that is not there; the words   *)
(* of the patterns are kept by what is searched for in them.  Texts are    *)
(* left out, but for the roles, branches and boundaries they stand for.    *)
(***************************************************************************)
EXTENDS Integers, Sequences, SequencesExt

CONSTANT Chains     \* the facts [day, m30, m5, stale] that may be at hand

VARIABLES
    chain,          \* the facts
    deduction       \* the contract made of them, NoDeduction before

chainVars == <<chain, deduction>>

(* A level: whether it is there, its state, price and centre, whether its  *)
(* last stroke is down, the words of its patterns, its divergence, its buy *)
(* and sell points in order of time, and where the latest window begins.   *)
(* Words are "buy", "bottom", "sell" and "trendTop".                       *)
NoLevel ==
    [there |-> FALSE, state |-> "", price |-> 0, zd |-> 0, zg |-> 0, down |-> FALSE,
     words |-> {}, div |-> "none", points |-> <<>>, since |-> 0]

NoPoint == [buy |-> TRUE, kind |-> "none", at |-> 0, price |-> 0]
Kinds == {"FIRST_BUY", "SECOND_BUY", "THIRD_BUY"}
UpStates == {"UPWARD_LEAVING", "THIRD_BUY_CONFIRMED"}

(* The shapes of the facts, of which any may be at hand.                   *)
Points == [buy : BOOLEAN, kind : Kinds \cup {"none", "other"}, at : Nat, price : Nat]
LevelFacts ==
    [there : BOOLEAN, state : STRING, price : Nat, zd : Nat, zg : Nat, down : BOOLEAN,
     words : SUBSET {"buy", "bottom", "sell", "trendTop"}, div : {"none", "bottom", "top"},
     points : Seq(Points), since : Nat]

ASSUME ChainsAssumption ==
    Chains \subseteq [day : LevelFacts, m30 : LevelFacts, m5 : LevelFacts, stale : BOOLEAN]
-----------------------------------------------------------------------------
(* Facts of a level. *)

Latest(l, buy) ==
    LET known == {k \in DOMAIN l.points : l.points[k].buy = buy /\ l.points[k].kind \in Kinds}
    IN  IF known = {} THEN NoPoint
        ELSE l.points[CHOOSE k \in known : \A j \in known : j <= k]

InWindow(l, point) == point.at > 0 /\ point.at >= l.since

CurrentBuy(l) == Latest(l, TRUE) # NoPoint /\ InWindow(l, Latest(l, TRUE))

HasBuyFact(l) == l.words \cap {"buy", "bottom"} # {} \/ CurrentBuy(l)

SellWords(l) == l.words \cap {"sell", "trendTop"} # {}

TopDivergence(l) == l.div = "top" \/ "trendTop" \in l.words

(* A sell point in the latest window that is not older than the last buy.  *)
SellPointRisk(l) ==
    LET sell == Latest(l, FALSE)
        buy == Latest(l, TRUE)
    IN  /\ sell # NoPoint
        /\ buy.at = 0 \/ sell.at >= buy.at
        /\ InWindow(l, sell)

(* Words count only where there are no points at all.                      *)
SellRisk(l) ==
    \/ TopDivergence(l)
    \/ l.state = "THIRD_SELL_CONFIRMED"
    \/ SellPointRisk(l)
    \/ l.points = <<>> /\ SellWords(l)

AboveSupport(l) == l.price > 0 /\ l.zd > 0 /\ l.price >= l.zd
BelowSupport(l) == l.price > 0 /\ l.zd > 0 /\ l.price < l.zd
AboveResistance(l) == l.price > 0 /\ l.zg > 0 /\ l.price > l.zg

ExtremeMainWave(l) ==
    /\ l.state = "UPWARD_LEAVING" /\ l.price > 0 /\ l.zg > 0
    /\ 2 * l.price >= 3 * l.zg
    /\ HasBuyFact(l)
-----------------------------------------------------------------------------
(* Roles of the levels. *)

DayRole(day) ==
    IF \/ ExtremeMainWave(day) /\ ~TopDivergence(day)
       \/ ~SellRisk(day) /\ (HasBuyFact(day) \/ day.state \in UpStates \/ day.div = "bottom")
    THEN "VALID"
    ELSE IF SellRisk(day) THEN "UNSAFE" ELSE "NEUTRAL"

M30Role(m30) ==
    IF TopDivergence(m30) \/ m30.state = "THIRD_SELL_CONFIRMED" THEN "CONFLICTING"
    ELSE IF m30.state \in UpStates /\ AboveSupport(m30) THEN "SUPPORTIVE"
    ELSE IF SellPointRisk(m30) \/ (m30.points = <<>> /\ SellWords(m30)) THEN "NEUTRAL"
    ELSE IF HasBuyFact(m30) \/ AboveSupport(m30) THEN "SUPPORTIVE"
    ELSE "NEUTRAL"

M5Role(m5) ==
    IF CurrentBuy(m5) THEN "CONFIRMED" ELSE IF m5.there THEN "WAITING" ELSE "STALE"
-----------------------------------------------------------------------------
(* Boundaries. *)

Boundary(level, field, value) == [level |-> level, field |-> field, value |-> value]

PreferMicro(m5) ==
    /\ m5.zg > 0 /\ AboveResistance(m5)
    /\ m5.state \in {"IN_CENTER_OSC", "THIRD_BUY_CONFIRMED"} \/ m5.down

InvalidationBoundary(m30, m5) ==
    LET third == Latest(m30, TRUE)
        buy == Latest(m5, TRUE)
    IN  IF PreferMicro(m5) THEN Boundary("5", "zg", m5.zg)
        ELSE IF third.kind = "THIRD_BUY" /\ third.price > 0
             THEN Boundary("30", "third_buy_price", third.price)
        ELSE IF m30.zd > 0 THEN Boundary("30", "zd", m30.zd)
        ELSE IF m5.zd > 0 THEN Boundary("5", "zd", m5.zd)
        ELSE IF buy # NoPoint THEN Boundary("5", "buy_point_price", buy.price)
        ELSE Boundary("", "", 0)

Breaks(price, boundary) == price > 0 /\ boundary.value > 0 /\ price < boundary.value

CurrentPrice(c) ==
    IF c.m5.price > 0 THEN c.m5.price ELSE IF c.m30.price > 0 THEN c.m30.price ELSE c.day.price

(* What the 5 minutes are forming, and the boundary that goes with it.     *)
FormingType(m5) ==
    IF m5.zg > 0 /\ m5.price >= m5.zg THEN "THIRD_BUY"
    ELSE IF Latest(m5, TRUE).kind = "FIRST_BUY" /\ Latest(m5, TRUE).price > 0 THEN "SECOND_BUY"
    ELSE IF \/ "bottom" \in m5.words
            \/ m5.zd > 0 /\ m5.price > 0 /\ m5.price \in m5.zd..m5.zg
         THEN "FIRST_BUY"
    ELSE "UNKNOWN_BUY"

FormingBoundary(type, m5, fallback) ==
    IF type = "THIRD_BUY" /\ m5.zg > 0 THEN Boundary("5", "zg", m5.zg)
    ELSE IF type = "FIRST_BUY" /\ m5.zd > 0 THEN Boundary("5", "zd", m5.zd)
    ELSE fallback

IsForming(m5, boundary) ==
    m5.there /\ ~CurrentBuy(m5) /\ ~Breaks(m5.price, boundary) /\ m5.down
-----------------------------------------------------------------------------
(* What is told beside the status. *)

NoCandidate == [type |-> "none", status |-> "none"]

DivergenceOf(l) ==
    IF l.div # "none" THEN l.div
    ELSE IF "bottom" \in l.words THEN "bottom"
    ELSE IF "trendTop" \in l.words THEN "top" ELSE "none"

DivergenceContext(c) ==
    [top |-> {k \in {"day", "m30", "m5"} : DivergenceOf(c[k]) = "top"},
     bottom |-> {k \in {"day", "m30", "m5"} : DivergenceOf(c[k]) = "bottom"}]

DownwardPressure(c) ==
    LET levels == {"day", "m30", "m5"}
        leaving == {k \in levels : c[k].state = "DOWNWARD_LEAVING"}
        below == {k \in levels : BelowSupport(c[k])}
        Two(s) == \E j, k \in s : j # k
    IN  Two(leaving) \/ (leaving # {} /\ Two(below))

StrongExtension(c, status, roles) ==
    /\ status \in {"TRIGGER_FORMING", "TRIGGER_CONFIRMED", "WAITING_TRIGGER"}
    /\ roles.day = "VALID" /\ roles.m30 = "SUPPORTIVE"
    /\ c.day.state = "UPWARD_LEAVING"
    /\ AboveResistance(c.day) /\ AboveResistance(c.m30)

HighVolatility(m5) ==
    m5.state = "IN_CENTER_OSC" /\ AboveResistance(m5) /\ m5.down /\ SellWords(m5)

Plan(id, weight) == [id |-> id, weight |-> weight]

CoachScenarios(c, status, roles) ==
    IF DownwardPressure(c)
    THEN <<Plan("breakdown", 50), Plan("oscillation", 30), Plan("wave", 20)>>
    ELSE IF StrongExtension(c, status, roles) /\ HighVolatility(c.m5)
    THEN <<Plan("oscillation", 50), Plan("wave", 30), Plan("breakdown", 20)>>
    ELSE <<Plan("wave", 60), Plan("oscillation", 30), Plan("breakdown", 10)>>

(* The boundaries of the path thesis: what holds it and what ends it.      *)
PathBoundaries(status, boundary, price) ==
    IF boundary.value <= 0 THEN {"missing"}
    ELSE IF status # "FAILED" THEN {"holds", "ends"}
    ELSE IF Breaks(price, boundary) THEN {"ended"} ELSE {"defence"}

BranchState(status, branch) ==
    IF branch = "A" /\ status = "TRIGGER_CONFIRMED" THEN "CONFIRMED"
    ELSE IF branch = "A" /\ status = "TRIGGER_FORMING" THEN "FORMING"
    ELSE IF branch = "B" /\ status \in {"WAITING_CONFIRMATION", "WAITING_TRIGGER",
                                        "NO_SETUP", "STALE"} THEN "CURRENT"
    ELSE IF branch = "C" /\ status = "FAILED" THEN "TRIGGERED"
    ELSE "WATCH"
-----------------------------------------------------------------------------
(* The contract. *)

RolesOf(c) == [day |-> DayRole(c.day), m30 |-> M30Role(c.m30), m5 |-> M5Role(c.m5)]

Result(c, status, roles, candidate, boundary) ==
    [status |-> status, roles |-> roles, candidate |-> candidate, boundary |-> boundary,
     branches |-> [b \in {"A", "B", "C"} |-> BranchState(status, b)],
     boundaries |-> PathBoundaries(status, boundary, CurrentPrice(c)),
     plans |-> CoachScenarios(c, status, roles),
     divergence |-> DivergenceContext(c)]

(* Mutant: the boundary is checked after the trigger.                      *)
FailsLate(c, roles) ==
    /\ Breaks(CurrentPrice(c), InvalidationBoundary(c.m30, c.m5))
    /\ ~(roles.m30 = "SUPPORTIVE" /\ CurrentBuy(c.m5))

Fails(c, roles) == Breaks(CurrentPrice(c), InvalidationBoundary(c.m30, c.m5))

Deduction(c) ==
    LET roles == RolesOf(c)
        boundary == InvalidationBoundary(c.m30, c.m5)
        forming == FormingType(c.m5)
        Plainly(status, told) == Result(c, status, told, NoCandidate, boundary)
    IN  IF c.stale THEN Plainly("STALE", roles)
        ELSE IF roles.day # "VALID" THEN Plainly("NO_SETUP", roles)
        ELSE IF Fails(c, roles) THEN Plainly("FAILED", [roles EXCEPT !.m30 = "CONFLICTING"])
        ELSE IF roles.m30 = "CONFLICTING" THEN Plainly("FAILED", roles)
        ELSE IF roles.m30 # "SUPPORTIVE" THEN Plainly("WAITING_CONFIRMATION", roles)
        ELSE IF CurrentBuy(c.m5)
             THEN Result(c, "TRIGGER_CONFIRMED", roles,
                         [type |-> Latest(c.m5, TRUE).kind, status |-> "CONFIRMED"], boundary)
        ELSE IF IsForming(c.m5, boundary)
             THEN Result(c, "TRIGGER_FORMING", [roles EXCEPT !.m5 = "FORMING"],
                         [type |-> forming, status |-> "FORMING"],
                         FormingBoundary(forming, c.m5, boundary))
        ELSE Plainly("WAITING_TRIGGER", roles)

NoDeduction == [status |-> "none"]

ChainInit == chain \in Chains /\ deduction = NoDeduction

Deduce ==
    /\ deduction = NoDeduction
    /\ deduction' = Deduction(chain)
    /\ UNCHANGED chain

ChainNext == Deduce
ChainSpec == ChainInit /\ [][ChainNext]_chainVars
-----------------------------------------------------------------------------
Told == deduction # NoDeduction
Status == deduction.status

(* One of the branches A, B and C is the current one, and it is the one    *)
(* the boundaries, the roles and the candidate speak of: a path that still *)
(* stands shows a boundary the price is not below (a first buy that forms  *)
(* below the centre is the exception), a path that failed for a boundary   *)
(* shows it as broken, a candidate is there just when a buy triggers, and  *)
(* a trigger stands on a valid day and a supporting 30.                    *)
ViewsAgree ==
    Told =>
        LET current == {b \in {"A", "B", "C"} : deduction.branches[b] # "WATCH"}
            price == CurrentPrice(chain)
            triggers == {"TRIGGER_CONFIRMED", "TRIGGER_FORMING"}
        IN  /\ \E b \in current : current = {b}
            /\ ("A" \in current) = (Status \in triggers)
            /\ (deduction.candidate # NoCandidate) = (Status \in triggers)
            /\ Status \in triggers =>
                   /\ ~chain.stale
                   /\ deduction.roles.day = "VALID" /\ deduction.roles.m30 = "SUPPORTIVE"
            /\ "C" \in current => deduction.roles.m30 = "CONFLICTING"
            /\ Breaks(price, deduction.boundary) =>
                   \/ Status \in {"STALE", "NO_SETUP"}
                   \/ Status = "FAILED" /\ deduction.boundaries = {"ended"}
                   \/ deduction.candidate.type = "FIRST_BUY"

(* Rank of a status on the way to a trigger.                               *)
Rank(status) ==
    CASE status = "TRIGGER_CONFIRMED" -> 4 [] status = "TRIGGER_FORMING" -> 3
      [] status = "WAITING_TRIGGER" -> 2 [] status = "WAITING_CONFIRMATION" -> 1
      [] OTHER -> 0

(* A path that stands at a price stands at a higher one: although the      *)
(* boundary moves up to the upper edge of the 5 minutes' centre as the     *)
(* price passes it, no rise of the price fails a path or takes it a rung   *)
(* back.                                                                   *)
HigherIsNoWorse ==
    Told /\ chain.m5.price > 0 =>
        \A rise \in 1..4 :
            Rank(Status) <=
                Rank(Deduction([chain EXCEPT !.m5.price = @ + rise]).status)

(* A deduction: its views agree, and a higher price takes no path back     *)
(* (build_level_chain_deduction).                                          *)
ChainSound == ViewsAgree /\ HigherIsNoWorse
=============================================================================
