---------------------------- MODULE MCLevelChain ----------------------------
(***************************************************************************)
(* Facts of the three levels for LevelChain.  All facts of one level meet  *)
(* some of the others: all days with staleness, all 30 minutes, and all 5  *)
(* minutes with the 30 minutes whose words, divergence and points are      *)
(* silent.                                                                 *)
(***************************************************************************)
EXTENDS LevelChain

PointAt(buy, kind, at, price) == [buy |-> buy, kind |-> kind, at |-> at, price |-> price]
LowBuy == PointAt(TRUE, "FIRST_BUY", 1, 7)
ThirdBuy == PointAt(TRUE, "THIRD_BUY", 2, 9)
SellPoint == PointAt(FALSE, "FIRST_BUY", 3, 12)
OtherBuy == PointAt(TRUE, "other", 3, 9)

Levels(states, prices, centres, downs, words, divs, points, since) ==
    {[there |-> TRUE, state |-> x[1], price |-> x[2], zd |-> x[3][1], zg |-> x[3][2],
      down |-> x[4], words |-> x[5], div |-> x[6], points |-> x[7], since |-> x[8]] :
        x \in states \X prices \X centres \X downs \X words \X divs \X points \X since}

Centres == {<<8, 10>>, <<0, 0>>}
Up == "UPWARD_LEAVING"
Down == "DOWNWARD_LEAVING"
Osc == "IN_CENTER_OSC"

AllDays ==
    Levels({Up, Down, Osc, "THIRD_SELL_CONFIRMED"}, {6, 11, 15}, {<<8, 10>>}, {FALSE},
           {{}, {"buy"}, {"trendTop"}}, {"none", "bottom", "top"},
           {<<>>, <<ThirdBuy>>, <<ThirdBuy, SellPoint>>}, {0, 3})
SomeDays ==
    Levels({Up, Down}, {6, 15}, {<<8, 10>>}, {FALSE}, {{"buy"}}, {"none"}, {<<>>}, {0})
AllM30s ==
    Levels({Up, Down, Osc}, {7, 9, 11}, Centres, {FALSE}, {{}, {"sell"}, {"buy"}}, {"none", "top"},
           {<<>>, <<ThirdBuy>>, <<ThirdBuy, SellPoint>>}, {0})
SomeM30s ==
    Levels({Up, Down}, {11}, {<<8, 10>>}, {FALSE}, {{}}, {"none", "top"}, {<<>>}, {0})
AllM5s ==
    Levels({Up, Down, Osc}, {0, 7, 9, 11}, {<<6, 10>>, <<0, 0>>}, BOOLEAN, {{}, {"bottom"}, {"sell"}},
           {"none"}, {<<>>, <<LowBuy>>, <<LowBuy, OtherBuy>>, <<ThirdBuy, SellPoint>>}, {0, 2}) \cup {NoLevel}
SomeM5s == Levels({Osc}, {7, 11}, {<<6, 10>>}, {TRUE}, {{}}, {"none"}, {<<>>, <<LowBuy>>}, {0})

HighDays == {d \in SomeDays : d.price = 15}
SilentM30s ==
    SomeM30s \cup {l \in AllM30s : l.words = {} /\ l.div = "none" /\ l.points = <<>> /\ l.zd > 0}

MCChains ==
    [day : AllDays, m30 : SomeM30s, m5 : SomeM5s, stale : BOOLEAN]
        \cup [day : SomeDays, m30 : AllM30s, m5 : SomeM5s, stale : {FALSE}]
        \cup [day : HighDays, m30 : SilentM30s, m5 : AllM5s, stale : {FALSE}]

NoFacts == [day |-> NoLevel, m30 |-> NoLevel, m5 |-> NoLevel, stale |-> TRUE]
NoChainInit == chain = NoFacts /\ deduction = NoDeduction
=============================================================================
