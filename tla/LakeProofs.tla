----------------------------- MODULE LakeProofs -----------------------------
(***************************************************************************)
(* Proofs about the bars of a symbol in the two lakes, for any trading     *)
(* days, ex-right days and weeks.                                          *)
(*                                                                         *)
(* The types hold whatever overlaps.  That the TDX bars of a level lie on  *)
(* one base (TdxOnOneBase) needs more than the tables: a level has bars    *)
(* only of raw days, and a pass that writes holds a factor for every raw   *)
(* day, all of one base; then each level it writes is replaced as a whole. *)
(***************************************************************************)
EXTENDS KlineLake, NaturalsInduction, WellFoundedInduction, FiniteSetTheorems, TLAPS

-----------------------------------------------------------------------------
(* Rows of a level. *)

LEMMA MembersOfRows ==
    ASSUME NEW r \in Rows
    PROVE  /\ DOMAIN r \subseteq Days /\ r \in [DOMAIN r -> Bases]
           /\ \A d \in DOMAIN r : r[d] \in Bases
BY DEF Rows

LEMMA IntoRows ==
    ASSUME NEW D \in SUBSET Days, NEW r \in [D -> Bases]
    PROVE  r \in Rows
BY DEF Rows

LEMMA NoRows ==
    None \in Rows
<1>1. None \in [{} -> Bases]
  BY DEF None
<1> QED
  BY <1>1, IntoRows

LEMMA OverlaidRows ==
    ASSUME NEW r \in Rows, NEW s \in Rows
    PROVE  Overlaid(r, s) \in Rows
<1>1. DOMAIN r \cup DOMAIN s \in SUBSET Days
  BY MembersOfRows
<1>2. Overlaid(r, s) \in [DOMAIN r \cup DOMAIN s -> Bases]
  BY MembersOfRows DEF Overlaid
<1> QED
  BY <1>1, <1>2, IntoRows

(* Rows that cover the rows below them are all there is.                   *)
LEMMA OverlaidCovers ==
    ASSUME NEW r \in Rows, NEW s \in Rows, DOMAIN r \subseteq DOMAIN s
    PROVE  Overlaid(r, s) = s
<1>1. DOMAIN r \cup DOMAIN s = DOMAIN s
  OBVIOUS
<1>2. s = [d \in DOMAIN s |-> s[d]]
  BY MembersOfRows
<1>3. Overlaid(r, s) = [d \in DOMAIN s |-> s[d]]
  BY <1>1 DEF Overlaid
<1> QED
  BY <1>2, <1>3

LEMMA RestrictedRows ==
    ASSUME NEW r \in Rows, NEW S \in SUBSET DOMAIN r
    PROVE  Restrict(r, S) \in Rows /\ DOMAIN Restrict(r, S) = S
<1>1. S \in SUBSET Days
  BY MembersOfRows
<1>2. Restrict(r, S) \in [S -> Bases]
  BY MembersOfRows DEF Restrict
<1> QED
  BY <1>1, <1>2, IntoRows

(* The greatest day of a set of days.                                      *)
LEMMA LastOfDays ==
    ASSUME NEW D \in SUBSET Days, D # {}
    PROVE  LastOf(D) \in D /\ \A d \in D : d <= LastOf(D)
<1>1. MaxDay \in Nat
  BY LakeBounds
<1> DEFINE R == OpToRel(<, Nat)
           U == {MaxDay - d : d \in D}
<1>2. U \subseteq Nat /\ U # {}
  <2>1. \A d \in D : MaxDay - d \in Nat
    BY <1>1 DEF Days
  <2> QED
    BY <2>1
<1>3. PICK u \in U : \A v \in U : ~(<<v, u>> \in R)
  <2>1. IsWellFoundedOn(R, Nat)
    BY NatLessThanWellFounded
  <2> HIDE DEF R, U
  <2> QED
    BY <1>2, <2>1, WFMin
<1>4. \A v \in U : ~(v < u)
  BY <1>2, <1>3 DEF OpToRel
<1>5. PICK x \in D : u = MaxDay - x
  OBVIOUS
<1>6. \A d \in D : x >= d
  BY <1>1, <1>4, <1>5 DEF Days
<1>7. Max(D) \in D /\ \A d \in D : Max(D) >= d
  BY <1>6 DEF Max
<1> QED
  BY <1>1, <1>7 DEF LastOf, Days

LEMMA LastOfIsADay ==
    ASSUME NEW D \in SUBSET Days
    PROVE  LastOf(D) \in 0..MaxDay
<1>1. CASE D = {}
  BY <1>1, LakeBounds DEF LastOf
<1>2. CASE D # {}
  <2>1. LastOf(D) \in Days
    BY <1>2, LastOfDays
  <2> QED
    BY <2>1, LakeBounds DEF Days
<1> QED
  BY <1>1, <1>2

LEMMA BaseIsABase ==
    ASSUME NEW day
    PROVE  BaseAt(day) \in Bases
<1>1. {x \in ExDays : x <= day} \in SUBSET Days
  BY LakeBounds DEF Days
<1> HIDE DEF Days
<1>2. BaseAt(day) \in 0..MaxDay
  BY <1>1, LastOfIsADay DEF BaseAt
<1> QED
  BY <1>2, LakeBounds DEF Bases, Torn

(* Rows of one base, or of what there is no other of.                      *)
LEMMA RowsOfOneBase ==
    ASSUME NEW D \in SUBSET Days, NEW b \in Bases
    PROVE  [d \in D |-> b] \in Rows /\ OnOneBase([d \in D |-> b])
<1>1. [d \in D |-> b] \in [D -> Bases]
  OBVIOUS
<1> QED
  BY <1>1, IntoRows DEF OnOneBase

-----------------------------------------------------------------------------
(* Weeks. *)

LEMMA WeeklyRows ==
    ASSUME NEW r \in Rows
    PROVE  Weekly(r) \in Rows /\ DOMAIN Weekly(r) = WeekEnds(DOMAIN r)
<1>1. WeekEnds(DOMAIN r) \in SUBSET DOMAIN r
  BY DEF WeekEnds
<1>2. Torn \in Bases
  BY LakeBounds DEF Torn, Bases
<1>3. DOMAIN Weekly(r) = WeekEnds(DOMAIN r)
  BY DEF Weekly
<1>4. Weekly(r) \in [WeekEnds(DOMAIN r) -> Bases]
  BY <1>1, <1>2, MembersOfRows DEF Weekly
<1> QED
  BY <1>1, <1>3, <1>4, MembersOfRows, IntoRows

(* Weeks of days on one base are on that base.                             *)
LEMMA WeeklyOnOneBase ==
    ASSUME NEW r \in Rows, OnOneBase(r)
    PROVE  OnOneBase(Weekly(r))
<1>1. ASSUME NEW d \in WeekEnds(DOMAIN r)
      PROVE  Weekly(r)[d] = r[d] /\ d \in DOMAIN r
  <2>1. d \in DOMAIN r /\ d \in SameWeek(DOMAIN r, d)
    BY <1>1 DEF WeekEnds, SameWeek
  <2>2. {r[e] : e \in SameWeek(DOMAIN r, d)} = {r[d]}
    BY <2>1 DEF OnOneBase, SameWeek
  <2>3. Cardinality({r[d]}) = 1
    BY FS_Singleton
  <2> QED
    BY <1>1, <2>1, <2>2, <2>3 DEF Weekly
<1>2. DOMAIN Weekly(r) = WeekEnds(DOMAIN r)
  BY DEF Weekly
<1> QED
  BY <1>1, <1>2 DEF OnOneBase

(* Each week has its last day.                                             *)
LEMMA EveryWeekEnds ==
    ASSUME NEW D \in SUBSET Days, NEW d \in D
    PROVE  SameWeek(WeekEnds(D), d) # {}
<1> DEFINE W == SameWeek(D, d)
<1>1. W \in SUBSET Days /\ d \in W
  BY DEF SameWeek
<1> DEFINE e == LastOf(W)
<1>2. e \in W /\ \A x \in W : x <= e
  <2> HIDE DEF W
  <2> QED
    BY <1>1, LastOfDays
<1>3. SameWeek(D, e) = W
  BY <1>2 DEF SameWeek
<1>4. e \in WeekEnds(D) /\ WeekOf[e] = WeekOf[d]
  BY <1>2, <1>3 DEF WeekEnds, SameWeek
<1> QED
  BY <1>4 DEF SameWeek

LEMMA OtherWeeksRows ==
    ASSUME NEW r \in Rows, NEW D
    PROVE  OtherWeeks(r, D) \in Rows /\ DOMAIN OtherWeeks(r, D) \subseteq DOMAIN r
<1> DEFINE S == {d \in DOMAIN r : SameWeek(D, d) = {}}
<1>1. S \in SUBSET DOMAIN r
  OBVIOUS
<1>2. Restrict(r, S) \in Rows /\ DOMAIN Restrict(r, S) = S
  BY <1>1, RestrictedRows
<1> QED
  BY <1>2 DEF OtherWeeks
-----------------------------------------------------------------------------
(* Types. *)

WorldOK == today \in Days /\ {dayFile, minFile, published} \subseteq 0..today

TablesOK ==
    /\ raw \in [Freqs -> SUBSET Days]
    /\ adjusted \in [Sources -> [Freqs -> Rows]]
    /\ legacy \in [Sources -> [Freqs -> Rows]]

PassesOK == pass \in [Callers -> Passes]

(* A fetch that goes on has a frequency that it is for.                    *)
Fetching(r) == r.at # "idle" => r.todo # <<>>

ThreadsOK ==
    thread \in [Threads -> Fetches] /\ \A t \in Threads : Fetching(thread[t])

TypeInv == WorldOK /\ TablesOK /\ PassesOK /\ ThreadsOK /\ faults \in 0..MaxFaults

LEMMA TypeInvTypes ==
    TypeInv => LakeTypeOK
BY DEF TypeInv, WorldOK, TablesOK, PassesOK, ThreadsOK, LakeTypeOK

LEMMA FaultsStayBounded ==
    ASSUME faults \in 0..MaxFaults, Fault \/ SameFaults
    PROVE  faults' \in 0..MaxFaults
BY LakeBounds DEF Fault, SameFaults

LEMMA IdlePass ==
    NoPass \in Passes
<1>1. <<>> \in Seq(Freqs)
  OBVIOUS
<1> QED
  BY <1>1, NoRows DEF NoPass, Passes, Scopes

LEMMA FirstDay ==
    1 \in Days
BY LakeBounds DEF Days

LEMMA IdleFetch ==
    NoFetch \in Fetches /\ Fetching(NoFetch)
<1>1. <<>> \in Seq(Freqs)
  OBVIOUS
<1> QED
  BY <1>1, NoRows, FirstDay DEF NoFetch, Fetches, Fetching

LEMMA PassTypes ==
    ASSUME NEW p \in Passes
    PROVE  /\ p.scope \in Scopes /\ p.todo \in Seq(Freqs)
           /\ p.updated \in BOOLEAN /\ p.factors \in Rows
BY DEF Passes

LEMMA FetchTypes ==
    ASSUME NEW r \in Fetches
    PROVE  /\ r.from \in Days /\ r.todo \in Seq(Freqs)
           /\ r.full \in BOOLEAN /\ r.days \in Rows /\ r.bars \in Rows
BY DEF Fetches

LEMMA HeadAndTail ==
    ASSUME NEW s \in Seq(Freqs), s # <<>>
    PROVE  Head(s) \in Freqs /\ Tail(s) \in Seq(Freqs)
OBVIOUS

LEMMA FreqsOfTypes ==
    ASSUME NEW scope \in Scopes
    PROVE  FreqsOf(scope) \in Seq(Freqs)
<1>1. <<"day">> \in Seq(Freqs) /\ <<"week", "day", "min">> \in Seq(Freqs)
  BY DEF Freqs
<1>2. <<"day", "week">> \in Seq(Freqs) /\ <<"day", "min">> \in Seq(Freqs)
  BY DEF Freqs
<1>3. CASE scope \in {"daily", "day"}
  BY <1>1, <1>3 DEF FreqsOf
<1>4. CASE scope \in {"full", "new"}
  BY <1>1, <1>4 DEF FreqsOf
<1>5. CASE scope \in {"week", "min"}
  BY <1>2, <1>5 DEF FreqsOf
<1> QED
  BY <1>3, <1>4, <1>5 DEF Scopes

LEMMA TargetsTypes ==
    ASSUME NEW scope
    PROVE  Targets(scope) \in Seq(Freqs)
<1>1. <<>> \in Seq(Freqs) /\ <<"week">> \in Seq(Freqs) /\ <<"min">> \in Seq(Freqs)
  BY DEF Freqs
<1>2. \A s, t \in Seq(Freqs) : s \o t \in Seq(Freqs)
  OBVIOUS
<1> QED
  BY <1>1, <1>2 DEF Targets

LEMMA AdjustsTypes ==
    ASSUME TablesOK, NEW src \in Sources, NEW f \in Freqs, NEW rows \in Rows,
           Adjusts(src, f, rows), UNCHANGED raw
    PROVE  TablesOK'
<1>1. adjusted[src][f] \in Rows /\ legacy[src][f] \in Rows
  BY DEF TablesOK
<1>2. Overlaid(adjusted[src][f], rows) \in Rows
  BY <1>1, OverlaidRows
<1> DEFINE kept == IF f = "week" THEN OtherWeeks(legacy[src][f], DOMAIN rows)
                   ELSE legacy[src][f]
<1>3. Overlaid(kept, rows) \in Rows
  BY <1>1, OtherWeeksRows, OverlaidRows
<1>4. adjusted' = [adjusted EXCEPT ![src][f] = Overlaid(adjusted[src][f], rows)]
  BY DEF Adjusts
<1>5. legacy' = [legacy EXCEPT ![src][f] = Overlaid(kept, rows)]
  BY DEF Adjusts
<1> HIDE DEF kept
<1>6. adjusted' \in [Sources -> [Freqs -> Rows]]
  BY <1>2, <1>4 DEF TablesOK
<1>7. legacy' \in [Sources -> [Freqs -> Rows]]
  BY <1>3, <1>5 DEF TablesOK
<1> QED
  BY <1>6, <1>7 DEF TablesOK

LEMMA StoresTypes ==
    ASSUME TablesOK, NEW f \in Freqs, NEW D \in SUBSET Days, Stores(f, D),
           UNCHANGED <<adjusted, legacy>>
    PROVE  TablesOK'
<1>1. D \cup (IF f = "week" THEN {d \in raw[f] : SameWeek(D, d) = {}} ELSE raw[f])
        \in SUBSET Days
  BY DEF TablesOK
<1>2. raw' \in [Freqs -> SUBSET Days]
  BY <1>1 DEF TablesOK, Stores
<1> QED
  BY <1>2 DEF TablesOK
(* What a pass becomes keeps the passes of their types.                    *)
LEMMA GoesTypes ==
    ASSUME PassesOK, NEW c \in Callers, NEW p \in Passes, Goes(c, p)
    PROVE  PassesOK'
BY DEF PassesOK, Goes

LEMMA BecomesTypes ==
    ASSUME ThreadsOK, NEW t \in Threads, NEW r \in Fetches, Fetching(r), Becomes(t, r)
    PROVE  ThreadsOK'
BY DEF ThreadsOK, Becomes

LEMMA WorldStays ==
    ASSUME WorldOK, UNCHANGED worldVars
    PROVE  WorldOK'
BY DEF WorldOK, worldVars

LEMMA TablesStay ==
    ASSUME TablesOK, UNCHANGED tables
    PROVE  TablesOK'
BY DEF TablesOK, tables

LEMMA ThreadsStay ==
    ASSUME ThreadsOK, UNCHANGED thread
    PROVE  ThreadsOK'
BY DEF ThreadsOK

LEMMA BeginTypes ==
    ASSUME TypeInv, NEW c \in Callers, NEW scope \in Scopes, Begin(c, scope)
    PROVE  TypeInv'
<1> DEFINE at == IF scope \in {"daily", "full"} THEN "front" ELSE "raw"
           p == [NoPass EXCEPT !.at = at, !.scope = scope, !.todo = FreqsOf(scope)]
<1>1. at \in {"front", "raw"}
  OBVIOUS
<1>2. FreqsOf(scope) \in Seq(Freqs)
  BY FreqsOfTypes
<1>3. p \in Passes
  <2> HIDE DEF at
  <2> QED
    BY <1>1, <1>2, NoRows DEF NoPass, Passes
<1>4. Goes(c, p)
  BY DEF Begin
<1>5. PassesOK'
  <2> HIDE DEF p
  <2> QED
    BY <1>3, <1>4, GoesTypes DEF TypeInv
<1> QED
  BY <1>5, WorldStays, TablesStay, ThreadsStay, FaultsStayBounded DEF TypeInv, Begin

LEMMA AnswersTypes ==
    ASSUME WorldOK, NEW f
    PROVE  Answers(f) \in Rows
<1> DEFINE D == IF f = "week" THEN WeekEnds(1..today) ELSE 1..today
<1>1. 1..today \in SUBSET Days
  BY LakeBounds DEF WorldOK, Days
<1>2. D \in SUBSET Days
  BY <1>1 DEF WeekEnds
<1>3. BaseAt(today) \in Bases
  BY BaseIsABase
<1>4. [d \in D |-> BaseAt(today)] \in Rows
  <2> HIDE DEF D
  <2> QED
    BY <1>2, <1>3, RowsOfOneBase
<1> QED
  BY <1>4 DEF Answers

LEMMA FrontDaysTypes ==
    ASSUME TypeInv, NEW c \in Callers, FrontDays(c)
    PROVE  TypeInv'
<1> DEFINE last == LastOf(DOMAIN legacy["tdx"]["day"])
           taken(answer) == Restrict(answer, {d \in DOMAIN answer : d > last})
<1>1. PICK answer \in {None} \cup (IF Bridge THEN {Answers("day")} ELSE {}) :
        /\ Adjusts("tdx", "day", taken(answer))
        /\ Goes(c, [pass[c] EXCEPT !.at = "raw", !.updated = taken(answer) # None])
  BY DEF FrontDays
<1>2. answer \in Rows
  BY NoRows, AnswersTypes DEF TypeInv
<1>3. taken(answer) \in Rows
  BY <1>2, RestrictedRows
<1> HIDE DEF taken
<1>4. TablesOK'
  BY <1>1, <1>3, AdjustsTypes DEF TypeInv, FrontDays, Sources, Freqs
<1>5. pass[c] \in Passes
  BY DEF TypeInv, PassesOK
<1>6. [pass[c] EXCEPT !.at = "raw", !.updated = taken(answer) # None] \in Passes
  BY <1>5, ZenonT(60) DEF Passes
<1>7. PassesOK'
  BY <1>1, <1>6, GoesTypes DEF TypeInv
<1> QED
  BY <1>4, <1>7, WorldStays, ThreadsStay, FaultsStayBounded DEF TypeInv, FrontDays

LEMMA NewRowsTypes ==
    ASSUME WorldOK, NEW f \in Freqs, NEW scope
    PROVE  NewRows(f, scope) \in SUBSET Days
<1>1. \A derived : DayRows(derived) \in SUBSET Days
  BY LakeBounds DEF WorldOK, Days, DayRows
<1>2. 1..minFile \in SUBSET Days
  BY LakeBounds DEF WorldOK, Days
<1>3. FileRows(f, scope) \in SUBSET Days
  <2> DEFINE derived == scope \in {"daily", "full", "new"}
  <2>1. DayRows(derived) \in SUBSET Days
    BY <1>1
  <2>2. WeekEnds(DayRows(derived)) \in SUBSET Days
    BY <2>1 DEF WeekEnds
  <2>3. CASE f = "day"
    BY <2>1, <2>3 DEF FileRows
  <2>4. CASE f = "week"
    BY <2>2, <2>4 DEF FileRows
  <2>5. CASE f = "min"
    BY <1>2, <2>5 DEF FileRows
  <2> QED
    BY <2>3, <2>4, <2>5 DEF Freqs
<1> QED
  BY <1>3 DEF NewRows

LEMMA RawBarsTypes ==
    ASSUME TypeInv, NEW c \in Callers, RawBars(c)
    PROVE  TypeInv'
<1> DEFINE p == pass[c]
           f == Head(p.todo)
           rows == NewRows(f, p.scope)
           rest == [p EXCEPT !.todo = Tail(p.todo)]
<1>1. p \in Passes
  BY DEF TypeInv, PassesOK
<1>2. f \in Freqs /\ Tail(p.todo) \in Seq(Freqs)
  BY <1>1, PassTypes, HeadAndTail DEF RawBars
<1>3. rows \in SUBSET Days
  BY <1>2, NewRowsTypes DEF TypeInv
<1>4. rest \in Passes /\ [rest EXCEPT !.updated = rest.updated \/ rows # {}] \in Passes
  <2> HIDE DEF p, rows
  <2>1. rest \in Passes
    BY <1>1, <1>2, ZenonT(60) DEF Passes
  <2> HIDE DEF rest
  <2>2. (rest.updated \/ rows # {}) \in BOOLEAN
    OBVIOUS
  <2>3. [rest EXCEPT !.updated = rest.updated \/ rows # {}] \in Passes
    BY <2>1, <2>2, ZenonT(60) DEF Passes
  <2> QED
    BY <2>1, <2>3
<1>5. /\ UNCHANGED <<worldVars, thread>>
      /\ \/ /\ Stores(f, rows) /\ UNCHANGED <<adjusted, legacy>>
            /\ Goes(c, [rest EXCEPT !.updated = rest.updated \/ rows # {}])
            /\ SameFaults
         \/ Adjusts("tdx", f, Answers(f)) /\ UNCHANGED raw /\ Goes(c, rest) /\ SameFaults
         \/ UNCHANGED tables /\ Goes(c, rest) /\ Fault
  BY DEF RawBars
<1> HIDE DEF p, f, rows, rest
<1>6. TablesOK'
  BY <1>2, <1>3, <1>5, StoresTypes, AdjustsTypes, AnswersTypes, TablesStay
     DEF TypeInv, Sources
<1>7. PassesOK'
  BY <1>4, <1>5, GoesTypes DEF TypeInv
<1> QED
  BY <1>5, <1>6, <1>7, WorldStays, ThreadsStay, FaultsStayBounded DEF TypeInv
LEMMA CheckFactorsTypes ==
    ASSUME TypeInv, NEW c \in Callers, CheckFactors(c)
    PROVE  TypeInv'
<1> DEFINE p == [pass[c] EXCEPT !.at = "rebuild", !.todo = Targets(pass[c].scope)]
<1>1. pass[c] \in Passes /\ Targets(pass[c].scope) \in Seq(Freqs)
  BY TargetsTypes DEF TypeInv, PassesOK
<1>2. p \in Passes
  BY <1>1, ZenonT(60) DEF Passes
<1> HIDE DEF p
<1>3. Goes(c, p) \/ Goes(c, NoPass)
  BY DEF CheckFactors, p
<1>4. PassesOK'
  BY <1>2, <1>3, IdlePass, GoesTypes DEF TypeInv
<1> QED
  BY <1>4, WorldStays, TablesStay, ThreadsStay, FaultsStayBounded DEF TypeInv, CheckFactors

LEMMA BuiltTypes ==
    ASSUME TablesOK
    PROVE  Built \in Rows /\ OnOneBase(Built) /\ DOMAIN Built = raw["day"]
<1>1. raw["day"] \in SUBSET Days
  BY DEF TablesOK, Freqs
<1>2. BaseAt(LastOf(raw["day"])) \in Bases
  BY BaseIsABase
<1>3. DOMAIN Built = raw["day"]
  BY DEF Built
<1> QED
  BY <1>1, <1>2, <1>3, RowsOfOneBase DEF Built

(* What a pass has read is a row of factors.                               *)
LEMMA ReadFactorsTypes ==
    ASSUME TypeInv, NEW c \in Callers, ReadFactors(c)
    PROVE  TypeInv'
<1> DEFINE known == legacy["tdx"]["day"]
           found == Restrict(known, raw["day"])
           new == [pass[c] EXCEPT !.at = "write", !.factors = Built,
                                  !.todo = <<"day">> \o pass[c].todo]
           old == [pass[c] EXCEPT !.at = "write", !.factors = found]
<1>1. pass[c] \in Passes /\ known \in Rows /\ Built \in Rows
  BY BuiltTypes DEF TypeInv, PassesOK, TablesOK, Sources, Freqs
<1>2. <<"day">> \o pass[c].todo \in Seq(Freqs)
  <2>1. <<"day">> \in Seq(Freqs) /\ pass[c].todo \in Seq(Freqs)
    BY <1>1, PassTypes DEF Freqs
  <2> QED
    BY <2>1
<1>3. new \in Passes
  BY <1>1, <1>2, ZenonT(60) DEF Passes
<1>4. ASSUME raw["day"] \ DOMAIN known = {}
      PROVE  old \in Passes
  <2>1. found \in Rows
    BY <1>1, <1>4, RestrictedRows
  <2> HIDE DEF found
  <2> QED
    BY <1>1, <2>1, ZenonT(60) DEF Passes
<1>5. \/ Goes(c, new) \/ Goes(c, NoPass)
      \/ raw["day"] \ DOMAIN known = {} /\ Goes(c, old)
  BY DEF ReadFactors
<1> HIDE DEF new, old, known
<1>6. PassesOK'
  BY <1>3, <1>4, <1>5, IdlePass, GoesTypes DEF TypeInv
<1>7. UNCHANGED <<worldVars, tables, thread>> /\ (Fault \/ SameFaults)
  BY DEF ReadFactors
<1> QED
  BY <1>6, <1>7, WorldStays, TablesStay, ThreadsStay, FaultsStayBounded DEF TypeInv

LEMMA ScaledTypes ==
    ASSUME NEW f \in Freqs, NEW factors \in Rows
    PROVE  Scaled(f, factors) \in Rows
<1>1. raw["min"] \cap DOMAIN factors \in SUBSET DOMAIN factors
  OBVIOUS
<1>2. Restrict(factors, raw["min"] \cap DOMAIN factors) \in Rows
  BY <1>1, RestrictedRows
<1>3. CASE f = "day"
  BY <1>3 DEF Scaled
<1>4. CASE f = "week"
  BY <1>4, WeeklyRows DEF Scaled
<1>5. CASE f = "min"
  BY <1>2, <1>5 DEF Scaled
<1> QED
  BY <1>3, <1>4, <1>5 DEF Freqs

LEMMA WriteAdjustedTypes ==
    ASSUME TypeInv, NEW c \in Callers, WriteAdjusted(c)
    PROVE  TypeInv'
<1> DEFINE p == pass[c]
           rest == [p EXCEPT !.todo = Tail(p.todo)]
<1>1. p \in Passes
  BY DEF TypeInv, PassesOK
<1>2. Head(p.todo) \in Freqs /\ Tail(p.todo) \in Seq(Freqs)
  BY <1>1, PassTypes, HeadAndTail DEF WriteAdjusted
<1>3. Scaled(Head(p.todo), p.factors) \in Rows
  BY <1>1, <1>2, PassTypes, ScaledTypes
<1>4. Adjusts("tdx", Head(p.todo), Scaled(Head(p.todo), p.factors)) /\ Goes(c, rest)
  BY DEF WriteAdjusted
<1>5. rest \in Passes
  <2> HIDE DEF p
  <2> QED
    BY <1>1, <1>2, ZenonT(60) DEF Passes
<1> HIDE DEF p, rest
<1>6. TablesOK'
  BY <1>2, <1>3, <1>4, AdjustsTypes DEF TypeInv, WriteAdjusted, Sources
<1>7. PassesOK'
  BY <1>4, <1>5, GoesTypes DEF TypeInv
<1> QED
  BY <1>6, <1>7, WorldStays, ThreadsStay, FaultsStayBounded DEF TypeInv, WriteAdjusted

(* The steps that end a pass.                                              *)
LEMMA EndsTypes ==
    ASSUME TypeInv, NEW c \in Callers, EndPass(c) \/ RebuildRaises(c)
    PROVE  TypeInv'
<1>1. PassesOK'
  BY IdlePass, GoesTypes DEF TypeInv, EndPass, RebuildRaises
<1> QED
  BY <1>1, WorldStays, TablesStay, ThreadsStay, FaultsStayBounded
     DEF TypeInv, EndPass, RebuildRaises

-----------------------------------------------------------------------------
(* The threads of BaoStock. *)

LEMMA NightlyTypes ==
    ASSUME TypeInv, NEW t \in Threads, Nightly(t)
    PROVE  TypeInv'
<1> DEFINE r == [NoFetch EXCEPT !.at = "days", !.todo = <<"week", "day", "min">>]
<1>1. <<"week", "day", "min">> \in Seq(Freqs)
  BY DEF Freqs
<1>2. r \in Fetches /\ r.todo # <<>>
  BY <1>1, NoRows, FirstDay DEF NoFetch, Fetches
<1>3. Becomes(t, r)
  BY DEF Nightly
<1> HIDE DEF r
<1>4. ThreadsOK'
  BY <1>2, <1>3, BecomesTypes DEF TypeInv, Fetching
<1> QED
  BY <1>4, WorldStays, TablesStay, FaultsStayBounded DEF TypeInv, Nightly, PassesOK

LEMMA QuickTypes ==
    ASSUME TypeInv, NEW t \in Threads, NEW f \in Freqs, NEW full \in BOOLEAN,
           Quick(t, f, full)
    PROVE  TypeInv'
<1> DEFINE from == IF today > Recent THEN today - Recent ELSE 1
           r == [NoFetch EXCEPT !.at = "days", !.todo = <<f>>, !.full = full,
                                !.from = from]
<1>1. from \in Days /\ <<f>> \in Seq(Freqs) /\ <<f>> # <<>>
  BY LakeBounds DEF TypeInv, WorldOK, Days
<1>2. r \in Fetches /\ r.todo # <<>>
  <2> HIDE DEF from
  <2> QED
    BY <1>1, NoRows, FirstDay DEF NoFetch, Fetches
<1>3. Becomes(t, r)
  BY DEF Quick
<1> HIDE DEF r
<1>4. ThreadsOK'
  BY <1>2, <1>3, BecomesTypes DEF TypeInv, Fetching
<1> QED
  BY <1>4, WorldStays, TablesStay, FaultsStayBounded DEF TypeInv, Quick, PassesOK

LEMMA AfterTypes ==
    ASSUME ThreadsOK, NEW t \in Threads, thread[t].at # "idle"
    PROVE  After(t) \in Fetches /\ Fetching(After(t))
<1> DEFINE r == thread[t]
           whole == [r EXCEPT !.at = "days", !.from = 1, !.full = FALSE, !.days = None,
                              !.bars = None]
           next == [r EXCEPT !.at = "days", !.todo = Tail(r.todo), !.days = None,
                             !.bars = None]
<1>1. r \in Fetches /\ r.todo \in Seq(Freqs) /\ r.todo # <<>>
  BY FetchTypes DEF ThreadsOK, Fetching
<1>2. Tail(r.todo) \in Seq(Freqs) /\ (Len(r.todo) # 1 => Tail(r.todo) # <<>>)
  <2> HIDE DEF r
  <2>1. Len(Tail(r.todo)) = Len(r.todo) - 1 /\ Len(r.todo) \in Nat \ {0}
    BY <1>1
  <2>2. Len(<<>>) = 0
    OBVIOUS
  <2>3. Len(r.todo) # 1 => Len(Tail(r.todo)) # 0
    BY <2>1
  <2>4. Len(r.todo) # 1 => Tail(r.todo) # <<>>
    BY <2>2, <2>3
  <2> QED
    BY <1>1, <2>4, HeadAndTail
<1>3. whole \in Fetches /\ whole.todo = r.todo
  <2> HIDE DEF r
  <2> QED
    BY <1>1, NoRows, FirstDay DEF Fetches
<1>4. next \in Fetches /\ next.todo = Tail(r.todo)
  <2> HIDE DEF r
  <2> QED
    BY <1>1, <1>2, NoRows DEF Fetches
<1>5. After(t) = IF r.full THEN whole ELSE IF Len(r.todo) = 1 THEN NoFetch ELSE next
  BY DEF After
<1> HIDE DEF r, whole, next
<1> QED
  BY <1>1, <1>2, <1>3, <1>4, <1>5, IdleFetch DEF Fetching
LEMMA ReceivedTypes ==
    ASSUME WorldOK, NEW from \in Days, NEW D \in Received(from)
    PROVE  D \in SUBSET Days
<1>1. from..published \in SUBSET Days
  BY LakeBounds DEF WorldOK, Days
<1> QED
  BY <1>1 DEF Received

LEMMA ChainedTypes ==
    ASSUME NEW D \in SUBSET Days
    PROVE  Chained(D) \in Rows
<1>1. BaseAt(LastOf(D)) \in Bases /\ Torn \in Bases
  BY BaseIsABase, LakeBounds DEF Torn, Bases
<1>2. Chained(D) \in [D -> Bases]
  BY <1>1 DEF Chained
<1> QED
  BY <1>2, IntoRows

LEMMA FetchDaysTypes ==
    ASSUME TypeInv, NEW t \in Threads, FetchDays(t)
    PROVE  TypeInv'
<1> DEFINE with(D) == [thread[t] EXCEPT !.at = "day", !.days = Chained(D)]
<1>1. thread[t] \in Fetches /\ thread[t].at # "idle" /\ Fetching(thread[t])
  BY DEF TypeInv, ThreadsOK, FetchDays, Does
<1>2. PICK D \in Received(thread[t].from) :
        Becomes(t, After(t)) \/ Becomes(t, with(D))
  BY DEF FetchDays
<1>3. Chained(D) \in Rows
  BY <1>1, FetchTypes, ReceivedTypes, ChainedTypes DEF TypeInv
<1>4. with(D) \in Fetches /\ with(D).todo = thread[t].todo
  BY <1>1, <1>3, ZenonT(60) DEF Fetches
<1>5. Fetching(with(D))
  BY <1>1, <1>4 DEF Fetching
<1> HIDE DEF with
<1>6. ThreadsOK'
  BY <1>1, <1>2, <1>4, <1>5, AfterTypes, BecomesTypes DEF TypeInv
<1>7. UNCHANGED <<worldVars, tables, pass>> /\ (Fault \/ SameFaults)
  BY DEF FetchDays
<1> QED
  BY <1>6, <1>7, WorldStays, TablesStay, FaultsStayBounded DEF TypeInv, PassesOK

LEMMA WriteDaysTypes ==
    ASSUME TypeInv, NEW t \in Threads, WriteDays(t)
    PROVE  TypeInv'
<1> DEFINE weeks == [thread[t] EXCEPT !.at = "week"]
           minutes == [thread[t] EXCEPT !.at = "minutes"]
           f == Head(thread[t].todo)
<1>1. thread[t] \in Fetches /\ thread[t].at # "idle" /\ thread[t].todo # <<>>
  BY DEF TypeInv, ThreadsOK, WriteDays, Does, Fetching
<1>2. f \in Freqs
  BY <1>1, FetchTypes, HeadAndTail
<1>3. /\ weeks \in Fetches /\ weeks.todo = thread[t].todo
      /\ minutes \in Fetches /\ minutes.todo = thread[t].todo
  BY <1>1 DEF Fetches
<1>4. Becomes(t, CASE f = "day" -> After(t) [] f = "week" -> weeks [] f = "min" -> minutes)
  BY DEF WriteDays
<1> HIDE DEF weeks, minutes, f
<1>5. Becomes(t, After(t)) \/ Becomes(t, weeks) \/ Becomes(t, minutes)
  BY <1>2, <1>4 DEF Freqs
<1>6. ThreadsOK'
  BY <1>1, <1>3, <1>5, AfterTypes, BecomesTypes DEF TypeInv, Fetching
<1>7. TablesOK'
  BY <1>1, FetchTypes, AdjustsTypes DEF TypeInv, WriteDays, Sources, Freqs
<1> QED
  BY <1>6, <1>7, WorldStays, FaultsStayBounded DEF TypeInv, WriteDays, PassesOK

LEMMA WriteWeeksTypes ==
    ASSUME TypeInv, NEW t \in Threads, WriteWeeks(t)
    PROVE  TypeInv'
<1>1. thread[t] \in Fetches /\ thread[t].at # "idle"
  BY DEF TypeInv, ThreadsOK, WriteWeeks, Does
<1>2. Weekly(thread[t].days) \in Rows
  BY <1>1, FetchTypes, WeeklyRows
<1>3. TablesOK'
  BY <1>2, AdjustsTypes DEF TypeInv, WriteWeeks, Sources, Freqs
<1>4. ThreadsOK'
  BY <1>1, AfterTypes, BecomesTypes DEF TypeInv, WriteWeeks
<1> QED
  BY <1>3, <1>4, WorldStays, FaultsStayBounded DEF TypeInv, WriteWeeks, PassesOK

LEMMA FetchMinutesTypes ==
    ASSUME TypeInv, NEW t \in Threads, FetchMinutes(t)
    PROVE  TypeInv'
<1> DEFINE bars(D) == Restrict(thread[t].days, D \cap DOMAIN thread[t].days)
           with(D) == [thread[t] EXCEPT !.at = "min", !.bars = bars(D)]
<1>1. thread[t] \in Fetches /\ thread[t].at # "idle" /\ Fetching(thread[t])
  BY DEF TypeInv, ThreadsOK, FetchMinutes, Does
<1>2. PICK D \in Received(thread[t].from) : Becomes(t, with(D))
  BY DEF FetchMinutes
<1>3. bars(D) \in Rows
  <2>1. D \cap DOMAIN thread[t].days \in SUBSET DOMAIN thread[t].days
    OBVIOUS
  <2> QED
    BY <1>1, <2>1, FetchTypes, RestrictedRows
<1> HIDE DEF bars
<1>4. with(D) \in Fetches /\ with(D).todo = thread[t].todo
  BY <1>1, <1>3, ZenonT(60) DEF Fetches
<1>5. Fetching(with(D))
  BY <1>1, <1>4 DEF Fetching
<1> HIDE DEF with
<1>6. ThreadsOK'
  BY <1>2, <1>4, <1>5, BecomesTypes DEF TypeInv
<1>7. UNCHANGED <<worldVars, tables, pass>> /\ (Fault \/ SameFaults)
  BY DEF FetchMinutes
<1> QED
  BY <1>6, <1>7, WorldStays, TablesStay, FaultsStayBounded DEF TypeInv, PassesOK

LEMMA WriteMinutesTypes ==
    ASSUME TypeInv, NEW t \in Threads, WriteMinutes(t)
    PROVE  TypeInv'
<1>1. thread[t] \in Fetches /\ thread[t].at # "idle"
  BY DEF TypeInv, ThreadsOK, WriteMinutes, Does
<1>2. TablesOK'
  BY <1>1, FetchTypes, AdjustsTypes DEF TypeInv, WriteMinutes, Sources, Freqs
<1>3. ThreadsOK'
  BY <1>1, AfterTypes, BecomesTypes DEF TypeInv, WriteMinutes
<1> QED
  BY <1>2, <1>3, WorldStays, FaultsStayBounded DEF TypeInv, WriteMinutes, PassesOK

-----------------------------------------------------------------------------
(* The world, and all steps. *)

LEMMA WorldTypes ==
    ASSUME TypeInv, World
    PROVE  TypeInv'
<1>1. WorldOK'
  BY LakeBounds DEF TypeInv, WorldOK, World, NextDay, MinutesCome, DaysCome, Publish, Days
<1>2. UNCHANGED <<tables, pass, thread>> /\ SameFaults
  BY DEF World, NextDay, MinutesCome, DaysCome, Publish
<1> QED
  BY <1>1, <1>2, TablesStay, ThreadsStay, FaultsStayBounded DEF TypeInv, PassesOK

LEMMA LakeStopsTypes ==
    ASSUME TypeInv, LakeStops
    PROVE  TypeInv'
<1>1. PassesOK' /\ ThreadsOK'
  BY IdlePass, IdleFetch DEF LakeStops, PassesOK, ThreadsOK
<1> QED
  BY <1>1, WorldStays, TablesStay, FaultsStayBounded DEF TypeInv, LakeStops

(* A step of the next-state relation, by who takes it.                     *)
LEMMA StepsOfTheLake ==
    ASSUME LakeNext
    PROVE  \/ \E c \in Callers, scope \in Scopes : Begin(c, scope)
           \/ \E c \in Callers : \/ FrontDays(c) \/ RawBars(c) \/ CheckFactors(c)
                                 \/ ReadFactors(c) \/ WriteAdjusted(c)
                                 \/ EndPass(c) \/ RebuildRaises(c)
           \/ \E t \in Threads :
                 \/ Nightly(t) \/ \E f \in Freqs, full \in BOOLEAN : Quick(t, f, full)
                 \/ FetchDays(t) \/ WriteDays(t) \/ WriteWeeks(t) \/ FetchMinutes(t)
                 \/ WriteMinutes(t)
           \/ World \/ LakeStops
BY DEF LakeNext, Starts, Bootstrap, PassStep, ThreadStep, Scopes, Freqs

LEMMA LakeStepTypes ==
    ASSUME TypeInv, [LakeNext]_lakeVars
    PROVE  TypeInv'
<1>1. CASE UNCHANGED lakeVars
  BY <1>1 DEF lakeVars, TypeInv, WorldOK, TablesOK, PassesOK, ThreadsOK
<1>2. ASSUME NEW c \in Callers, NEW scope \in Scopes, Begin(c, scope)
      PROVE  TypeInv'
  BY <1>2, BeginTypes
<1>3. ASSUME NEW c \in Callers,
             \/ FrontDays(c) \/ RawBars(c) \/ CheckFactors(c) \/ ReadFactors(c)
             \/ WriteAdjusted(c) \/ EndPass(c) \/ RebuildRaises(c)
      PROVE  TypeInv'
  BY <1>3, FrontDaysTypes, RawBarsTypes, CheckFactorsTypes, ReadFactorsTypes,
     WriteAdjustedTypes, EndsTypes
<1>4. ASSUME NEW t \in Threads,
             \/ Nightly(t) \/ \E f \in Freqs, full \in BOOLEAN : Quick(t, f, full)
             \/ FetchDays(t) \/ WriteDays(t) \/ WriteWeeks(t) \/ FetchMinutes(t)
             \/ WriteMinutes(t)
      PROVE  TypeInv'
  BY <1>4, NightlyTypes, QuickTypes, FetchDaysTypes, WriteDaysTypes, WriteWeeksTypes,
     FetchMinutesTypes, WriteMinutesTypes
<1>5. CASE World \/ LakeStops
  BY <1>5, WorldTypes, LakeStopsTypes
<1>6. CASE LakeNext
  BY <1>2, <1>3, <1>4, <1>5, <1>6, StepsOfTheLake
<1> QED
  BY <1>1, <1>6
LEMMA LakeInitTypes ==
    LakeInit => TypeInv
<1> SUFFICES ASSUME LakeInit
             PROVE  TypeInv
  OBVIOUS
<1>1. WorldOK
  BY FirstDay, LakeBounds DEF LakeInit, WorldOK
<1>2. [d \in {1} |-> 0] \in Rows
  <2>1. [d \in {1} |-> 0] \in [{1} -> Bases]
    BY LakeBounds DEF Bases, Torn
  <2> QED
    BY <2>1, FirstDay, IntoRows
<1>3. {Empty, Charted} \subseteq [Sources -> [Freqs -> Rows]]
  BY <1>2, NoRows DEF Empty, Charted
<1>4. raw \in [Freqs -> SUBSET Days]
  BY DEF LakeInit
<1>5. TablesOK
  BY <1>3, <1>4 DEF LakeInit, TablesOK
<1>6. PassesOK /\ ThreadsOK
  BY IdlePass, IdleFetch DEF LakeInit, PassesOK, ThreadsOK
<1> QED
  BY <1>1, <1>5, <1>6, LakeBounds DEF LakeInit, TypeInv

LEMMA LakeTyped ==
    LakeSpec => []TypeInv
<1>1. TypeInv /\ [LakeNext]_lakeVars => TypeInv'
  BY LakeStepTypes
<1> QED
  BY <1>1, LakeInitTypes, PTL DEF LakeSpec

(* The tables of the lakes, the passes and the fetches of kline_lake.py    *)
(* and baostock_service.py keep their types: whatever overlaps, fails or   *)
(* stops, every bar is of a day and has a base.                            *)
THEOREM LakeTypeCorrect == LakeSpec => []LakeTypeOK
BY LakeTyped, TypeInvTypes, PTL

-----------------------------------------------------------------------------
(* One base. *)

(* A level of TDX has bars of raw days only, whichever table is meant.     *)
OfRawDays(rows) ==
    /\ DOMAIN rows["day"] \subseteq raw["day"]
    /\ DOMAIN rows["week"] \subseteq raw["day"]
    /\ DOMAIN rows["min"] \subseteq raw["day"] \cap raw["min"]

(* What a pass is about to write covers all raw days and is of one base.   *)
Factored(p) == p.at = "write" => DOMAIN p.factors = raw["day"] /\ OnOneBase(p.factors)

BaseInv ==
    /\ TypeInv
    /\ OfRawDays(legacy["tdx"]) /\ OfRawDays(adjusted["tdx"])
    /\ TdxOnOneBase
    /\ \A c \in Callers : Factored(pass[c])

(* Where it is so: one pass at a time, and no front-adjusted bars of the   *)
(* bridge.                                                                 *)
OnePass == ~Bridge /\ \A c, d \in Callers : c = d
LEMMA OverlaidNothing ==
    ASSUME NEW r \in Rows, NEW s \in Rows, DOMAIN s = {}
    PROVE  Overlaid(r, s) = r
<1>1. Overlaid(r, s) = [d \in DOMAIN r |-> r[d]]
  BY DEF Overlaid
<1>2. r = [d \in DOMAIN r |-> r[d]]
  BY MembersOfRows
<1> QED
  BY <1>1, <1>2

LEMMA OverlaidDomain ==
    ASSUME NEW r, NEW s
    PROVE  DOMAIN Overlaid(r, s) = DOMAIN r \cup DOMAIN s
BY DEF Overlaid

(* The bars that a pass makes of its factors are of one base, and there    *)
(* is one for each raw day, for each week, for each raw day with minutes.  *)
LEMMA ScaledOnOneBase ==
    ASSUME NEW f \in Freqs, NEW factors \in Rows, OnOneBase(factors)
    PROVE  /\ OnOneBase(Scaled(f, factors))
           /\ f = "day" => DOMAIN Scaled(f, factors) = DOMAIN factors
           /\ f = "week" => DOMAIN Scaled(f, factors) = WeekEnds(DOMAIN factors)
           /\ f = "min" => DOMAIN Scaled(f, factors) = raw["min"] \cap DOMAIN factors
<1>1. CASE f = "day"
  BY <1>1 DEF Scaled
<1>2. CASE f = "week"
  BY <1>2, WeeklyRows, WeeklyOnOneBase DEF Scaled
<1>3. CASE f = "min"
  BY <1>3 DEF Scaled, Restrict, OnOneBase
<1> QED
  BY <1>1, <1>2, <1>3 DEF Freqs

(* Each of them replaces what was of its level: the whole of it in the     *)
(* table that the policy and the passes read.                              *)
LEMMA LevelsAreReplaced ==
    ASSUME NEW f \in Freqs, NEW factors \in Rows, OnOneBase(factors), NEW old \in Rows,
           f = "min" => DOMAIN old \subseteq raw["min"] \cap DOMAIN factors,
           f # "min" => DOMAIN old \subseteq DOMAIN factors
    PROVE  /\ f # "week" => Overlaid(old, Scaled(f, factors)) = Scaled(f, factors)
           /\ f = "week" =>
                 Overlaid(OtherWeeks(old, DOMAIN Scaled(f, factors)), Scaled(f, factors))
                     = Scaled(f, factors)
<1> DEFINE rows == Scaled(f, factors)
           kept == OtherWeeks(old, DOMAIN rows)
<1>1. rows \in Rows
  BY ScaledTypes
<1>2. ASSUME f # "week"
      PROVE  Overlaid(old, rows) = rows
  <2>1. DOMAIN old \subseteq DOMAIN rows
    BY <1>2, ScaledOnOneBase DEF Freqs
  <2> HIDE DEF rows
  <2> QED
    BY <1>1, <2>1, OverlaidCovers
<1>3. ASSUME f = "week"
      PROVE  Overlaid(kept, rows) = rows
  <2>1. DOMAIN rows = WeekEnds(DOMAIN factors)
    BY <1>3, ScaledOnOneBase
  <2>2. \A d \in DOMAIN old : SameWeek(DOMAIN rows, d) # {}
    BY <1>3, <2>1, MembersOfRows, EveryWeekEnds
  <2> HIDE DEF rows
  <2>3. kept \in Rows /\ DOMAIN kept = {}
    BY <2>2, OtherWeeksRows DEF OtherWeeks, Restrict
  <2> HIDE DEF kept
  <2> QED
    BY <1>1, <2>3, OverlaidCovers
<1> QED
  BY <1>2, <1>3

(* A step that leaves the tables of TDX alone and the passes in order.     *)
LEMMA TdxStays ==
    ASSUME BaseInv, TypeInv', UNCHANGED <<raw, legacy["tdx"], adjusted["tdx"]>>,
           \A c \in Callers : Factored(pass'[c])
    PROVE  BaseInv'
<1>1. OfRawDays(legacy["tdx"])' /\ OfRawDays(adjusted["tdx"])' /\ TdxOnOneBase'
  BY DEF BaseInv, OfRawDays, TdxOnOneBase
<1>2. \A c \in Callers : Factored(pass[c])'
  BY DEF Factored
<1> QED
  BY <1>1, <1>2 DEF BaseInv

(* The same, of a step of the only pass.                                   *)
LEMMA PassStays ==
    ASSUME OnePass, BaseInv, TypeInv', UNCHANGED <<raw, legacy["tdx"], adjusted["tdx"]>>,
           NEW c \in Callers, NEW p, Goes(c, p), Factored(p)
    PROVE  BaseInv'
<1>1. pass'[c] = p
  BY DEF Goes, BaseInv, TypeInv, PassesOK
<1>2. \A d \in Callers : d = c
  BY DEF OnePass
<1>3. \A d \in Callers : Factored(pass'[d])
  BY <1>1, <1>2
<1> QED
  BY <1>3, TdxStays

LEMMA OtherPasses ==
    ASSUME NEW p, p.at # "write"
    PROVE  Factored(p)
BY DEF Factored

LEMMA NoPassIsFactored ==
    Factored(NoPass)
BY DEF Factored, NoPass

LEMMA BaoStockWrites ==
    ASSUME TablesOK, NEW f, NEW rows, Adjusts("baostock", f, rows)
    PROVE  UNCHANGED <<legacy["tdx"], adjusted["tdx"]>>
BY DEF TablesOK, Adjusts, Sources
-----------------------------------------------------------------------------
(* The steps of the pass. *)

(* Without the bridge there are no front-adjusted days to write.           *)
LEMMA FrontDaysBase ==
    ASSUME OnePass, BaseInv, NEW c \in Callers, FrontDays(c)
    PROVE  BaseInv'
<1> DEFINE last == LastOf(DOMAIN legacy["tdx"]["day"])
           taken == Restrict(None, {d \in DOMAIN None : d > last})
           p == [pass[c] EXCEPT !.at = "raw", !.updated = taken # None]
           old == legacy["tdx"]["day"]
           above == adjusted["tdx"]["day"]
<1>1. Adjusts("tdx", "day", taken) /\ Goes(c, p) /\ UNCHANGED raw
  BY DEF OnePass, FrontDays
<1>2. taken \in Rows /\ DOMAIN taken = {}
  BY NoRows, RestrictedRows DEF None
<1>3. old \in Rows /\ above \in Rows
  BY DEF BaseInv, TypeInv, TablesOK, Sources, Freqs
<1>4. p.at = "raw"
  BY DEF BaseInv, TypeInv, PassesOK, Passes
<1> HIDE DEF taken, p
<1>5. Overlaid(old, taken) = old /\ Overlaid(above, taken) = above
  BY <1>2, <1>3, OverlaidNothing
<1>6. UNCHANGED <<legacy["tdx"], adjusted["tdx"]>>
  BY <1>1, <1>5 DEF Adjusts, BaseInv, TypeInv, TablesOK, Sources, Freqs
<1>7. TypeInv'
  BY FrontDaysTypes DEF BaseInv
<1> QED
  BY <1>1, <1>4, <1>6, <1>7, OtherPasses, PassStays

(* Raw bars come and no raw day or minute goes.                            *)
LEMMA RawBarsBase ==
    ASSUME OnePass, BaseInv, NEW c \in Callers, RawBars(c)
    PROVE  BaseInv'
<1> DEFINE f == Head(pass[c].todo)
           rows == NewRows(f, pass[c].scope)
<1>1. TypeInv' /\ f \in Freqs
  BY RawBarsTypes, PassTypes, HeadAndTail DEF BaseInv, TypeInv, PassesOK, RawBars
<1>2. UNCHANGED <<adjusted, legacy>> /\ (Stores(f, rows) \/ UNCHANGED raw)
  BY DEF OnePass, RawBars, tables
<1>3. pass'[c].at = "raw"
  BY DEF RawBars, Goes, At, BaseInv, TypeInv, PassesOK, Passes
<1> HIDE DEF f, rows
<1>4. raw["day"] \subseteq raw'["day"] /\ raw["min"] \subseteq raw'["min"]
  BY <1>1, <1>2 DEF Stores, BaseInv, TypeInv, TablesOK, Freqs
<1>5. OfRawDays(legacy["tdx"])' /\ OfRawDays(adjusted["tdx"])' /\ TdxOnOneBase'
  BY <1>2, <1>4 DEF BaseInv, OfRawDays, TdxOnOneBase
<1>6. \A d \in Callers : Factored(pass[d])'
  BY <1>3 DEF OnePass, Factored
<1> QED
  BY <1>1, <1>5, <1>6 DEF BaseInv

LEMMA BeginBase ==
    ASSUME OnePass, BaseInv, NEW c \in Callers, NEW scope \in Scopes, Begin(c, scope)
    PROVE  BaseInv'
<1> DEFINE at == IF scope \in {"daily", "full"} THEN "front" ELSE "raw"
           p == [NoPass EXCEPT !.at = at, !.scope = scope, !.todo = FreqsOf(scope)]
<1>1. Goes(c, p) /\ UNCHANGED <<raw, legacy["tdx"], adjusted["tdx"]>>
  BY DEF Begin, tables
<1>2. p.at # "write"
  BY DEF NoPass
<1>3. TypeInv'
  BY BeginTypes DEF BaseInv
<1> HIDE DEF p
<1> QED
  BY <1>1, <1>2, <1>3, OtherPasses, PassStays

LEMMA CheckFactorsBase ==
    ASSUME OnePass, BaseInv, NEW c \in Callers, CheckFactors(c)
    PROVE  BaseInv'
<1> DEFINE p == [pass[c] EXCEPT !.at = "rebuild", !.todo = Targets(pass[c].scope)]
<1>1. UNCHANGED <<raw, legacy["tdx"], adjusted["tdx"]>> /\ (Goes(c, p) \/ Goes(c, NoPass))
  BY DEF CheckFactors, tables
<1>2. p.at = "rebuild"
  BY DEF BaseInv, TypeInv, PassesOK, Passes
<1>3. TypeInv'
  BY CheckFactorsTypes DEF BaseInv
<1> HIDE DEF p
<1> QED
  BY <1>1, <1>2, <1>3, OtherPasses, NoPassIsFactored, PassStays

(* The factors that are read: all built now, or all known and of the base  *)
(* of their level.                                                         *)
LEMMA ReadFactorsBase ==
    ASSUME OnePass, BaseInv, NEW c \in Callers, ReadFactors(c)
    PROVE  BaseInv'
<1> DEFINE known == legacy["tdx"]["day"]
           found == Restrict(known, raw["day"])
           new == [pass[c] EXCEPT !.at = "write", !.factors = Built,
                                  !.todo = <<"day">> \o pass[c].todo]
           old == [pass[c] EXCEPT !.at = "write", !.factors = found]
<1>1. TypeInv' /\ UNCHANGED <<raw, legacy["tdx"], adjusted["tdx"]>>
  BY ReadFactorsTypes DEF BaseInv, ReadFactors, tables
<1>2. \/ Goes(c, new) \/ Goes(c, NoPass)
      \/ raw["day"] \ DOMAIN known = {} /\ Goes(c, old)
  BY DEF ReadFactors
<1>3. pass[c] \in Passes
  BY DEF BaseInv, TypeInv, PassesOK
<1>4. new.factors = Built /\ old.factors = found
  BY <1>3 DEF Passes
<1>5. Factored(new)
  <2>1. DOMAIN Built = raw["day"] /\ OnOneBase(Built)
    BY BuiltTypes DEF BaseInv, TypeInv
  <2> QED
    BY <1>4, <2>1 DEF Factored
<1>6. ASSUME raw["day"] \ DOMAIN known = {}
      PROVE  Factored(old)
  <2>1. OnOneBase(known)
    BY DEF BaseInv, TdxOnOneBase, Freqs
  <2>2. DOMAIN found = raw["day"] /\ OnOneBase(found)
    BY <1>6, <2>1 DEF Restrict, OnOneBase
  <2> QED
    BY <1>4, <2>2 DEF Factored
<1> HIDE DEF new, old, known
<1> QED
  BY <1>1, <1>2, <1>5, <1>6, NoPassIsFactored, PassStays

LEMMA WriteAdjustedBase ==
    ASSUME OnePass, BaseInv, NEW c \in Callers, WriteAdjusted(c)
    PROVE  BaseInv'
<1> DEFINE p == pass[c]
           f == Head(p.todo)
           factors == p.factors
           rows == Scaled(f, factors)
<1>1. TypeInv' /\ p \in Passes
  BY WriteAdjustedTypes DEF BaseInv, TypeInv, PassesOK
<1>2. f \in Freqs /\ factors \in Rows /\ UNCHANGED raw
  BY <1>1, PassTypes, HeadAndTail DEF WriteAdjusted
<1>3. DOMAIN factors = raw["day"] /\ OnOneBase(factors)
  BY DEF BaseInv, Factored, WriteAdjusted, At
<1>4. Adjusts("tdx", f, rows)
  BY DEF WriteAdjusted
<1>5. pass'[c].at = p.at /\ pass'[c].factors = factors
  BY <1>1 DEF WriteAdjusted, Goes, BaseInv, TypeInv, PassesOK, Passes
<1>6. \A d \in Callers : Factored(pass[d])'
  BY <1>2, <1>3, <1>5 DEF OnePass, Factored
<1> HIDE DEF p, f, factors
<1>7. /\ OnOneBase(rows) /\ DOMAIN rows \subseteq raw["day"]
      /\ f = "min" => DOMAIN rows \subseteq raw["min"]
  BY <1>2, <1>3, ScaledOnOneBase DEF WeekEnds, Freqs
<1>8. ASSUME NEW table \in [Freqs -> Rows], OfRawDays(table)
      PROVE  /\ f # "week" => Overlaid(table[f], rows) = rows
             /\ f = "week" =>
                   Overlaid(OtherWeeks(table[f], DOMAIN rows), rows) = rows
  <2>1. /\ f = "min" => DOMAIN table[f] \subseteq raw["min"] \cap DOMAIN factors
        /\ f # "min" => DOMAIN table[f] \subseteq DOMAIN factors
    BY <1>2, <1>3, <1>8 DEF OfRawDays, Freqs
  <2> QED
    BY <1>2, <1>3, <1>8, <2>1, LevelsAreReplaced
<1> HIDE DEF rows
<1>9. legacy["tdx"] \in [Freqs -> Rows] /\ adjusted["tdx"] \in [Freqs -> Rows]
  BY DEF BaseInv, TypeInv, TablesOK, Sources
<1>10. legacy'["tdx"] = [legacy["tdx"] EXCEPT ![f] = rows]
  BY <1>2, <1>4, <1>8, <1>9 DEF Adjusts, BaseInv, TypeInv, TablesOK, Sources
<1>11. adjusted'["tdx"] = [adjusted["tdx"] EXCEPT ![f] = Overlaid(adjusted["tdx"][f], rows)]
  BY <1>2, <1>4 DEF Adjusts, BaseInv, TypeInv, TablesOK, Sources
<1>12. OfRawDays(legacy'["tdx"])
  BY <1>2, <1>7, <1>9, <1>10 DEF OfRawDays, BaseInv, Freqs
<1>13. OfRawDays(adjusted'["tdx"])
  <2>1. DOMAIN Overlaid(adjusted["tdx"][f], rows) = DOMAIN adjusted["tdx"][f] \cup DOMAIN rows
    BY OverlaidDomain
  <2> QED
    BY <1>2, <1>7, <1>9, <1>11, <2>1 DEF OfRawDays, BaseInv, Freqs
<1>14. TdxOnOneBase'
  <2>1. f # "week" => adjusted'["tdx"] = [adjusted["tdx"] EXCEPT ![f] = rows]
    BY <1>8, <1>9, <1>11 DEF BaseInv
  <2>2. ASSUME NEW g \in Freqs
        PROVE  OnOneBase(legacy'["tdx"][g])
    BY <1>2, <1>7, <1>9, <1>10 DEF BaseInv, TdxOnOneBase
  <2>3. ASSUME NEW g \in Freqs, g # "week"
        PROVE  OnOneBase(adjusted'["tdx"][g])
    <3>1. CASE g = f
      BY <1>2, <1>7, <1>9, <2>1, <2>3, <3>1
    <3>2. CASE g # f
      BY <1>2, <1>9, <1>11, <2>3, <3>2 DEF BaseInv, TdxOnOneBase
    <3> QED
      BY <3>1, <3>2
  <2> QED
    BY <2>2, <2>3 DEF TdxOnOneBase
<1>15. OfRawDays(legacy["tdx"])' /\ OfRawDays(adjusted["tdx"])'
  BY <1>2, <1>12, <1>13 DEF OfRawDays
<1> QED
  BY <1>1, <1>6, <1>14, <1>15 DEF BaseInv

LEMMA EndsBase ==
    ASSUME OnePass, BaseInv, NEW c \in Callers, EndPass(c) \/ RebuildRaises(c)
    PROVE  BaseInv'
<1>1. UNCHANGED <<raw, legacy["tdx"], adjusted["tdx"]>> /\ Goes(c, NoPass)
  BY DEF EndPass, RebuildRaises, tables
<1>2. TypeInv'
  BY EndsTypes DEF BaseInv
<1> QED
  BY <1>1, <1>2, NoPassIsFactored, PassStays

(* The threads of BaoStock write its own tables.                           *)
LEMMA ThreadsBase ==
    ASSUME BaseInv, TypeInv', NEW t \in Threads,
           \/ Nightly(t) \/ \E f \in Freqs, full \in BOOLEAN : Quick(t, f, full)
           \/ FetchDays(t) \/ WriteDays(t) \/ WriteWeeks(t) \/ FetchMinutes(t)
           \/ WriteMinutes(t)
    PROVE  BaseInv'
<1>1. UNCHANGED <<raw, pass>>
  BY DEF Nightly, Quick, FetchDays, WriteDays, WriteWeeks, FetchMinutes, WriteMinutes, tables
<1>2. UNCHANGED <<legacy["tdx"], adjusted["tdx"]>>
  <2>1. CASE \/ Nightly(t) \/ \E f \in Freqs, full \in BOOLEAN : Quick(t, f, full)
             \/ FetchDays(t) \/ FetchMinutes(t)
    BY <2>1 DEF Nightly, Quick, FetchDays, FetchMinutes, tables
  <2>2. CASE WriteDays(t) \/ WriteWeeks(t) \/ WriteMinutes(t)
    BY <2>2, BaoStockWrites DEF WriteDays, WriteWeeks, WriteMinutes, BaseInv, TypeInv
  <2> QED
    BY <2>1, <2>2
<1>3. \A c \in Callers : Factored(pass'[c])
  BY <1>1 DEF BaseInv
<1> QED
  BY <1>1, <1>2, <1>3, TdxStays

LEMMA OthersBase ==
    ASSUME BaseInv, TypeInv', World \/ LakeStops \/ UNCHANGED lakeVars
    PROVE  BaseInv'
<1>1. UNCHANGED <<raw, legacy["tdx"], adjusted["tdx"]>>
  BY DEF World, NextDay, MinutesCome, DaysCome, Publish, LakeStops, tables, lakeVars
<1>2. \A c \in Callers : pass'[c] = pass[c] \/ pass'[c] = NoPass
  BY DEF World, NextDay, MinutesCome, DaysCome, Publish, LakeStops, lakeVars
<1>3. \A c \in Callers : Factored(pass'[c])
  BY <1>2, NoPassIsFactored DEF BaseInv
<1> QED
  BY <1>1, <1>3, TdxStays

LEMMA LakeStepBase ==
    ASSUME OnePass, BaseInv, [LakeNext]_lakeVars
    PROVE  BaseInv'
<1>1. TypeInv'
  BY LakeStepTypes DEF BaseInv
<1>2. ASSUME NEW c \in Callers, NEW scope \in Scopes, Begin(c, scope)
      PROVE  BaseInv'
  BY <1>2, BeginBase
<1>3. ASSUME NEW c \in Callers,
             \/ FrontDays(c) \/ RawBars(c) \/ CheckFactors(c) \/ ReadFactors(c)
             \/ WriteAdjusted(c) \/ EndPass(c) \/ RebuildRaises(c)
      PROVE  BaseInv'
  BY <1>3, FrontDaysBase, RawBarsBase, CheckFactorsBase, ReadFactorsBase,
     WriteAdjustedBase, EndsBase
<1>4. ASSUME NEW t \in Threads,
             \/ Nightly(t) \/ \E f \in Freqs, full \in BOOLEAN : Quick(t, f, full)
             \/ FetchDays(t) \/ WriteDays(t) \/ WriteWeeks(t) \/ FetchMinutes(t)
             \/ WriteMinutes(t)
      PROVE  BaseInv'
  BY <1>1, <1>4, ThreadsBase
<1>5. CASE World \/ LakeStops \/ UNCHANGED lakeVars
  BY <1>1, <1>5, OthersBase
<1>6. CASE LakeNext
  BY <1>2, <1>3, <1>4, <1>5, <1>6, StepsOfTheLake
<1> QED
  BY <1>5, <1>6

LEMMA LakeInitBase ==
    LakeInit => BaseInv
<1> SUFFICES ASSUME LakeInit
             PROVE  BaseInv
  OBVIOUS
<1>1. TypeInv
  BY LakeInitTypes
<1>2. \A f \in Freqs : legacy["tdx"][f] = None /\ adjusted["tdx"][f] = None
  BY DEF LakeInit, Empty, Charted, Sources
<1>3. OfRawDays(legacy["tdx"]) /\ OfRawDays(adjusted["tdx"]) /\ TdxOnOneBase
  BY <1>2 DEF OfRawDays, TdxOnOneBase, OnOneBase, None, Freqs
<1>4. \A c \in Callers : Factored(pass[c])
  BY NoPassIsFactored DEF LakeInit
<1> QED
  BY <1>1, <1>3, <1>4 DEF BaseInv

(* With one pass at a time and no bridge, the TDX bars of a level that     *)
(* structure can be computed from are always of one base: no ex-right day  *)
(* shows as a move of the price, wherever a statement raises or the        *)
(* process stops between the levels that a pass rebuilds.                  *)
THEOREM LevelsOnOneBase ==
    ASSUME OnePass
    PROVE  LakeSpec => []LakeSound
<1>1. BaseInv /\ [LakeNext]_lakeVars => BaseInv'
  BY LakeStepBase
<1>2. BaseInv => LakeSound
  BY TypeInvTypes DEF BaseInv, LakeSound
<1> QED
  BY <1>1, <1>2, LakeInitBase, PTL DEF LakeSpec
=============================================================================
