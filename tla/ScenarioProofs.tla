--------------------------- MODULE ScenarioProofs ---------------------------
(***************************************************************************)
(* What becomes of contexts and of their branches, for any levels, sets of *)
(* snapshots, workers, branches, windows, reminders and clients.           *)
(*                                                                         *)
(* First what Subsequences gives: the elements at a set of indexes are     *)
(* there, each once and in their order.  Then Scenarios: one settlement a  *)
(* window, one push a reminder, and the answers to reminders.  Then        *)
(* ContextJobs: a context behind every success.  Last the run "scenarios", *)
(* whose lanes are the two.                                                *)
(***************************************************************************)
EXTENDS MCScenarios, JobRowProofs, FiniteSetTheorems, SequenceTheorems, WellFoundedInduction, TLAPS

-----------------------------------------------------------------------------
(* Indexes and the elements at them.                                       *)

LEMMA LeastIndex ==
    ASSUME NEW I, I \subseteq Nat, I # {}
    PROVE  /\ FirstOf(I) \in I
           /\ \A k \in I : FirstOf(I) <= k
<1> DEFINE R == OpToRel(<, Nat)
<1>1. IsWellFoundedOn(R, Nat)
  BY NatLessThanWellFounded
<1>2. PICK i \in I : \A k \in I : ~(<<k, i>> \in R)
  <2> HIDE DEF R
  <2> QED
    BY <1>1, WFMin
<1>3. \A k \in I : ~(k < i)
  BY <1>2 DEF OpToRel
<1>4. \A k \in I : i <= k
  BY <1>3
<1> QED
  BY <1>4 DEF FirstOf

LEMMA RankBounds ==
    ASSUME NEW I, I \subseteq Nat, IsFiniteSet(I), NEW i \in I
    PROVE  /\ Cardinality(I) \in Nat
           /\ Rank(I, i) \in 1..Cardinality(I)
<1> DEFINE L == {k \in I : k <= i}
<1>1. L \in SUBSET I /\ i \in L
  OBVIOUS
<1>2. IsFiniteSet(L) /\ Cardinality(L) <= Cardinality(I) /\ Cardinality(L) # 0
  BY <1>1, FS_Subset, FS_EmptySet
<1>3. Cardinality(L) \in Nat /\ Cardinality(I) \in Nat
  BY <1>2, FS_CardinalityType
<1> QED
  BY <1>2, <1>3 DEF Rank

LEMMA RankGrows ==
    ASSUME NEW I, I \subseteq Nat, IsFiniteSet(I), NEW i \in I, NEW j \in I, i < j
    PROVE  Rank(I, i) < Rank(I, j)
<1> DEFINE L == {k \in I : k <= i}
           M == {k \in I : k <= j}
<1>n. i \in Nat /\ j \in Nat /\ \A k \in I : k \in Nat
  OBVIOUS
<1>a. \A k : k \in L <=> k \in I /\ k <= i
  OBVIOUS
<1>b. \A k : k \in M <=> k \in I /\ k <= j
  OBVIOUS
<1>1. L \in SUBSET M /\ j \in M /\ j \notin L
  <2> HIDE DEF L, M
  <2>1. ASSUME NEW k \in L PROVE k \in M
    <3>1. k \in I /\ k <= i
      BY <1>a
    <3>2. k <= j
      BY <3>1, <1>n
    <3> QED
      BY <3>1, <3>2, <1>b
  <2>2. j \in M
    BY <1>n, <1>b
  <2>3. j \notin L
    BY <1>n, <1>a
  <2> QED
    BY <2>1, <2>2, <2>3
<1>2. IsFiniteSet(M)
  BY FS_Subset
<1>3. Cardinality(L) <= Cardinality(M) /\ Cardinality(L) # Cardinality(M)
  BY <1>1, <1>2, FS_Subset
<1>4. Cardinality(L) \in Nat /\ Cardinality(M) \in Nat
  BY <1>1, <1>2, FS_Subset, FS_CardinalityType
<1> QED
  BY <1>3, <1>4 DEF Rank

LEMMA RankInjective ==
    ASSUME NEW I, I \subseteq Nat, IsFiniteSet(I), NEW i \in I, NEW j \in I,
           Rank(I, i) = Rank(I, j)
    PROVE  i = j
<1>1. i \in Nat /\ j \in Nat
  OBVIOUS
<1>2. Cardinality(I) \in Nat /\ Rank(I, i) \in 1..Cardinality(I)
  BY RankBounds
<1>3. Rank(I, i) \in Nat
  BY <1>2
<1>4. ASSUME i < j PROVE FALSE
  <2>1. Rank(I, i) < Rank(I, j)
    BY <1>4, RankGrows
  <2> QED
    BY <2>1, <1>3
<1>5. ASSUME j < i PROVE FALSE
  <2>1. Rank(I, j) < Rank(I, i)
    BY <1>5, RankGrows
  <2> QED
    BY <2>1, <1>3
<1> QED
  BY <1>1, <1>4, <1>5

(* Every place is taken: were r the first that is not, the index after     *)
(* that of place r - 1 would have it.                                      *)
LEMMA RankSurjective ==
    ASSUME NEW I, I \subseteq Nat, IsFiniteSet(I), NEW r \in 1..Cardinality(I)
    PROVE  \E i \in I : Rank(I, i) = r
<1>n. Cardinality(I) \in Nat
  BY FS_CardinalityType
<1> DEFINE Untaken == {q \in 1..Cardinality(I) : \A i \in I : Rank(I, i) # q}
<1>1. SUFFICES ASSUME Untaken # {} PROVE FALSE
  OBVIOUS
<1> DEFINE q == FirstOf(Untaken)
<1>2. q \in Untaken /\ \A p \in Untaken : q <= p
  <2>1. Untaken \subseteq Nat
    BY <1>n
  <2> QED
    BY <1>1, <2>1, LeastIndex
<1>3. q \in 1..Cardinality(I) /\ \A i \in I : Rank(I, i) # q
  BY <1>2
<1>4. \A p \in 1..Cardinality(I) : p < q => \E i \in I : Rank(I, i) = p
  BY <1>2, <1>3, <1>n
<1> HIDE DEF Untaken, q
<1>5. PICK below \in SUBSET I :
          /\ IsFiniteSet(below) /\ Cardinality(below) = q - 1
          /\ \A k \in below, i \in I : i <= k => i \in below
  <2>1. CASE q = 1
    BY <2>1, FS_EmptySet
  <2>2. CASE q # 1
    <3>1. PICK j \in I : Rank(I, j) = q - 1
      BY <2>2, <1>3, <1>4, <1>n
    <3> DEFINE L == {k \in I : k <= j}
    <3>2. L \in SUBSET I /\ IsFiniteSet(L) /\ Cardinality(L) = q - 1
      BY <3>1, FS_Subset DEF Rank
    <3>3. \A k \in L, i \in I : i <= k => i \in L
      OBVIOUS
    <3> QED
      BY <3>2, <3>3
  <2> QED
    BY <2>1, <2>2
<1>6. I \ below # {}
  <2>1. below # I
    BY <1>5, <1>3, <1>n
  <2> QED
    BY <2>1
<1> DEFINE i == FirstOf(I \ below)
<1>7. i \in I \ below /\ \A k \in I \ below : i <= k
  BY <1>6, LeastIndex
<1> HIDE DEF i
<1>8. {k \in I : k <= i} = below \cup {i}
  <2>1. \A k \in I : k \in Nat
    OBVIOUS
  <2>2. \A k \in below : ~(i <= k)
    BY <1>5, <1>7
  <2>3. \A k \in below : k <= i
    BY <2>1, <2>2, <1>7
  <2>4. \A k \in I : k <= i /\ k \notin below => k = i
    BY <2>1, <1>7
  <2> QED
    BY <2>1, <2>3, <2>4, <1>7
<1>9. Cardinality(below \cup {i}) = q
  <2>1. Cardinality(below \cup {i}) = Cardinality(below) + 1
    BY <1>5, <1>7, FS_AddElement
  <2> QED
    BY <2>1, <1>5, <1>3, <1>n
<1> QED
  BY <1>3, <1>7, <1>8, <1>9 DEF Rank

(* Picked holds the elements at the indexes, each at the place of its index. *)
LEMMA PickedIs ==
    ASSUME NEW S, NEW s \in Seq(S), NEW I \in SUBSET DOMAIN s
    PROVE  /\ Cardinality(I) \in Nat
           /\ Picked(s, I) \in Seq(S)
           /\ DOMAIN Picked(s, I) = 1..Cardinality(I)
           /\ \A j \in 1..Cardinality(I) :
                 \E i \in I : Rank(I, i) = j /\ Picked(s, I)[j] = s[i]
           /\ \A i \in I : /\ Rank(I, i) \in 1..Cardinality(I)
                           /\ Picked(s, I)[Rank(I, i)] = s[i]
           /\ Picked(s, I) = <<>> <=> I = {}
<1> DEFINE n == Cardinality(I)
           P == Picked(s, I)
           At(j) == CHOOSE i \in I : Rank(I, i) = j
<1>1. I \subseteq Nat /\ IsFiniteSet(I)
  <2>1. Len(s) \in Nat /\ DOMAIN s = 1..Len(s)
    OBVIOUS
  <2>2. IsFiniteSet(1..Len(s))
    BY <2>1, FS_Interval
  <2> QED
    BY <2>1, <2>2, FS_Subset
<1>2. n \in Nat
  BY <1>1, FS_CardinalityType
<1>3. \A i \in I : Rank(I, i) \in 1..n
  BY <1>1, RankBounds
<1>4. \A j \in 1..n : At(j) \in I /\ Rank(I, At(j)) = j
  <2> TAKE j \in 1..n
  <2>1. \E i \in I : Rank(I, i) = j
    BY <1>1, RankSurjective
  <2> QED
    BY <2>1
<1>5. \A i \in I : At(Rank(I, i)) = i
  <2> TAKE i \in I
  <2>1. At(Rank(I, i)) \in I /\ Rank(I, At(Rank(I, i))) = Rank(I, i)
    BY <1>3, <1>4
  <2> HIDE DEF At
  <2> QED
    BY <2>1, <1>1, RankInjective
<1>6. P = [j \in 1..n |-> s[At(j)]]
  BY DEF Picked
<1>7. \A i \in DOMAIN s : s[i] \in S
  OBVIOUS
<1> HIDE DEF At, P
<1>8. P \in [1..n -> S]
  BY <1>4, <1>6, <1>7
<1>9. P \in Seq(S)
  BY <1>2, <1>8
<1>10. \A j \in 1..n : \E i \in I : Rank(I, i) = j /\ P[j] = s[i]
  BY <1>4, <1>6
<1>11. \A i \in I : P[Rank(I, i)] = s[i]
  BY <1>3, <1>5, <1>6
<1>12. P = <<>> <=> I = {}
  <2>1. P = <<>> <=> 1..n = {}
    <3>1. Len(P) = n
      BY <1>2, <1>6
    <3> QED
      BY <3>1, <1>2, <1>9
  <2>2. I = {} => n = 0
    BY FS_EmptySet
  <2>3. I # {} => 1..n # {}
    BY <1>3
  <2> QED
    BY <2>1, <2>2, <2>3, <1>2
<1> QED
  BY <1>2, <1>3, <1>6, <1>9, <1>10, <1>11, <1>12 DEF P

(* An element that is there once goes to the end of the others.            *)
LEMMA ToTheEnd ==
    ASSUME NEW S, NEW s \in Seq(S), IsInjective(s), NEW x \in S
    PROVE  /\ Append(Dropping(s, x), x) \in Seq(S)
           /\ IsInjective(Append(Dropping(s, x), x))
           /\ Range(Append(Dropping(s, x), x)) = Range(s) \cup {x}
<1> DEFINE I == {i \in DOMAIN s : s[i] # x}
           P == Picked(s, I)
           n == Cardinality(I)
           e == Append(P, x)
<1>1. I \in SUBSET DOMAIN s /\ \A i : i \in I <=> i \in DOMAIN s /\ s[i] # x
  OBVIOUS
<1>2. Dropping(s, x) = P
  BY DEF Dropping
<1> HIDE DEF I
<1>3. /\ n \in Nat /\ P \in Seq(S) /\ DOMAIN P = 1..n
      /\ \A j \in 1..n : \E i \in I : Rank(I, i) = j /\ P[j] = s[i]
      /\ \A i \in I : Rank(I, i) \in 1..n /\ P[Rank(I, i)] = s[i]
  BY <1>1, PickedIs
<1> HIDE DEF P, n
<1>4. Len(P) = n
  BY <1>3
<1>5. e \in Seq(S) /\ DOMAIN e = 1..(n + 1) /\ e[n + 1] = x /\ \A j \in 1..n : e[j] = P[j]
  BY <1>3, <1>4
<1> HIDE DEF e
<1>6. \A j \in 1..n : P[j] # x
  BY <1>1, <1>3
<1>7. \A j, k \in 1..n : P[j] = P[k] => j = k
  <2> TAKE j, k \in 1..n
  <2>1. PICK a \in I : Rank(I, a) = j /\ P[j] = s[a]
    BY <1>3
  <2>2. PICK b \in I : Rank(I, b) = k /\ P[k] = s[b]
    BY <1>3
  <2>3. s[a] = s[b] => a = b
    BY <1>1 DEF IsInjective
  <2> QED
    BY <2>1, <2>2, <2>3
<1>8. IsInjective(e)
  <2> SUFFICES ASSUME NEW j \in 1..(n + 1), NEW k \in 1..(n + 1), e[j] = e[k] PROVE j = k
    BY <1>5 DEF IsInjective
  <2>1. j \in 1..n \/ j = n + 1
    BY <1>3
  <2>2. k \in 1..n \/ k = n + 1
    BY <1>3
  <2> QED
    BY <2>1, <2>2, <1>5, <1>6, <1>7
<1>9. Range(e) = Range(s) \cup {x}
  <2>1. ASSUME NEW y \in Range(e) PROVE y \in Range(s) \cup {x}
    <3>1. PICK j \in 1..(n + 1) : y = e[j]
      BY <1>5 DEF Range
    <3>2. j \in 1..n \/ j = n + 1
      BY <1>3
    <3>3. CASE j = n + 1
      BY <3>1, <3>3, <1>5
    <3>4. CASE j \in 1..n
      <4>1. PICK i \in I : P[j] = s[i]
        BY <3>4, <1>3
      <4> QED
        BY <4>1, <3>1, <3>4, <1>1, <1>5 DEF Range
    <3> QED
      BY <3>2, <3>3, <3>4
  <2>2. ASSUME NEW y \in Range(s), y # x PROVE y \in Range(e)
    <3>1. PICK i \in DOMAIN s : y = s[i]
      BY DEF Range
    <3>2. i \in I
      BY <2>2, <3>1, <1>1
    <3>3. Rank(I, i) \in 1..n /\ e[Rank(I, i)] = y
      BY <3>1, <3>2, <1>3, <1>5
    <3>4. Rank(I, i) \in 1..(n + 1)
      BY <3>3, <1>3
    <3> QED
      BY <3>3, <3>4, <1>5 DEF Range
  <2>3. x \in Range(e)
    <3>1. n + 1 \in 1..(n + 1)
      BY <1>3
    <3> QED
      BY <3>1, <1>5 DEF Range
  <2> QED
    BY <2>1, <2>2, <2>3
<1> QED
  BY <1>2, <1>5, <1>8, <1>9 DEF e

(* The elements of a set, in some order.                                   *)
LEMMA InSomeOrder ==
    ASSUME NEW S, IsFiniteSet(S), S # {}
    PROVE  SetToSeq(S) \in Seq(S) \ {<<>>}
<1> DEFINE n == Cardinality(S)
<1>1. n \in Nat /\ ExistsBijection(1..n, S) /\ n # 0
  BY FS_CardinalityType, FS_EmptySet
<1>2. \E g \in [1..n -> S] : IsInjective(g)
  BY <1>1 DEF ExistsBijection, Bijection, Injection, IsInjective
<1>3. SetToSeq(S) \in [1..n -> S]
  BY <1>2 DEF SetToSeq
<1> HIDE DEF n
<1>4. SetToSeq(S) \in Seq(S) /\ Len(SetToSeq(S)) = n
  BY <1>1, <1>3
<1> QED
  BY <1>1, <1>4

LEMMA HeadAndTail ==
    ASSUME NEW S, NEW s \in Seq(S), s # <<>>
    PROVE  /\ Head(s) \in S /\ Head(s) \in Range(s)
           /\ Tail(s) \in Seq(S) /\ Range(Tail(s)) \subseteq Range(s)
           /\ \A i \in DOMAIN Tail(s) : i + 1 \in DOMAIN s /\ Tail(s)[i] = s[i + 1]
           /\ Head(s) = s[1] /\ 1 \in DOMAIN s
<1>1. /\ Len(s) \in Nat /\ Len(s) >= 1 /\ DOMAIN s = 1..Len(s)
      /\ Head(s) = s[1] /\ Tail(s) \in Seq(S) /\ \A i \in DOMAIN s : s[i] \in S
      /\ DOMAIN Tail(s) = 1..(Len(s) - 1)
      /\ \A i \in 1..(Len(s) - 1) : Tail(s)[i] = s[i + 1]
  OBVIOUS
<1>2. \A i \in DOMAIN Tail(s) : i + 1 \in DOMAIN s /\ Tail(s)[i] = s[i + 1]
  BY <1>1
<1>3. Range(Tail(s)) \subseteq Range(s)
  BY <1>2 DEF Range
<1> QED
  BY <1>1, <1>2, <1>3 DEF Range

-----------------------------------------------------------------------------
(* Scenarios: settlements, pushes and what the actors hold.                *)

(* What the worker listed before it waited for the prices has not been     *)
(* settled in its window since, but by itself and at the time of the list. *)
WorkerListed ==
    LET t == task["worker"] IN
    /\ t.at \in {"idle", "settle"}
    /\ t.at = "settle" => t.queue # <<>>
    /\ \A x \in Range(t.queue) :
          /\ x[2] \in Range(Windows)
          /\ \A o \in outcomes : o.branch = x[1] /\ o.window = x[2] => o.at = t.checked

(* What the monitor is to push has been triggered and not pushed.          *)
MonitorListed ==
    LET t == task["monitor"] IN
    /\ t.at \in {"idle", "settle", "push"}
    /\ t.at = "settle" => t.found # <<>>
    /\ t.at # "settle" => t.found = <<>>
    /\ t.at = "idle" => t.push = {}
    /\ \A r \in t.push : pushed[r] = 0 /\ link[r].status \notin {"NONE", "ACTIVE"}

ClientAsked(u) ==
    LET t == task[u] IN
    /\ t.at \in {"idle", "settle", "commit"}
    /\ t.at # "idle" => t.found # <<>>
    /\ t.at = "settle" => t.queue # <<>>
    /\ t.queue # <<>> => t.answer \in {"followed", "ignored"}

ScenarioInv ==
    /\ ScenarioTypeOK /\ order \in Seq(Branches)
    /\ WorkerListed /\ OnceAWindow
    /\ MonitorListed /\ PushedOnce
    /\ \A u \in Users : ClientAsked(u)

LEMMA ActorsApart ==
    /\ "worker" \in Actors /\ "monitor" \in Actors /\ Users \subseteq Actors
    /\ "worker" \notin Users /\ "monitor" \notin Users /\ "worker" # "monitor"
BY UsersAssumption DEF Actors

LEMMA IdleTask == Idle \in Tasks
<1>1. <<>> \in Seq(Branches \X (Range(Windows) \cup OtherWindows)) /\ <<>> \in Seq(Reminders)
  OBVIOUS
<1> QED
  BY <1>1, ScenarioBounds DEF Idle, Tasks, NoPrice, Answers, Times

LEMMA TaskOfOne ==
    ASSUME ScenarioTypeOK, NEW a \in Actors, NEW t \in Tasks, Becomes(a, t)
    PROVE  /\ task' \in [Actors -> Tasks]
           /\ task'[a] = t
           /\ \A c \in Actors \ {a} : task'[c] = task[c]
<1> USE DEF ScenarioTypeOK, Becomes
<1>1. task' \in [Actors -> Tasks]
  OBVIOUS
<1>2. task'[a] = t
  OBVIOUS
<1>3. \A c \in Actors \ {a} : task'[c] = task[c]
  OBVIOUS
<1> QED
  BY <1>1, <1>2, <1>3

LEMMA TaskParts ==
    ASSUME NEW t \in Tasks
    PROVE  /\ t.at \in {"idle", "settle", "push", "commit"}
           /\ t.queue \in Seq(Branches \X (Range(Windows) \cup OtherWindows))
           /\ t.found \in Seq(Reminders) /\ t.push \in SUBSET Reminders
           /\ t.checked \in Times /\ t.answer \in Answers \cup {"watch"}
BY DEF Tasks

(* The rows that settlements write.                                        *)
RowsTyped ==
    /\ status \in [Branches -> Final \cup {"NONE", "ACTIVE"}]
    /\ order \in Seq(Branches)
    /\ Range(order) = {b \in Branches : status[b] # "NONE"} /\ IsInjective(order)
    /\ outcomes \subseteq Outcomes
    /\ \A o, p \in outcomes :
          o.branch = p.branch /\ o.window = p.window /\ o.at = p.at => o = p

LEMMA BranchToTheEnd ==
    ASSUME RowsTyped, NEW b \in Branches, NEW new \in Final \cup {"ACTIVE"},
           status' = [status EXCEPT ![b] = new], order' = ToEnd(b)
    PROVE  /\ status' \in [Branches -> Final \cup {"NONE", "ACTIVE"}]
           /\ order' \in Seq(Branches)
           /\ Range(order') = {c \in Branches : status'[c] # "NONE"} /\ IsInjective(order')
           /\ \A c \in Branches : Exists(c) => Exists(c)'
<1>1. /\ order' \in Seq(Branches) /\ IsInjective(order')
      /\ Range(order') = Range(order) \cup {b}
  BY ToTheEnd DEF RowsTyped, ToEnd
<1>2. new # "NONE"
  BY DEF Final
<1>3. /\ status' \in [Branches -> Final \cup {"NONE", "ACTIVE"}]
      /\ status'[b] # "NONE" /\ \A c \in Branches \ {b} : status'[c] = status[c]
  BY <1>2 DEF RowsTyped
<1>4. \A c : c \in Range(order') <=> c \in Branches /\ status'[c] # "NONE"
  BY <1>1, <1>3 DEF RowsTyped
<1>5. \A c \in Branches : Exists(c) => Exists(c)'
  BY <1>3 DEF Exists
<1> QED
  BY <1>1, <1>3, <1>4, <1>5

(* One outcome is written and its branch goes to the end; an outcome of    *)
(* another branch, window or time stays.                                   *)
LEMMA SettleWrites ==
    ASSUME RowsTyped, NEW b \in Branches, NEW w \in Range(Windows) \cup OtherWindows,
           NEW time \in Times, NEW price, NEW expired, NEW followed \in Answers,
           Settle(b, w, time, price, expired, followed)
    PROVE  /\ RowsTyped' /\ UNCHANGED created
           /\ \A o \in outcomes' :
                 \/ o \in outcomes /\ ~(o.branch = b /\ o.window = w /\ o.at = time)
                 \/ o.branch = b /\ o.window = w /\ o.at = time /\ o.followed = followed
           /\ \A o \in outcomes :
                 ~(o.branch = b /\ o.window = w /\ o.at = time) => o \in outcomes'
           /\ \E o \in outcomes' :
                 o.branch = b /\ o.window = w /\ o.at = time /\ o.followed = followed
           /\ \A c \in Branches : Exists(c) => Exists(c)'
<1> DEFINE verdict == Verdict(b, price, expired)
           other == {o \in outcomes : o.branch # b \/ o.window # w \/ o.at # time}
           row == [ branch |-> b, window |-> w, at |-> time, verdict |-> verdict,
                    followed |-> followed ]
<1>1. /\ outcomes' = other \cup {row}
      /\ status' = [status EXCEPT ![b] = StatusOf(verdict)]
      /\ order' = ToEnd(b) /\ UNCHANGED created
  BY DEF Settle
<1>2. verdict \in Verdicts
  BY DEF Verdict, Verdicts
<1>3. row \in Outcomes
  BY <1>2 DEF Outcomes
<1>4. /\ row.branch = b /\ row.window = w /\ row.at = time /\ row.followed = followed
  OBVIOUS
<1>5. StatusOf(verdict) \in Final \cup {"ACTIVE"}
  BY <1>2 DEF StatusOf, Final
<1>6. /\ other \subseteq outcomes
      /\ \A o \in outcomes : o \in other <=> ~(o.branch = b /\ o.window = w /\ o.at = time)
  OBVIOUS
<1> HIDE DEF verdict, other, row
<1>7. outcomes' \subseteq Outcomes
  BY <1>1, <1>3, <1>6 DEF RowsTyped
<1>8. \A o, p \in outcomes' :
         o.branch = p.branch /\ o.window = p.window /\ o.at = p.at => o = p
  BY <1>1, <1>4, <1>6 DEF RowsTyped
<1>9. RowsTyped' /\ \A c \in Branches : Exists(c) => Exists(c)'
  BY <1>1, <1>5, <1>7, <1>8, BranchToTheEnd DEF RowsTyped
<1> QED
  BY <1>1, <1>4, <1>6, <1>9

(* No settlement takes an outcome away.                                    *)
Covered == \A o \in outcomes : \E p \in outcomes' : p.branch = o.branch /\ p.window = o.window

LEMMA SettleCovers ==
    ASSUME RowsTyped, NEW b \in Branches, NEW w \in Range(Windows) \cup OtherWindows,
           NEW time \in Times, NEW price, NEW expired, NEW followed \in Answers,
           Settle(b, w, time, price, expired, followed)
    PROVE  Covered
<1>1. /\ \A o \in outcomes :
            ~(o.branch = b /\ o.window = w /\ o.at = time) => o \in outcomes'
      /\ \E o \in outcomes' : o.branch = b /\ o.window = w
  BY SettleWrites
<1> QED
  BY <1>1 DEF Covered

LEMMA TypeIsRows ==
    ScenarioTypeOK /\ order \in Seq(Branches) <=>
    /\ RowsTyped
    /\ now \in Times
    /\ created \in [Branches -> Times]
    /\ link \in [Reminders -> Links]
    /\ pushed \in [Reminders -> Nat]
    /\ task \in [Actors -> Tasks]
    /\ byHand \in 0..MaxByHand
BY DEF ScenarioTypeOK, RowsTyped

(* A step after which no outcome of one of the worker's windows is new.    *)
LEMMA WorkerKept ==
    ASSUME WorkerListed, OnceAWindow, task'["worker"] = task["worker"],
           \A o \in outcomes' : o.window \in Range(Windows) => o \in outcomes
    PROVE  WorkerListed' /\ OnceAWindow'
<1>1. OnceAWindow'
  BY DEF OnceAWindow
<1>2. WorkerListed'
  BY DEF WorkerListed
<1> QED
  BY <1>1, <1>2

LEMMA WorkerIdle ==
    ASSUME OnceAWindow, task'["worker"] = Idle,
           \A o \in outcomes' : o.window \in Range(Windows) => o \in outcomes
    PROVE  WorkerListed' /\ OnceAWindow'
<1>1. OnceAWindow'
  BY DEF OnceAWindow
<1>2. Idle.at = "idle" /\ Range(Idle.queue) = {}
  BY DEF Idle, Range
<1>3. WorkerListed'
  BY <1>2 DEF WorkerListed
<1> QED
  BY <1>1, <1>3

(* A step that pushes nothing, and makes no reminder wait again.           *)
LEMMA MonitorKept ==
    ASSUME MonitorListed, PushedOnce, task'["monitor"] = task["monitor"], UNCHANGED pushed,
           \A r \in Reminders :
               link[r].status \notin {"NONE", "ACTIVE"} => link'[r].status \notin {"NONE", "ACTIVE"},
           task["monitor"] \in Tasks
    PROVE  MonitorListed' /\ PushedOnce'
<1>1. PushedOnce'
  BY DEF PushedOnce
<1>2. task["monitor"].push \in SUBSET Reminders
  BY TaskParts
<1>3. MonitorListed'
  BY <1>2 DEF MonitorListed
<1> QED
  BY <1>1, <1>3

LEMMA MonitorIdle ==
    ASSUME PushedOnce, task'["monitor"] = Idle, UNCHANGED <<link, pushed>>
    PROVE  MonitorListed' /\ PushedOnce'
<1>1. PushedOnce'
  BY DEF PushedOnce
<1>2. Idle.at = "idle" /\ Idle.found = <<>> /\ Idle.push = {}
  BY DEF Idle
<1>3. MonitorListed'
  BY <1>2 DEF MonitorListed
<1> QED
  BY <1>1, <1>3

LEMMA ClientIdle ==
    ASSUME NEW u \in Users, task'[u] = Idle
    PROVE  ClientAsked(u)'
BY DEF ClientAsked, Idle

LEMMA WindowsNamed ==
    /\ \A i \in DOMAIN Windows : Windows[i] \in Range(Windows)
    /\ DOMAIN Windows \subseteq Nat
    /\ "manual" \in OtherWindows /\ "ai_reminder_trigger" \in OtherWindows
    /\ "manual" \notin Range(Windows) /\ "ai_reminder_trigger" \notin Range(Windows)
<1>1. Windows \in Seq(Range(Windows))
  BY WindowsAssumption
<1>2. DOMAIN Windows = 1..Len(Windows) /\ Len(Windows) \in Nat
  BY <1>1
<1>3. "manual" \in OtherWindows /\ "ai_reminder_trigger" \in OtherWindows
  BY DEF OtherWindows
<1>4. "manual" \notin Range(Windows) /\ "ai_reminder_trigger" \notin Range(Windows)
  BY <1>3, WindowsAssumption
<1>5. \A i \in DOMAIN Windows : Windows[i] \in Range(Windows)
  BY DEF Range
<1> QED
  BY <1>2, <1>3, <1>4, <1>5

-----------------------------------------------------------------------------
(* Every step keeps ScenarioInv.                                           *)

LEMMA PagesScenario ==
    ASSUME ScenarioInv, (\E b \in Branches : SaveBranch(b)) \/ (\E r \in Reminders : CreateReminder(r))
    PROVE  ScenarioInv'
<1>1. CASE \E b \in Branches : SaveBranch(b)
  <2>1. PICK b \in Branches : SaveBranch(b)
    BY <1>1
  <2>2. /\ status' = [status EXCEPT ![b] = "ACTIVE"] /\ order' = ToEnd(b)
        /\ created' = [created EXCEPT ![b] = IF Exists(b) THEN @ ELSE now]
        /\ UNCHANGED <<now, outcomes, link, pushed, task>>
        /\ byHand' \in {byHand, byHand + 1} /\ (byHand' # byHand => byHand < MaxByHand)
    BY <2>1 DEF SaveBranch, ByHand
  <2>3. RowsTyped'
    <3>1. RowsTyped
      BY TypeIsRows DEF ScenarioInv
    <3> QED
      BY <2>2, <3>1, BranchToTheEnd DEF RowsTyped
  <2>4. created' \in [Branches -> Times] /\ byHand' \in 0..MaxByHand
    BY <2>2, ScenarioBounds DEF ScenarioInv, ScenarioTypeOK
  <2>5. ScenarioTypeOK' /\ order' \in Seq(Branches)
    BY <2>2, <2>3, <2>4 DEF ScenarioInv, ScenarioTypeOK, RowsTyped
  <2> QED
    BY <2>2, <2>5 DEF ScenarioInv, WorkerListed, OnceAWindow, MonitorListed, PushedOnce,
                      ClientAsked
<1>2. CASE \E r \in Reminders : CreateReminder(r)
  <2>1. PICK r \in Reminders : CreateReminder(r)
    BY <1>2
  <2>2. /\ link[r].status = "NONE" /\ link' = [link EXCEPT ![r].status = "ACTIVE"]
        /\ UNCHANGED <<now, branchVars, outcomes, pushed, task, byHand>>
    BY <2>1 DEF CreateReminder
  <2>3. link \in [Reminders -> Links]
    BY DEF ScenarioInv, ScenarioTypeOK
  <2>4. link' \in [Reminders -> Links] /\ \A q \in Reminders \ {r} : link'[q] = link[q]
    BY <2>2, <2>3 DEF Links
  <2>5. ScenarioTypeOK' /\ order' \in Seq(Branches)
    BY <2>2, <2>4 DEF ScenarioInv, ScenarioTypeOK, branchVars
  <2>6. MonitorListed' /\ PushedOnce'
    <3>1. task["monitor"] \in Tasks
      BY ActorsApart DEF ScenarioInv, ScenarioTypeOK
    <3>2. \A q \in Reminders :
            link[q].status \notin {"NONE", "ACTIVE"} => link'[q].status \notin {"NONE", "ACTIVE"}
      BY <2>2, <2>4
    <3> QED
      BY <2>2, <3>1, <3>2, MonitorKept DEF ScenarioInv
  <2> QED
    BY <2>2, <2>5, <2>6 DEF ScenarioInv, WorkerListed, OnceAWindow, ClientAsked
<1> QED
  BY <1>1, <1>2

LEMMA ByHandScenario ==
    ASSUME ScenarioInv, NEW u \in Users, NEW b \in Branches, SettleByHand(u, b)
    PROVE  ScenarioInv'
<1>1. /\ byHand < MaxByHand /\ byHand' = byHand + 1
      /\ UNCHANGED <<now, link, pushed, task>>
  BY DEF SettleByHand, ByHand
<1>2. PICK price \in Prices, expired \in BOOLEAN, followed \in Answers \ {"followed"} :
         Settle(b, "manual", now, price, expired, followed)
  BY DEF SettleByHand
<1>3. RowsTyped /\ now \in Times
  BY TypeIsRows, ScenarioBounds DEF ScenarioInv, ScenarioTypeOK
<1>4. /\ RowsTyped' /\ UNCHANGED created
      /\ \A o \in outcomes' : o \in outcomes \/ o.window = "manual"
  <2>1. "manual" \in Range(Windows) \cup OtherWindows /\ followed \in Answers
    BY WindowsNamed
  <2> QED
    BY <1>2, <1>3, <2>1, SettleWrites
<1>5. ScenarioTypeOK' /\ order' \in Seq(Branches)
  BY <1>1, <1>4, ScenarioBounds DEF ScenarioInv, ScenarioTypeOK, RowsTyped
<1>6. WorkerListed' /\ OnceAWindow'
  BY <1>1, <1>4, WindowsNamed, WorkerKept DEF ScenarioInv
<1> QED
  BY <1>1, <1>5, <1>6 DEF ScenarioInv, MonitorListed, PushedOnce, ClientAsked

(* The windows that are listed have no outcome.                            *)
LEMMA DueIsUnsettled ==
    ASSUME ScenarioInv
    PROVE  /\ DueBranches(Limit) \in Seq(Branches \X (Range(Windows) \cup OtherWindows))
           /\ \A x \in Range(DueBranches(Limit)) :
                 /\ x[2] \in Range(Windows)
                 /\ \A o \in outcomes : ~(o.branch = x[1] /\ o.window = x[2])
<1> DEFINE active == {i \in DOMAIN order : status[order[i]] = "ACTIVE"}
           due == {i \in active : Rank(active, i) <= Limit /\ DueWindows(order[i]) # {}}
           branches == Picked(order, due)
           n == Cardinality(due)
           listed == [i \in DOMAIN branches |->
                        <<branches[i], Windows[FirstOf(DueWindows(branches[i]))]>>]
<1>1. DueBranches(Limit) = listed
  BY DEF DueBranches
<1>2. due \in SUBSET DOMAIN order /\ \A i \in due : DueWindows(order[i]) # {}
  OBVIOUS
<1>3. order \in Seq(Branches)
  BY DEF ScenarioInv
<1> HIDE DEF due
<1>4. /\ n \in Nat /\ DOMAIN branches = 1..n /\ branches \in Seq(Branches)
      /\ \A j \in 1..n : \E i \in due : branches[j] = order[i]
  BY <1>2, <1>3, PickedIs
<1> HIDE DEF branches, n
<1>5. ASSUME NEW j \in 1..n
      PROVE  /\ branches[j] \in Branches
             /\ FirstOf(DueWindows(branches[j])) \in DueWindows(branches[j])
  <2>1. PICK i \in due : branches[j] = order[i]
    BY <1>4
  <2>2. DueWindows(branches[j]) # {}
    BY <1>2, <2>1
  <2>3. DueWindows(branches[j]) \subseteq Nat
    BY WindowsNamed DEF DueWindows, Unsettled
  <2> QED
    BY <1>4, <2>2, <2>3, LeastIndex
<1>6. ASSUME NEW j \in 1..n
      PROVE  /\ listed[j][1] \in Branches /\ listed[j][2] \in Range(Windows)
             /\ listed[j] \in Branches \X (Range(Windows) \cup OtherWindows)
             /\ \A o \in outcomes : ~(o.branch = listed[j][1] /\ o.window = listed[j][2])
  <2> DEFINE b == branches[j]
             i == FirstOf(DueWindows(b))
  <2>1. b \in Branches /\ i \in DueWindows(b)
    BY <1>5
  <2> HIDE DEF b, i
  <2>2. i \in DOMAIN Windows /\ \A o \in outcomes : ~(o.branch = b /\ o.window = Windows[i])
    BY <2>1 DEF DueWindows, Unsettled
  <2>3. Windows[i] \in Range(Windows)
    BY <2>2, WindowsNamed
  <2>4. listed[j] = <<b, Windows[i]>>
    BY <1>4 DEF b, i
  <2> QED
    BY <2>1, <2>2, <2>3, <2>4
<1>7. DOMAIN listed = 1..n /\ Range(listed) = {listed[j] : j \in 1..n}
  BY <1>4 DEF Range
<1>8. listed \in [1..n -> Branches \X (Range(Windows) \cup OtherWindows)]
  BY <1>4, <1>6
<1> HIDE DEF listed
<1>9. listed \in Seq(Branches \X (Range(Windows) \cup OtherWindows))
  BY <1>4, <1>8
<1> QED
  BY <1>1, <1>6, <1>7, <1>9

LEMMA ListedScenario ==
    ASSUME ScenarioInv, GetPrices
    PROVE  ScenarioInv'
<1> DEFINE list == DueBranches(Limit)
<1>1. /\ list # <<>> /\ UNCHANGED <<now, branchVars, outcomes, link, pushed, byHand>>
      /\ list \in Seq(Branches \X (Range(Windows) \cup OtherWindows))
      /\ \A x \in Range(list) :
            /\ x[2] \in Range(Windows)
            /\ \A o \in outcomes : ~(o.branch = x[1] /\ o.window = x[2])
  BY DueIsUnsettled DEF GetPrices
<1>2. PICK price \in Prices :
         Becomes("worker", [Idle EXCEPT !.at = "settle", !.price = price, !.checked = now,
                               !.queue = list])
  BY DEF GetPrices
<1> HIDE DEF list
<1> DEFINE t == [Idle EXCEPT !.at = "settle", !.price = price, !.checked = now, !.queue = list]
<1>3. /\ t.at = "settle" /\ t.queue = list /\ t.checked = now /\ t \in Tasks
  <2>1. now \in Times
    BY ScenarioBounds DEF ScenarioInv, ScenarioTypeOK
  <2>2. t \in Tasks
    BY <1>1, <2>1, IdleTask DEF Tasks
  <2> QED
    BY <2>2 DEF Idle
<1>4. Becomes("worker", t)
  BY <1>2
<1> HIDE DEF t
<1>5. /\ task' \in [Actors -> Tasks] /\ task'["worker"] = t
      /\ \A a \in Actors \ {"worker"} : task'[a] = task[a]
  BY <1>3, <1>4, ActorsApart, TaskOfOne DEF ScenarioInv
<1>6. ScenarioTypeOK' /\ order' \in Seq(Branches)
  BY <1>1, <1>5 DEF ScenarioInv, ScenarioTypeOK, branchVars
<1>7. WorkerListed' /\ OnceAWindow'
  BY <1>1, <1>3, <1>5 DEF ScenarioInv, WorkerListed, OnceAWindow
<1>8. MonitorListed' /\ PushedOnce'
  BY <1>1, <1>5, ActorsApart DEF ScenarioInv, MonitorListed, PushedOnce
<1>9. \A u \in Users : ClientAsked(u)'
  BY <1>5, ActorsApart DEF ScenarioInv, ClientAsked
<1> QED
  BY <1>6, <1>7, <1>8, <1>9 DEF ScenarioInv

(* An outcome of a window that was there already is written again, at its  *)
(* own time.                                                               *)
LEMMA DueSettles ==
    ASSUME ScenarioInv, SettleDue
    PROVE  LET t == task["worker"]
               b == Head(t.queue)[1]
               w == Head(t.queue)[2]
               next == IF Tail(t.queue) = <<>> THEN Idle ELSE [t EXCEPT !.queue = Tail(@)] IN
           /\ UNCHANGED <<now, created, link, pushed, byHand>> /\ RowsTyped'
           /\ b \in Branches /\ w \in Range(Windows)
           /\ \A o \in outcomes : o.branch = b /\ o.window = w => o.at = t.checked
           /\ \A o \in outcomes' :
                 \/ o \in outcomes /\ ~(o.branch = b /\ o.window = w /\ o.at = t.checked)
                 \/ o.branch = b /\ o.window = w /\ o.at = t.checked
           /\ \A o \in outcomes :
                 ~(o.branch = b /\ o.window = w /\ o.at = t.checked) => o \in outcomes'
           /\ Covered
           /\ \A c \in Branches : Exists(c) => Exists(c)'
           /\ task' \in [Actors -> Tasks] /\ task'["worker"] = next
           /\ \A a \in Actors \ {"worker"} : task'[a] = task[a]
           /\ next # Idle => /\ next.at = "settle" /\ next.checked = t.checked
                             /\ next.queue = Tail(t.queue) /\ next.queue # <<>>
           /\ Range(Tail(t.queue)) \subseteq Range(t.queue)
<1> DEFINE t == task["worker"]
           b == Head(t.queue)[1]
           w == Head(t.queue)[2]
           early == FALSE
           next == IF Tail(t.queue) = <<>> THEN Idle ELSE [t EXCEPT !.queue = Tail(@)]
<1> HIDE DEF t, b, w, early, next
<1>1. /\ t.at = "settle" /\ Settle(b, w, t.checked, t.price, early, "none")
      /\ Becomes("worker", next) /\ UNCHANGED <<now, link, pushed, byHand>>
  BY DEF SettleDue, TaskAt, t, b, w, early, next
<1>2. t \in Tasks /\ RowsTyped /\ t.queue # <<>>
  BY <1>1, ActorsApart, TypeIsRows DEF ScenarioInv, ScenarioTypeOK, WorkerListed, t
<1>3. \A x \in Range(t.queue) :
          /\ x[2] \in Range(Windows)
          /\ \A o \in outcomes : o.branch = x[1] /\ o.window = x[2] => o.at = t.checked
  BY DEF ScenarioInv, WorkerListed, t
<1>4. /\ t.queue \in Seq(Branches \X (Range(Windows) \cup OtherWindows))
      /\ t.checked \in Times
  BY <1>2, TaskParts
<1>5. /\ Head(t.queue) \in Branches \X (Range(Windows) \cup OtherWindows)
      /\ Head(t.queue) \in Range(t.queue)
      /\ Tail(t.queue) \in Seq(Branches \X (Range(Windows) \cup OtherWindows))
      /\ Range(Tail(t.queue)) \subseteq Range(t.queue)
  BY <1>2, <1>4, HeadAndTail
<1>6. /\ b \in Branches /\ w \in Range(Windows)
      /\ \A o \in outcomes : o.branch = b /\ o.window = w => o.at = t.checked
  BY <1>3, <1>5 DEF b, w
<1>7. /\ next \in Tasks
      /\ next # Idle => /\ next.at = t.at /\ next.checked = t.checked
                        /\ next.queue = Tail(t.queue) /\ next.queue # <<>>
  BY <1>2, <1>5, IdleTask DEF Tasks, next
<1>8. /\ RowsTyped' /\ UNCHANGED created
      /\ \A o \in outcomes' :
            \/ o \in outcomes /\ ~(o.branch = b /\ o.window = w /\ o.at = t.checked)
            \/ o.branch = b /\ o.window = w /\ o.at = t.checked
      /\ \A o \in outcomes :
            ~(o.branch = b /\ o.window = w /\ o.at = t.checked) => o \in outcomes'
      /\ Covered
      /\ \A c \in Branches : Exists(c) => Exists(c)'
  <2>1. w \in Range(Windows) \cup OtherWindows /\ "none" \in Answers
    BY <1>6 DEF Answers
  <2>2. Settle(b, w, t.checked, t.price, early, "none")
    BY <1>1
  <2> QED
    BY <1>2, <1>4, <1>6, <2>1, <2>2, SettleWrites, SettleCovers
<1>9. /\ task' \in [Actors -> Tasks] /\ task'["worker"] = next
      /\ \A a \in Actors \ {"worker"} : task'[a] = task[a]
  <2>1. Becomes("worker", next)
    BY <1>1
  <2>2. next \in Tasks /\ "worker" \in Actors /\ ScenarioTypeOK
    BY <1>7, ActorsApart DEF ScenarioInv
  <2> QED
    BY <2>1, <2>2, TaskOfOne
<1> QED
  BY <1>1, <1>5, <1>6, <1>7, <1>8, <1>9 DEF t, b, w, next

LEMMA SettledScenario ==
    ASSUME ScenarioInv, SettleDue
    PROVE  ScenarioInv'
<1> DEFINE t == task["worker"]
           b == Head(t.queue)[1]
           w == Head(t.queue)[2]
           next == IF Tail(t.queue) = <<>> THEN Idle ELSE [t EXCEPT !.queue = Tail(@)]
<1>1. /\ UNCHANGED <<now, created, link, pushed, byHand>> /\ RowsTyped'
      /\ \A o \in outcomes : o.branch = b /\ o.window = w => o.at = t.checked
      /\ \A o \in outcomes' :
            \/ o \in outcomes /\ ~(o.branch = b /\ o.window = w /\ o.at = t.checked)
            \/ o.branch = b /\ o.window = w /\ o.at = t.checked
      /\ task' \in [Actors -> Tasks] /\ task'["worker"] = next
      /\ \A a \in Actors \ {"worker"} : task'[a] = task[a]
      /\ next # Idle => /\ next.at = "settle" /\ next.checked = t.checked
                        /\ next.queue = Tail(t.queue) /\ next.queue # <<>>
      /\ Range(Tail(t.queue)) \subseteq Range(t.queue)
  BY DueSettles
<1>2. \A x \in Range(t.queue) :
          /\ x[2] \in Range(Windows)
          /\ \A o \in outcomes : o.branch = x[1] /\ o.window = x[2] => o.at = t.checked
  BY DEF ScenarioInv, WorkerListed
<1> HIDE DEF t, b, w, next
<1>3. ScenarioTypeOK' /\ order' \in Seq(Branches)
  BY <1>1 DEF ScenarioInv, ScenarioTypeOK, RowsTyped
<1>4. OnceAWindow'
  <2> SUFFICES ASSUME NEW o \in outcomes', NEW p \in outcomes',
                      o.branch = p.branch, o.window = p.window, o.window \in Range(Windows)
               PROVE  o = p
    BY DEF OnceAWindow
  <2>1. CASE o.branch = b /\ o.window = w
    <3>1. o.at = t.checked /\ p.at = t.checked
      BY <2>1, <1>1
    <3> QED
      BY <3>1, <1>1 DEF RowsTyped
  <2>2. CASE ~(o.branch = b /\ o.window = w)
    <3>1. o \in outcomes /\ p \in outcomes
      BY <2>2, <1>1
    <3> QED
      BY <3>1 DEF ScenarioInv, OnceAWindow
  <2> QED
    BY <2>1, <2>2
<1>5. WorkerListed'
  <2>1. CASE next = Idle
    <3>1. Idle.at = "idle" /\ Range(Idle.queue) = {}
      BY DEF Idle, Range
    <3> QED
      BY <2>1, <3>1, <1>1 DEF WorkerListed
  <2>2. CASE next # Idle
    <3>1. \A x \in Range(next.queue) :
             /\ x[2] \in Range(Windows)
             /\ \A o \in outcomes' : o.branch = x[1] /\ o.window = x[2] => o.at = t.checked
      BY <2>2, <1>1, <1>2
    <3> QED
      BY <2>2, <3>1, <1>1 DEF WorkerListed
  <2> QED
    BY <2>1, <2>2
<1>6. MonitorListed' /\ PushedOnce'
  BY <1>1, ActorsApart DEF ScenarioInv, MonitorListed, PushedOnce
<1>7. \A u \in Users : ClientAsked(u)'
  BY <1>1, ActorsApart DEF ScenarioInv, ClientAsked
<1> QED
  BY <1>3, <1>4, <1>5, <1>6, <1>7 DEF ScenarioInv

LEMMA ScannedScenario ==
    ASSUME ScenarioInv, Scan
    PROVE  ScenarioInv'
<1>1. PICK price \in Prices :
         LET hit == {r \in Reminders : Waits(r) /\ Reached(r, price)} IN
         /\ hit # {}
         /\ link' = [r \in Reminders |->
                        IF r \in hit THEN [status |-> "TRIGGERED", at |-> now] ELSE link[r]]
         /\ Becomes("monitor", [Idle EXCEPT !.at = "settle", !.price = price, !.checked = now,
                                   !.found = SetToSeq(hit), !.push = hit])
  BY DEF Scan
<1> DEFINE hit == {r \in Reminders : Waits(r) /\ Reached(r, price)}
           list == SetToSeq(hit)
           t == [Idle EXCEPT !.at = "settle", !.price = price, !.checked = now,
                    !.found = list, !.push = hit]
<1>2. hit \in SUBSET Reminders /\ \A r \in hit : link[r].status = "ACTIVE"
  BY DEF Waits
<1> HIDE DEF hit, list, t
<1>3. /\ hit # {}
      /\ link' = [r \in Reminders |->
                     IF r \in hit THEN [status |-> "TRIGGERED", at |-> now] ELSE link[r]]
      /\ Becomes("monitor", t)
      /\ UNCHANGED <<now, branchVars, outcomes, pushed, byHand>>
  BY <1>1 DEF hit, list, t, Scan
<1>4. list \in Seq(Reminders) /\ list # <<>>
  <2>1. IsFiniteSet(hit)
    BY <1>2, RemindersAssumption, FS_Subset
  <2>2. list \in Seq(hit) \ {<<>>}
    BY <1>3, <2>1, InSomeOrder DEF list
  <2> QED
    BY <1>2, <2>2
<1>5. now \in Times /\ link \in [Reminders -> Links] /\ pushed \in [Reminders -> Nat]
  BY ScenarioBounds DEF ScenarioInv, ScenarioTypeOK
<1>6. t \in Tasks
  BY <1>2, <1>4, <1>5, IdleTask DEF t, Tasks
<1>7. t.at = "settle" /\ t.found = list /\ t.push = hit
  BY DEF t, Idle
<1>8. /\ task' \in [Actors -> Tasks] /\ task'["monitor"] = t
      /\ \A a \in Actors \ {"monitor"} : task'[a] = task[a]
  <2>1. "monitor" \in Actors /\ ScenarioTypeOK
    BY ActorsApart DEF ScenarioInv
  <2> QED
    BY <1>3, <1>6, <2>1, TaskOfOne
<1>9. link' \in [Reminders -> Links]
  BY <1>3, <1>5 DEF Links
<1>10. \A r \in Reminders : /\ r \in hit => link'[r].status = "TRIGGERED"
                            /\ r \notin hit => link'[r] = link[r]
  BY <1>3
<1>11. ScenarioTypeOK' /\ order' \in Seq(Branches)
  BY <1>3, <1>8, <1>9 DEF ScenarioInv, ScenarioTypeOK, branchVars
<1>12. PushedOnce'
  BY <1>3, <1>10 DEF ScenarioInv, PushedOnce
<1>13. \A r \in hit : pushed[r] = 0
  BY <1>2, <1>5 DEF ScenarioInv, PushedOnce
<1>14. MonitorListed'
  BY <1>2, <1>3, <1>4, <1>7, <1>8, <1>10, <1>13 DEF MonitorListed
<1>15. WorkerListed' /\ OnceAWindow' /\ \A u \in Users : ClientAsked(u)'
  BY <1>3, <1>8, ActorsApart DEF ScenarioInv, WorkerListed, OnceAWindow, ClientAsked
<1> QED
  BY <1>11, <1>12, <1>14, <1>15 DEF ScenarioInv

(* What _find_branch_for_reminder finds.                                   *)
LEMMA FoundIs ==
    ASSUME NEW r \in Reminders, NEW settledToo
    PROVE  /\ Candidates[r] \in Seq(Branches) /\ Range(Candidates[r]) \subseteq Branches
           /\ Found(r, settledToo) \in Seq(Branches)
           /\ Found(r, settledToo) # <<>> =>
                 /\ Head(Found(r, settledToo)) \in Range(Candidates[r])
                 /\ Head(Found(r, settledToo)) \in Branches
           /\ Found(r, TRUE) = <<>> => \A b \in Range(Candidates[r]) : ~Exists(b)
<1> DEFINE found(b) == IF settledToo THEN Exists(b) ELSE status[b] = "ACTIVE"
           I == {i \in DOMAIN Candidates[r] : found(Candidates[r][i])}
           P == Picked(Candidates[r], I)
<1>1. Candidates[r] \in Seq(Branches) /\ Range(Candidates[r]) \subseteq Branches
  <2>1. Candidates[r] \in Seq(Branches)
    BY RemindersAssumption
  <2> QED
    BY <2>1 DEF Range
<1>2. Found(r, settledToo) = P
  BY DEF Found
<1>3. I \in SUBSET DOMAIN Candidates[r]
  OBVIOUS
<1> HIDE DEF I
<1>4. /\ Cardinality(I) \in Nat /\ P \in Seq(Branches) /\ DOMAIN P = 1..Cardinality(I)
      /\ \A j \in 1..Cardinality(I) : \E i \in I : P[j] = Candidates[r][i]
  BY <1>1, <1>3, PickedIs
<1> HIDE DEF P
<1>5. ASSUME P # <<>> PROVE Head(P) \in Range(Candidates[r])
  <2>1. Head(P) = P[1] /\ 1 \in DOMAIN P
    BY <1>4, <1>5, HeadAndTail
  <2>2. PICK i \in I : P[1] = Candidates[r][i]
    BY <2>1, <1>4
  <2> QED
    BY <2>1, <2>2, <1>3 DEF Range
<1>6. ASSUME Found(r, TRUE) = <<>>, NEW b \in Range(Candidates[r]) PROVE ~Exists(b)
  <2> DEFINE J == {i \in DOMAIN Candidates[r] :
                     IF TRUE THEN Exists(Candidates[r][i]) ELSE status[Candidates[r][i]] = "ACTIVE"}
  <2>1. Found(r, TRUE) = Picked(Candidates[r], J)
    BY DEF Found
  <2>2. PICK i \in DOMAIN Candidates[r] : b = Candidates[r][i]
    BY DEF Range
  <2>3. J \in SUBSET DOMAIN Candidates[r] /\ (Exists(b) => i \in J)
    BY <2>2
  <2> HIDE DEF J
  <2>4. J = {}
    BY <1>1, <1>6, <2>1, <2>3, PickedIs
  <2> QED
    BY <2>3, <2>4
<1> QED
  BY <1>1, <1>2, <1>4, <1>5, <1>6

(* The monitor goes on to the next reminder; one branch of this one's may  *)
(* have been settled.                                                      *)
LEMMA AutoSettles ==
    ASSUME ScenarioInv, AutoSettle
    PROVE  LET r == Head(task["monitor"].found) IN
           /\ task["monitor"].at = "settle" /\ task["monitor"].found # <<>>
           /\ r \in Reminders /\ r \in Range(task["monitor"].found)
           /\ UNCHANGED <<now, created, link, pushed>>
           /\ byHand' \in 0..MaxByHand /\ RowsTyped'
           /\ task' \in [Actors -> Tasks]
           /\ task'["monitor"] = NextFound
           /\ \A a \in Actors \ {"monitor"} : task'[a] = task[a]
           /\ \A o \in outcomes' : o \in outcomes \/ o.window = "ai_reminder_trigger"
           /\ Covered
           /\ \A b \in Branches : Exists(b) => Exists(b)'
<1> DEFINE t == task["monitor"]
           r == Head(t.found)
           found == Found(r, FALSE)
           early == FALSE
<1> HIDE DEF t, r, found, early
<1>1. /\ t.at = "settle" /\ UNCHANGED <<now, link, pushed>> /\ Becomes("monitor", NextFound)
      /\ \/ /\ found # <<>>
            /\ Settle(Head(found), "ai_reminder_trigger", t.checked, t.price, early, "none")
            /\ UNCHANGED byHand
         \/ /\ byHand' = byHand \/ (byHand < MaxByHand /\ byHand' = byHand + 1)
            /\ UNCHANGED <<branchVars, outcomes>>
  <2>1. t.at = "settle" /\ UNCHANGED <<now, link, pushed>>
    BY DEF AutoSettle, TaskAt, t
  <2>2. \/ /\ found # <<>>
           /\ Settle(Head(found), "ai_reminder_trigger", t.checked, t.price, early, "none")
           /\ Becomes("monitor", NextFound)
           /\ UNCHANGED byHand
        \/ /\ IF found = <<>> THEN UNCHANGED byHand ELSE ByHand
           /\ Becomes("monitor", NextFound)
           /\ UNCHANGED <<branchVars, outcomes>>
    BY DEF AutoSettle, t, r, found, early
  <2> QED
    BY <2>1, <2>2 DEF ByHand
<1>2. t \in Tasks /\ t.found # <<>> /\ RowsTyped
  BY <1>1, ActorsApart, TypeIsRows DEF ScenarioInv, ScenarioTypeOK, MonitorListed, t
<1>3. t.found \in Seq(Reminders) /\ t.checked \in Times
  BY <1>2, TaskParts
<1>4. r \in Reminders /\ r \in Range(t.found) /\ Tail(t.found) \in Seq(Reminders)
  BY <1>2, <1>3, HeadAndTail DEF r
<1>5. NextFound \in Tasks
  BY <1>2, <1>4 DEF NextFound, Tasks, t
<1>6. /\ task' \in [Actors -> Tasks] /\ task'["monitor"] = NextFound
      /\ \A a \in Actors \ {"monitor"} : task'[a] = task[a]
  <2>1. "monitor" \in Actors /\ ScenarioTypeOK
    BY ActorsApart DEF ScenarioInv
  <2> QED
    BY <1>1, <1>5, <2>1, TaskOfOne
<1>7. byHand' \in 0..MaxByHand
  BY <1>1, ScenarioBounds DEF ScenarioInv, ScenarioTypeOK
<1>8. /\ RowsTyped' /\ UNCHANGED created
      /\ \A o \in outcomes' : o \in outcomes \/ o.window = "ai_reminder_trigger"
      /\ Covered
      /\ \A b \in Branches : Exists(b) => Exists(b)'
  <2>1. CASE /\ found # <<>>
             /\ Settle(Head(found), "ai_reminder_trigger", t.checked, t.price, early, "none")
    <3> DEFINE b == Head(found)
    <3>1. b \in Branches /\ b \in Range(Candidates[r])
      BY <2>1, <1>4, FoundIs DEF found
    <3> HIDE DEF b
    <3>2. "ai_reminder_trigger" \in Range(Windows) \cup OtherWindows /\ "none" \in Answers
      BY WindowsNamed DEF Answers
    <3>3. Settle(b, "ai_reminder_trigger", t.checked, t.price, early, "none")
      BY <2>1 DEF b
    <3>4. /\ RowsTyped' /\ UNCHANGED created
          /\ \A o \in outcomes' :
                o \in outcomes \/ (o.branch = b /\ o.window = "ai_reminder_trigger")
          /\ Covered
          /\ \A c \in Branches : Exists(c) => Exists(c)'
      BY <1>2, <1>3, <3>1, <3>2, <3>3, SettleWrites, SettleCovers
    <3> QED
      BY <3>1, <3>4
  <2>2. CASE UNCHANGED <<branchVars, outcomes>>
    BY <2>2, <1>2 DEF branchVars, RowsTyped, Exists, Covered
  <2> QED
    BY <2>1, <2>2, <1>1
<1> QED
  BY <1>1, <1>2, <1>4, <1>6, <1>7, <1>8 DEF t, r

LEMMA AutoSettledScenario ==
    ASSUME ScenarioInv, AutoSettle
    PROVE  ScenarioInv'
<1> DEFINE t == task["monitor"]
<1>1. /\ t.at = "settle" /\ t.found # <<>>
      /\ UNCHANGED <<now, created, link, pushed>> /\ byHand' \in 0..MaxByHand /\ RowsTyped'
      /\ task' \in [Actors -> Tasks] /\ task'["monitor"] = NextFound
      /\ \A a \in Actors \ {"monitor"} : task'[a] = task[a]
      /\ \A o \in outcomes' : o \in outcomes \/ o.window = "ai_reminder_trigger"
  BY AutoSettles
<1>2. ScenarioTypeOK' /\ order' \in Seq(Branches)
  BY <1>1 DEF ScenarioInv, ScenarioTypeOK, RowsTyped
<1>3. WorkerListed' /\ OnceAWindow'
  <2>1. \A o \in outcomes' : o.window \in Range(Windows) => o \in outcomes
    BY <1>1, WindowsNamed
  <2> QED
    BY <1>1, <2>1, ActorsApart, WorkerKept DEF ScenarioInv
<1>4. /\ NextFound.push = t.push /\ NextFound.found = Tail(t.found)
      /\ NextFound.at = IF Tail(t.found) = <<>> THEN "push" ELSE "settle"
  <2>1. t \in Tasks
    BY ActorsApart DEF ScenarioInv, ScenarioTypeOK
  <2> QED
    BY <2>1 DEF NextFound, Tasks
<1>5. MonitorListed' /\ PushedOnce'
  BY <1>1, <1>4 DEF ScenarioInv, MonitorListed, PushedOnce
<1>6. \A u \in Users : ClientAsked(u)'
  BY <1>1, ActorsApart DEF ScenarioInv, ClientAsked
<1> QED
  BY <1>2, <1>3, <1>5, <1>6 DEF ScenarioInv

LEMMA PushedScenario ==
    ASSUME ScenarioInv, Push
    PROVE  ScenarioInv'
<1>1. /\ pushed' = [r \in Reminders |->
                      IF r \in task["monitor"].push THEN pushed[r] + 1 ELSE pushed[r]]
      /\ Becomes("monitor", Idle) /\ UNCHANGED <<now, branchVars, outcomes, link, byHand>>
  BY DEF Push
<1>2. /\ task' \in [Actors -> Tasks] /\ task'["monitor"] = Idle
      /\ \A a \in Actors \ {"monitor"} : task'[a] = task[a]
  <2>1. "monitor" \in Actors /\ ScenarioTypeOK
    BY ActorsApart DEF ScenarioInv
  <2> QED
    BY <1>1, <2>1, IdleTask, TaskOfOne
<1>3. pushed \in [Reminders -> Nat] /\ pushed' \in [Reminders -> Nat]
  BY <1>1 DEF ScenarioInv, ScenarioTypeOK
<1>4. \A r \in Reminders : \/ pushed'[r] = pushed[r]
                           \/ /\ pushed'[r] = 1
                              /\ link[r].status \notin {"NONE", "ACTIVE"}
  <2> TAKE r \in Reminders
  <2>1. ASSUME r \in task["monitor"].push
        PROVE  pushed[r] = 0 /\ link[r].status \notin {"NONE", "ACTIVE"}
    BY <2>1 DEF ScenarioInv, MonitorListed
  <2>2. pushed'[r] = IF r \in task["monitor"].push THEN pushed[r] + 1 ELSE pushed[r]
    BY <1>1
  <2> QED
    BY <2>1, <2>2
<1>5. PushedOnce'
  BY <1>1, <1>3, <1>4 DEF ScenarioInv, PushedOnce
<1>6. ScenarioTypeOK' /\ order' \in Seq(Branches)
  BY <1>1, <1>2, <1>3 DEF ScenarioInv, ScenarioTypeOK, branchVars
<1>7. MonitorListed'
  BY <1>2 DEF MonitorListed, Idle
<1>8. WorkerListed' /\ OnceAWindow' /\ \A u \in Users : ClientAsked(u)'
  BY <1>1, <1>2, ActorsApart DEF ScenarioInv, WorkerListed, OnceAWindow, ClientAsked
<1> QED
  BY <1>5, <1>6, <1>7, <1>8 DEF ScenarioInv

(* What a client reads and then acts on.                                   *)
LEMMA AckReads ==
    ASSUME ScenarioInv, NEW u \in Users, ReadAck(u)
    PROVE  /\ UNCHANGED <<now, branchVars, outcomes, link, pushed, byHand>>
           /\ task' \in [Actors -> Tasks]
           /\ \A a \in Actors \ {u} : task'[a] = task[a]
           /\ \E r \in Reminders :
                 /\ link[r].status = "TRIGGERED"
                 /\ task'[u].found = <<r>> /\ task'[u].at \in {"settle", "commit"}
                 /\ task'[u].answer \in {"followed", "ignored", "watch"}
                 /\ \/ /\ task'[u].queue = <<>> /\ task'[u].at = "commit"
                       /\ task'[u].answer = "watch" \/ Found(r, TRUE) = <<>>
                    \/ /\ task'[u].queue = <<<<Head(Found(r, TRUE)), "ai_reminder_trigger">>>>
                       /\ task'[u].answer # "watch" /\ Found(r, TRUE) # <<>>
                       /\ task'[u].at = "commit" => Latest(Head(Found(r, TRUE))) # {}
<1>1. PICK r \in Reminders, answer \in {"followed", "ignored", "watch"} :
         LET branch == Found(r, TRUE)
             open == answer # "watch" /\ branch # <<>> /\ Latest(Head(branch)) = {} IN
         /\ link[r].status = "TRIGGERED"
         /\ Becomes(u, [Idle EXCEPT
               !.at = IF open THEN "settle" ELSE "commit", !.answer = answer,
               !.found = <<r>>,
               !.queue = IF answer = "watch" \/ branch = <<>> THEN <<>>
                         ELSE <<<<Head(branch), "ai_reminder_trigger">>>>])
  BY DEF ReadAck
<1> DEFINE branch == Found(r, TRUE)
           step == IF answer # "watch" /\ branch # <<>> /\ Latest(Head(branch)) = {}
                   THEN "settle" ELSE "commit"
           queue == IF answer = "watch" \/ branch = <<>> THEN <<>>
                    ELSE <<<<Head(branch), "ai_reminder_trigger">>>>
           t == [Idle EXCEPT !.at = step, !.answer = answer, !.found = <<r>>, !.queue = queue]
<1> HIDE DEF branch, step, queue, t
<1>2. /\ link[r].status = "TRIGGERED"
      /\ Becomes(u, t)
  BY <1>1 DEF branch, step, queue, t
<1>3. queue \in Seq(Branches \X (Range(Windows) \cup OtherWindows))
  <2>1. CASE branch # <<>>
    <3>1. Head(branch) \in Branches
      BY <2>1, FoundIs DEF branch
    <3>2. <<Head(branch), "ai_reminder_trigger">> \in Branches \X (Range(Windows) \cup OtherWindows)
      BY <3>1, WindowsNamed
    <3> QED
      BY <3>2 DEF queue
  <2>2. CASE branch = <<>>
    BY <2>2 DEF queue
  <2> QED
    BY <2>1, <2>2
<1>4. t \in Tasks
  <2>1. step \in {"idle", "settle", "push", "commit"}
    BY DEF step
  <2>2. <<r>> \in Seq(Reminders) /\ answer \in Answers \cup {"watch"}
    BY DEF Answers
  <2> QED
    BY <1>3, <2>1, <2>2, IdleTask DEF t, Tasks
<1>5. t.at = step /\ t.answer = answer /\ t.found = <<r>> /\ t.queue = queue
  BY DEF t, Idle
<1>6. /\ task' \in [Actors -> Tasks] /\ task'[u] = t
      /\ \A a \in Actors \ {u} : task'[a] = task[a]
  <2>1. u \in Actors /\ ScenarioTypeOK
    BY ActorsApart DEF ScenarioInv
  <2> QED
    BY <1>2, <1>4, <2>1, TaskOfOne
<1>7. step \in {"settle", "commit"}
  BY DEF step
<1>8. \/ /\ queue = <<>> /\ step = "commit"
         /\ answer = "watch" \/ branch = <<>>
      \/ /\ queue = <<<<Head(branch), "ai_reminder_trigger">>>>
         /\ answer # "watch" /\ branch # <<>> /\ (step = "commit" => Latest(Head(branch)) # {})
  BY DEF step, queue
<1>9. UNCHANGED <<now, branchVars, outcomes, link, pushed, byHand>>
  BY DEF ReadAck
<1>10. /\ task'[u].found = <<r>> /\ task'[u].at = step
       /\ task'[u].answer = answer /\ task'[u].queue = queue
  BY <1>5, <1>6
<1>11. task'[u].at \in {"settle", "commit"} /\ task'[u].answer \in {"followed", "ignored", "watch"}
  BY <1>7, <1>10
<1>12. \/ /\ task'[u].queue = <<>> /\ task'[u].at = "commit"
          /\ task'[u].answer = "watch" \/ Found(r, TRUE) = <<>>
       \/ /\ task'[u].queue = <<<<Head(Found(r, TRUE)), "ai_reminder_trigger">>>>
          /\ task'[u].answer # "watch" /\ Found(r, TRUE) # <<>>
          /\ task'[u].at = "commit" => Latest(Head(Found(r, TRUE))) # {}
  BY <1>8, <1>10 DEF branch
<1> QED
  BY <1>2, <1>6, <1>9, <1>10, <1>11, <1>12

(* The settlement of a branch that the client found without an outcome.    *)
LEMMA AckSettles ==
    ASSUME ScenarioInv, NEW u \in Users, SettleAck(u)
    PROVE  LET b == Head(task[u].queue)[1] IN
           /\ task[u].at = "settle" /\ b \in Branches
           /\ UNCHANGED <<now, created, link, pushed, byHand>> /\ RowsTyped'
           /\ task' \in [Actors -> Tasks]
           /\ task'[u] = [task[u] EXCEPT !.at = "commit"]
           /\ \A a \in Actors \ {u} : task'[a] = task[a]
           /\ \A o \in outcomes' : o \in outcomes \/ o.window = "ai_reminder_trigger"
           /\ \A o \in outcomes :
                 o \in outcomes' \/ (o.window = "ai_reminder_trigger" /\ o.branch = b)
           /\ \E o \in outcomes' : o.window = "ai_reminder_trigger" /\ o.branch = b
           /\ \A c \in Branches : Exists(c) => Exists(c)'
<1> DEFINE t == task[u]
           r == Head(t.found)
           b == Head(t.queue)[1]
           price == IF r \in Upward THEN Above ELSE Below
           early == FALSE
           next == [t EXCEPT !.at = "commit"]
<1> HIDE DEF t, r, b, price, early, next
<1>1. /\ t.at = "settle" /\ UNCHANGED <<now, link, pushed, byHand>> /\ Becomes(u, next)
      /\ Settle(b, "ai_reminder_trigger", link[r].at, price, early, t.answer)
  BY DEF SettleAck, TaskAt, t, r, b, price, early, next
<1>2. /\ t \in Tasks /\ RowsTyped /\ t.found # <<>> /\ t.queue # <<>>
      /\ t.answer \in {"followed", "ignored"}
  BY <1>1, ActorsApart, TypeIsRows DEF ScenarioInv, ScenarioTypeOK, ClientAsked, t
<1>3. r \in Reminders /\ b \in Branches
  <2>1. /\ t.found \in Seq(Reminders)
        /\ t.queue \in Seq(Branches \X (Range(Windows) \cup OtherWindows))
    BY <1>2, TaskParts
  <2>2. /\ Head(t.found) \in Reminders
        /\ Head(t.queue) \in Branches \X (Range(Windows) \cup OtherWindows)
    BY <1>2, <2>1, HeadAndTail
  <2> QED
    BY <2>2 DEF r, b
<1>4. link[r].at \in Times
  BY <1>3 DEF ScenarioInv, ScenarioTypeOK, Links
<1>5. next \in Tasks
  BY <1>2 DEF next, Tasks
<1>6. /\ task' \in [Actors -> Tasks] /\ task'[u] = next
      /\ \A a \in Actors \ {u} : task'[a] = task[a]
  <2>1. u \in Actors /\ ScenarioTypeOK
    BY ActorsApart DEF ScenarioInv
  <2> QED
    BY <1>1, <1>5, <2>1, TaskOfOne
<1>7. /\ RowsTyped' /\ UNCHANGED created
      /\ \A o \in outcomes' :
            \/ o \in outcomes
            \/ o.branch = b /\ o.window = "ai_reminder_trigger"
      /\ \A o \in outcomes :
            ~(o.branch = b /\ o.window = "ai_reminder_trigger" /\ o.at = link[r].at)
                => o \in outcomes'
      /\ \E o \in outcomes' : o.branch = b /\ o.window = "ai_reminder_trigger"
      /\ \A c \in Branches : Exists(c) => Exists(c)'
  <2>1. "ai_reminder_trigger" \in Range(Windows) \cup OtherWindows /\ t.answer \in Answers
    BY <1>2, WindowsNamed DEF Answers
  <2> QED
    BY <1>1, <1>2, <1>3, <1>4, <2>1, SettleWrites
<1> QED
  BY <1>1, <1>3, <1>6, <1>7 DEF t, b, next

(* The answer is written on the latest outcome of the branch.              *)
LEMMA AckCommits ==
    ASSUME ScenarioInv, NEW u \in Users, CommitAck(u)
    PROVE  LET t == task[u]
               r == Head(t.found)
               mine == IF t.queue = <<>> THEN {} ELSE Latest(Head(t.queue)[1]) IN
           /\ t.at = "commit" /\ r \in Reminders
           /\ t.queue # <<>> => t.answer \in {"followed", "ignored"}
           /\ UNCHANGED <<now, branchVars, pushed, byHand>>
           /\ task' \in [Actors -> Tasks] /\ task'[u] = Idle
           /\ \A a \in Actors \ {u} : task'[a] = task[a]
           /\ \/ link[r].status # "TRIGGERED" /\ UNCHANGED <<outcomes, link>>
              \/ /\ link[r].status = "TRIGGERED"
                 /\ outcomes' = (outcomes \ mine) \cup {[o EXCEPT !.followed = t.answer] : o \in mine}
                 /\ link' = [link EXCEPT ![r].status = Acked(t.answer)]
<1> DEFINE t == task[u]
           r == Head(t.found)
<1>1. t \in Tasks /\ t.at = "commit" /\ t.found # <<>>
  BY ActorsApart DEF CommitAck, TaskAt, ScenarioInv, ScenarioTypeOK, ClientAsked
<1>2. r \in Reminders
  <2>1. t.found \in Seq(Reminders)
    BY <1>1, TaskParts
  <2> QED
    BY <1>1, <2>1, HeadAndTail
<1>3. t.queue # <<>> => t.answer \in {"followed", "ignored"}
  BY DEF ScenarioInv, ClientAsked
<1>4. Becomes(u, Idle)
  BY DEF CommitAck
<1>5. /\ task' \in [Actors -> Tasks] /\ task'[u] = Idle
      /\ \A a \in Actors \ {u} : task'[a] = task[a]
  <2>1. u \in Actors /\ ScenarioTypeOK
    BY ActorsApart DEF ScenarioInv
  <2> QED
    BY <1>4, <2>1, IdleTask, TaskOfOne
<1> QED
  BY <1>1, <1>2, <1>3, <1>5 DEF CommitAck

LEMMA ReadScenario ==
    ASSUME ScenarioInv, NEW u \in Users, ReadAck(u)
    PROVE  ScenarioInv'
<1>1. /\ UNCHANGED <<now, branchVars, outcomes, link, pushed, byHand>>
      /\ task' \in [Actors -> Tasks]
      /\ \A a \in Actors \ {u} : task'[a] = task[a]
  BY AckReads
<1>2. PICK r \in Reminders :
          /\ task'[u].found = <<r>> /\ task'[u].at \in {"settle", "commit"}
          /\ task'[u].answer \in {"followed", "ignored", "watch"}
          /\ \/ task'[u].queue = <<>> /\ task'[u].at = "commit"
             \/ /\ task'[u].queue = <<<<Head(Found(r, TRUE)), "ai_reminder_trigger">>>>
                /\ task'[u].answer # "watch"
  BY AckReads
<1>3. ScenarioTypeOK' /\ order' \in Seq(Branches)
  BY <1>1 DEF ScenarioInv, ScenarioTypeOK, branchVars
<1>4. WorkerListed' /\ OnceAWindow' /\ MonitorListed' /\ PushedOnce'
  BY <1>1, ActorsApart DEF ScenarioInv, WorkerListed, OnceAWindow, MonitorListed, PushedOnce
<1>5. ClientAsked(u)'
  <2>1. <<r>> # <<>> /\ <<<<Head(Found(r, TRUE)), "ai_reminder_trigger">>>> # <<>>
    OBVIOUS
  <2> QED
    BY <1>2, <2>1 DEF ClientAsked
<1>6. \A v \in Users \ {u} : ClientAsked(v)'
  BY <1>1, ActorsApart DEF ScenarioInv, ClientAsked
<1> QED
  BY <1>3, <1>4, <1>5, <1>6 DEF ScenarioInv

LEMMA AckSettledScenario ==
    ASSUME ScenarioInv, NEW u \in Users, SettleAck(u)
    PROVE  ScenarioInv'
<1>1. /\ task[u].at = "settle"
      /\ UNCHANGED <<now, created, link, pushed, byHand>> /\ RowsTyped'
      /\ task' \in [Actors -> Tasks]
      /\ task'[u] = [task[u] EXCEPT !.at = "commit"]
      /\ \A a \in Actors \ {u} : task'[a] = task[a]
      /\ \A o \in outcomes' : o \in outcomes \/ o.window = "ai_reminder_trigger"
  BY AckSettles
<1>2. ScenarioTypeOK' /\ order' \in Seq(Branches)
  BY <1>1 DEF ScenarioInv, ScenarioTypeOK, RowsTyped
<1>3. WorkerListed' /\ OnceAWindow'
  <2>1. \A o \in outcomes' : o.window \in Range(Windows) => o \in outcomes
    BY <1>1, WindowsNamed
  <2> QED
    BY <1>1, <2>1, ActorsApart, WorkerKept DEF ScenarioInv
<1>4. MonitorListed' /\ PushedOnce'
  BY <1>1, ActorsApart DEF ScenarioInv, MonitorListed, PushedOnce
<1>5. ClientAsked(u)'
  <2>1. /\ task[u] \in Tasks /\ task[u].found # <<>>
        /\ task[u].queue # <<>> => task[u].answer \in {"followed", "ignored"}
    BY <1>1, ActorsApart DEF ScenarioInv, ScenarioTypeOK, ClientAsked
  <2>2. /\ task'[u].at = "commit" /\ task'[u].found = task[u].found
        /\ task'[u].queue = task[u].queue /\ task'[u].answer = task[u].answer
    BY <1>1, <2>1 DEF Tasks
  <2> QED
    BY <2>1, <2>2 DEF ClientAsked
<1>6. \A v \in Users \ {u} : ClientAsked(v)'
  BY <1>1, ActorsApart DEF ScenarioInv, ClientAsked
<1> QED
  BY <1>2, <1>3, <1>4, <1>5, <1>6 DEF ScenarioInv

(* An answer changes neither the branch, nor the window, nor the time of   *)
(* an outcome.                                                             *)
LEMMA AnswerWritten ==
    ASSUME outcomes \subseteq Outcomes, NEW mine \in SUBSET outcomes, NEW answer,
           mine # {} => answer \in Answers,
           \A o : o \in outcomes' <=>
                    \/ o \in outcomes \ mine
                    \/ \E p \in mine : o = [p EXCEPT !.followed = answer]
    PROVE  /\ outcomes' \subseteq Outcomes
           /\ \A o \in outcomes' :
                 \/ o \in outcomes \ mine
                 \/ \E p \in mine : /\ o = [p EXCEPT !.followed = answer]
                                    /\ o.branch = p.branch /\ o.window = p.window
                                    /\ o.at = p.at /\ o.followed = answer
           /\ \A p \in outcomes \ mine : p \in outcomes'
           /\ \A p \in mine : \E o \in outcomes' :
                 /\ o.branch = p.branch /\ o.window = p.window
                 /\ o.at = p.at /\ o.followed = answer
<1>1. ASSUME NEW p \in mine
      PROVE  /\ [p EXCEPT !.followed = answer] \in Outcomes
             /\ [p EXCEPT !.followed = answer].branch = p.branch
             /\ [p EXCEPT !.followed = answer].window = p.window
             /\ [p EXCEPT !.followed = answer].at = p.at
             /\ [p EXCEPT !.followed = answer].followed = answer
  <2>1. p \in Outcomes /\ answer \in Answers
    OBVIOUS
  <2> QED
    BY <2>1 DEF Outcomes
<1>2. outcomes' \subseteq Outcomes
  BY <1>1
<1>3. ASSUME NEW o \in outcomes'
      PROVE  \/ o \in outcomes \ mine
             \/ \E p \in mine : /\ o = [p EXCEPT !.followed = answer]
                                /\ o.branch = p.branch /\ o.window = p.window
                                /\ o.at = p.at /\ o.followed = answer
  <2>1. CASE o \in outcomes \ mine
    BY <2>1
  <2>2. CASE o \notin outcomes \ mine
    <3>1. PICK p \in mine : o = [p EXCEPT !.followed = answer]
      BY <2>2
    <3>2. /\ o.branch = p.branch /\ o.window = p.window
          /\ o.at = p.at /\ o.followed = answer
      BY <3>1, <1>1
    <3> QED
      BY <3>1, <3>2
  <2> QED
    BY <2>1, <2>2
<1>4. ASSUME NEW p \in mine
      PROVE  \E o \in outcomes' : /\ o.branch = p.branch /\ o.window = p.window
                                  /\ o.at = p.at /\ o.followed = answer
  BY <1>1
<1> QED
  BY <1>2, <1>3, <1>4

LEMMA CommittedScenario ==
    ASSUME ScenarioInv, NEW u \in Users, CommitAck(u)
    PROVE  ScenarioInv'
<1> DEFINE t == task[u]
           r == Head(t.found)
           mine == IF t.queue = <<>> THEN {} ELSE Latest(Head(t.queue)[1])
<1>1. /\ r \in Reminders
      /\ t.queue # <<>> => t.answer \in {"followed", "ignored"}
      /\ UNCHANGED <<now, branchVars, pushed, byHand>>
      /\ task' \in [Actors -> Tasks] /\ task'[u] = Idle
      /\ \A a \in Actors \ {u} : task'[a] = task[a]
      /\ \/ UNCHANGED <<outcomes, link>>
         \/ /\ link[r].status = "TRIGGERED"
            /\ outcomes' = (outcomes \ mine) \cup {[o EXCEPT !.followed = t.answer] : o \in mine}
            /\ link' = [link EXCEPT ![r].status = Acked(t.answer)]
  BY AckCommits
<1>2. mine \in SUBSET outcomes /\ \A o \in mine : o.window = "ai_reminder_trigger"
  BY DEF Latest
<1>3. mine # {} => t.answer \in Answers
  BY <1>1 DEF Answers
<1>4. RowsTyped
  BY TypeIsRows DEF ScenarioInv
<1> HIDE DEF t, r, mine
<1>5. /\ RowsTyped'
      /\ \A o \in outcomes' : o.window \in Range(Windows) => o \in outcomes
  <2>1. CASE UNCHANGED outcomes
    BY <1>1, <1>4, <2>1 DEF RowsTyped, branchVars
  <2>2. CASE outcomes' = (outcomes \ mine) \cup {[o EXCEPT !.followed = t.answer] : o \in mine}
    <3>1. /\ outcomes' \subseteq Outcomes
          /\ \A o \in outcomes' :
                \/ o \in outcomes \ mine
                \/ \E p \in mine : /\ o = [p EXCEPT !.followed = t.answer]
                                   /\ o.branch = p.branch /\ o.window = p.window
                                   /\ o.at = p.at /\ o.followed = t.answer
      <4>1. outcomes \subseteq Outcomes
        BY <1>4 DEF RowsTyped
      <4>2. \A o : o \in outcomes' <=>
                     \/ o \in outcomes \ mine
                     \/ \E p \in mine : o = [p EXCEPT !.followed = t.answer]
        BY <2>2
      <4> QED
        BY <1>2, <1>3, <4>1, <4>2, AnswerWritten
    <3>2. \A o, p \in outcomes' :
             o.branch = p.branch /\ o.window = p.window /\ o.at = p.at => o = p
      BY <1>2, <1>4, <3>1 DEF RowsTyped
    <3> QED
      BY <1>1, <1>2, <1>4, <3>1, <3>2, WindowsNamed DEF RowsTyped, branchVars
  <2> QED
    BY <1>1, <2>1, <2>2
<1>6. /\ link' \in [Reminders -> Links]
      /\ \A q \in Reminders : link'[q].status \in {link[q].status, Acked(t.answer)}
  <2>1. link \in [Reminders -> Links] /\ Acked(t.answer) \in {"ACKED_HANDLED", "ACKED_CONTINUE_WATCH", "ACKED_IGNORED"}
    BY DEF ScenarioInv, ScenarioTypeOK, Acked
  <2> QED
    BY <1>1, <2>1 DEF Links
<1>7. ScenarioTypeOK' /\ order' \in Seq(Branches)
  BY <1>1, <1>5, <1>6 DEF ScenarioInv, ScenarioTypeOK, RowsTyped, branchVars
<1>8. WorkerListed' /\ OnceAWindow'
  BY <1>1, <1>5, ActorsApart, WorkerKept DEF ScenarioInv
<1>9. MonitorListed' /\ PushedOnce'
  <2>1. \A q \in Reminders :
          link[q].status \notin {"NONE", "ACTIVE"} => link'[q].status \notin {"NONE", "ACTIVE"}
    BY <1>6 DEF Acked
  <2>2. task["monitor"] \in Tasks /\ task'["monitor"] = task["monitor"]
    BY <1>1, ActorsApart DEF ScenarioInv, ScenarioTypeOK
  <2> QED
    BY <1>1, <2>1, <2>2, MonitorKept DEF ScenarioInv
<1>10. \A v \in Users : ClientAsked(v)'
  BY <1>1, ActorsApart, ClientIdle DEF ScenarioInv, ClientAsked
<1> QED
  BY <1>7, <1>8, <1>9, <1>10 DEF ScenarioInv

LEMMA RestScenario ==
    ASSUME ScenarioInv, Passes \/ StopProcess \/ UNCHANGED scenarioVars
    PROVE  ScenarioInv'
<1>1. CASE Passes \/ UNCHANGED scenarioVars
  <2>1. UNCHANGED <<branchVars, outcomes, link, pushed, task, byHand>> /\ now' \in Times
    BY <1>1, ScenarioBounds
    DEF Passes, ScenarioInv, ScenarioTypeOK, scenarioVars, branchVars, Times
  <2> QED
    BY <2>1 DEF ScenarioInv, ScenarioTypeOK, branchVars, WorkerListed, OnceAWindow,
                MonitorListed, PushedOnce, ClientAsked
<1>2. CASE StopProcess
  <2>1. /\ UNCHANGED <<now, branchVars, outcomes, link, pushed>> /\ byHand' \in 0..MaxByHand
        /\ task' = [a \in Actors |-> Idle]
    BY <1>2, ScenarioBounds DEF StopProcess, ByHand, ScenarioInv, ScenarioTypeOK
  <2>2. ScenarioTypeOK' /\ order' \in Seq(Branches)
    BY <2>1, IdleTask DEF ScenarioInv, ScenarioTypeOK, branchVars
  <2>3. \A a \in Actors : task'[a] = Idle
    BY <2>1
  <2>4. WorkerListed' /\ OnceAWindow'
    BY <2>1, <2>3, ActorsApart, WorkerIdle DEF ScenarioInv
  <2>5. MonitorListed' /\ PushedOnce'
    BY <2>1, <2>3, ActorsApart, MonitorIdle DEF ScenarioInv
  <2>6. \A u \in Users : ClientAsked(u)'
    BY <2>3, ActorsApart, ClientIdle
  <2> QED
    BY <2>2, <2>4, <2>5, <2>6 DEF ScenarioInv
<1> QED
  BY <1>1, <1>2

LEMMA InitScenario ==
    ASSUME ScenarioInit
    PROVE  ScenarioInv
<1> USE DEF ScenarioInit
<1>1. order \in Seq(Branches) /\ IsInjective(order) /\ Range(order) = {}
  BY DEF IsInjective, Range
<1>2. {b \in Branches : status[b] # "NONE"} = {}
  OBVIOUS
<1>3. link \in [Reminders -> Links]
  BY ScenarioBounds DEF Links, Times
<1>4. task \in [Actors -> Tasks] /\ \A a \in Actors : task[a] = Idle
  BY IdleTask
<1>5. now \in Times /\ byHand \in 0..MaxByHand /\ created \in [Branches -> Times]
  BY ScenarioBounds DEF Times
<1>6. ScenarioTypeOK
  BY <1>1, <1>2, <1>3, <1>4, <1>5 DEF ScenarioTypeOK
<1>7. WorkerListed /\ MonitorListed /\ \A u \in Users : ClientAsked(u)
  BY <1>4, ActorsApart DEF WorkerListed, MonitorListed, ClientAsked, Idle, Range
<1> QED
  BY <1>1, <1>6, <1>7 DEF ScenarioInv, OnceAWindow, PushedOnce

LEMMA StepScenario ==
    ASSUME ScenarioInv, [ScenarioNext]_scenarioVars
    PROVE  ScenarioInv'
<1>1. CASE UNCHANGED scenarioVars
  BY <1>1, RestScenario
<1>2. CASE ScenarioNext
  <2>1. CASE \E u \in Users : ReadAck(u) \/ SettleAck(u) \/ CommitAck(u)
                             \/ \E b \in Branches : SettleByHand(u, b)
    BY <2>1, ReadScenario, AckSettledScenario, CommittedScenario, ByHandScenario
  <2>2. CASE GetPrices \/ SettleDue
    BY <2>2, ListedScenario, SettledScenario
  <2>3. CASE Scan \/ AutoSettle \/ Push
    BY <2>3, ScannedScenario, AutoSettledScenario, PushedScenario
  <2>4. CASE (\E b \in Branches : SaveBranch(b)) \/ (\E r \in Reminders : CreateReminder(r))
    BY <2>4, PagesScenario
  <2>5. CASE Passes \/ StopProcess
    BY <2>5, RestScenario
  <2> QED
    BY <1>2, <2>1, <2>2, <2>3, <2>4, <2>5 DEF ScenarioNext
<1> QED
  BY <1>1, <1>2

(* The rows of the scenarios are of their types, and a reminder is pushed  *)
(* once at most and never before it is triggered, whatever the clients do  *)
(* and whenever the process stops (scan_structure_reminders).              *)
THEOREM ScenariosTyped == ScenarioSpec => [](ScenarioTypeOK /\ PushedOnce)
<1>1. ScenarioInv => ScenarioTypeOK /\ PushedOnce
  BY DEF ScenarioInv
<1> QED
  BY <1>1, InitScenario, StepScenario, PTL DEF ScenarioSpec

(* The outcome worker settles a branch once in each window, also when it   *)
(* was settled or saved anew while the prices were awaited, and when the   *)
(* process stopped between two settlements (settle_due_scenario_outcomes). *)
THEOREM SettledOnceAWindow == ScenarioSpec => []OnceAWindow
<1>1. ScenarioInv => OnceAWindow
  BY DEF ScenarioInv
<1> QED
  BY <1>1, InitScenario, StepScenario, PTL DEF ScenarioSpec

-----------------------------------------------------------------------------
(* The answers to reminders.                                               *)

(* The outcomes of a reminder: what its own settlement writes.             *)
OfReminder(r) ==
    {o \in outcomes : o.window = "ai_reminder_trigger" /\ o.branch \in Range(Candidates[r])}

BranchesThere ==
    \A r \in Reminders : link[r].status # "NONE" => \A b \in Range(Candidates[r]) : Exists(b)

(* What a client is to write its answer on is there, if the reminder has a *)
(* branch.                                                                 *)
Asking(u) ==
    LET t == task[u]
        r == Head(t.found) IN
    t.at # "idle" =>
        /\ r \in Reminders
        /\ t.queue = <<>> => t.answer = "watch" \/ Candidates[r] = <<>>
        /\ t.queue # <<>> => Head(t.queue)[1] \in Range(Candidates[r])
        /\ t.at = "commit" /\ t.queue # <<>> =>
              \E o \in OfReminder(r) : o.branch = Head(t.queue)[1]

AckInv == BranchesThere /\ \A u \in Users : Asking(u)

(* The outcomes of one branch have different times, so that one is the     *)
(* latest.                                                                 *)
LEMMA LatestThere ==
    ASSUME outcomes \subseteq Outcomes, NEW o \in outcomes, o.window = "ai_reminder_trigger"
    PROVE  \E p \in Latest(o.branch) :
              p \in outcomes /\ p.window = "ai_reminder_trigger" /\ p.branch = o.branch
<1> DEFINE own == {p \in outcomes : p.branch = o.branch /\ p.window = "ai_reminder_trigger"}
           Age(p) == MaxTime - p.at
           ages == {Age(p) : p \in own}
<1>1. \A p \in own : p.at \in Nat /\ Age(p) \in Nat
  <2>1. MaxTime \in Nat /\ \A p \in own : p.at \in 0..MaxTime
    BY ScenarioBounds DEF Outcomes, Times
  <2> QED
    BY <2>1
<1>2. o \in own
  OBVIOUS
<1> HIDE DEF own
<1>3. ages \subseteq Nat /\ ages # {}
  BY <1>1, <1>2
<1>4. FirstOf(ages) \in ages /\ \A k \in ages : FirstOf(ages) <= k
  BY <1>3, LeastIndex
<1>5. PICK p \in own : Age(p) = FirstOf(ages)
  BY <1>4
<1>6. \A q \in own : Age(p) <= Age(q)
  BY <1>4, <1>5
<1>7. \A q \in own : q.at <= p.at
  BY <1>1, <1>6, ScenarioBounds
<1> QED
  BY <1>5, <1>7 DEF Latest, own

(* A step that keeps branches and outcomes, and of the clients those that  *)
(* it does not send home.                                                  *)
LEMMA OthersKeepAsking ==
    ASSUME ScenarioInv, AckInv, Covered,
           \A b \in Branches : Exists(b) => Exists(b)',
           \A r \in Reminders : link[r].status = "NONE" /\ link'[r].status # "NONE" =>
               \A b \in Range(Candidates[r]) : Exists(b)',
           NEW S \in SUBSET Users,
           \A u \in S : task'[u] = task[u] \/ task'[u] = Idle
    PROVE  BranchesThere' /\ \A u \in S : Asking(u)'
<1>1. BranchesThere'
  <2>1. \A r \in Reminders : Range(Candidates[r]) \subseteq Branches
    BY FoundIs
  <2> QED
    BY <2>1 DEF AckInv, BranchesThere
<1>2. ASSUME NEW u \in S PROVE Asking(u)'
  <2>1. CASE task'[u] = Idle
    BY <2>1 DEF Asking, Idle
  <2>2. CASE task'[u] = task[u]
    <3>1. Asking(u)
      BY DEF AckInv
    <3>2. \A r \in Reminders : \A b : (\E o \in OfReminder(r) : o.branch = b) =>
              \E o \in OfReminder(r)' : o.branch = b
      BY DEF Covered, OfReminder
    <3> QED
      BY <2>2, <3>1, <3>2 DEF Asking
  <2> QED
    BY <2>1, <2>2
<1> QED
  BY <1>1, <1>2

LEMMA BystandersAck ==
    ASSUME ScenarioInv, AckInv,
           \/ \E b \in Branches : SaveBranch(b)
           \/ \E r \in Reminders : CreateReminder(r)
           \/ \E u \in Users, b \in Branches : SettleByHand(u, b)
           \/ GetPrices \/ SettleDue \/ Scan \/ AutoSettle \/ Push \/ Passes \/ StopProcess
           \/ UNCHANGED scenarioVars
    PROVE  AckInv' /\ Answered
<1> DEFINE Branch == \A b \in Branches : Exists(b) => Exists(b)'
           Linked == \A r \in Reminders : link[r].status = "NONE" /\ link'[r].status # "NONE" =>
                         \A b \in Range(Candidates[r]) : Exists(b)'
           Steady == \A r \in Reminders :
                         \/ link'[r] = link[r]
                         \/ /\ link[r].status \in {"NONE", "ACTIVE"}
                            /\ link'[r].status \in {"ACTIVE", "TRIGGERED"}
           Clients == \A u \in Users : task'[u] = task[u] \/ task'[u] = Idle
<1>r. RowsTyped /\ link \in [Reminders -> Links] /\ task \in [Actors -> Tasks]
  BY TypeIsRows DEF ScenarioInv, ScenarioTypeOK
<1>k. UNCHANGED outcomes => Covered
  BY DEF Covered
<1>b. UNCHANGED status => Branch
  BY DEF Exists
<1>l. UNCHANGED link => Linked /\ Steady
  OBVIOUS
<1>0. Branch /\ Linked /\ Steady /\ Clients /\ Covered => AckInv' /\ Answered
  <2> SUFFICES ASSUME Branch, Linked, Steady, Clients, Covered PROVE AckInv' /\ Answered
    OBVIOUS
  <2>1. BranchesThere' /\ \A u \in Users : Asking(u)'
    BY OthersKeepAsking
  <2>2. Answered
    BY DEF Answered, Acked
  <2> QED
    BY <2>1, <2>2 DEF AckInv
<1>1. CASE \E b \in Branches : SaveBranch(b)
  <2>1. PICK b \in Branches : SaveBranch(b)
    BY <1>1
  <2>2. /\ status' = [status EXCEPT ![b] = "ACTIVE"] /\ order' = ToEnd(b)
        /\ UNCHANGED <<outcomes, link, task>>
    BY <2>1 DEF SaveBranch
  <2>3. Branch
    BY <1>r, <2>2, BranchToTheEnd
  <2> QED
    BY <1>0, <1>k, <1>l, <2>2, <2>3
<1>2. CASE \E r \in Reminders : CreateReminder(r)
  <2>1. PICK r \in Reminders : CreateReminder(r)
    BY <1>2
  <2>2. /\ link[r].status = "NONE" /\ \A b \in Range(Candidates[r]) : Exists(b)
        /\ link' = [link EXCEPT ![r].status = "ACTIVE"]
        /\ UNCHANGED <<status, outcomes, task>>
    BY <2>1 DEF CreateReminder, branchVars
  <2>3. /\ link'[r].status = "ACTIVE" /\ \A q \in Reminders \ {r} : link'[q] = link[q]
    BY <1>r, <2>2 DEF Links
  <2>4. Linked /\ Steady
    BY <2>2, <2>3 DEF Exists
  <2> QED
    BY <1>0, <1>b, <1>k, <2>2, <2>4
<1>3. CASE \E u \in Users, b \in Branches : SettleByHand(u, b)
  <2>1. PICK u \in Users, b \in Branches : SettleByHand(u, b)
    BY <1>3
  <2>2. PICK price \in Prices, expired \in BOOLEAN, followed \in Answers \ {"followed"} :
           Settle(b, "manual", now, price, expired, followed)
    BY <2>1 DEF SettleByHand
  <2>3. "manual" \in Range(Windows) \cup OtherWindows /\ followed \in Answers /\ now \in Times
    BY WindowsNamed DEF ScenarioInv, ScenarioTypeOK
  <2>4. Branch /\ Covered
    BY <1>r, <2>2, <2>3, SettleWrites, SettleCovers
  <2>5. UNCHANGED <<link, task>>
    BY <2>1 DEF SettleByHand
  <2> QED
    BY <1>0, <1>l, <2>4, <2>5
<1>4. CASE GetPrices
  <2>1. /\ UNCHANGED <<branchVars, outcomes, link>>
        /\ task' = [task EXCEPT !["worker"] = task'["worker"]]
    <3>1. \E t : task' = [task EXCEPT !["worker"] = t]
      BY <1>4 DEF GetPrices, Becomes
    <3> QED
      BY <1>r, <1>4, <3>1, ActorsApart DEF GetPrices
  <2>2. Clients
    BY <1>r, <2>1, ActorsApart
  <2> QED
    BY <1>0, <1>b, <1>k, <1>l, <2>1, <2>2 DEF branchVars
<1>5. CASE SettleDue
  <2>1. /\ UNCHANGED link /\ Branch /\ Covered
        /\ \A a \in Actors \ {"worker"} : task'[a] = task[a]
    BY <1>5, DueSettles
  <2>2. Clients
    BY <2>1, ActorsApart
  <2> QED
    BY <1>0, <1>l, <2>1, <2>2
<1>6. CASE Scan
  <2>1. PICK price \in Prices :
           LET hit == {r \in Reminders : Waits(r) /\ Reached(r, price)} IN
           link' = [r \in Reminders |->
                       IF r \in hit THEN [status |-> "TRIGGERED", at |-> now] ELSE link[r]]
    BY <1>6 DEF Scan
  <2>2. Linked /\ Steady
    BY <2>1 DEF Waits
  <2>3. UNCHANGED <<branchVars, outcomes>> /\ \E t : task' = [task EXCEPT !["monitor"] = t]
    BY <1>6 DEF Scan, Becomes
  <2>4. Clients
    BY <1>r, <2>3, ActorsApart
  <2> QED
    BY <1>0, <1>b, <1>k, <2>2, <2>3, <2>4 DEF branchVars
<1>7. CASE AutoSettle
  <2>1. /\ UNCHANGED link /\ Branch /\ Covered
        /\ \A a \in Actors \ {"monitor"} : task'[a] = task[a]
    BY <1>7, AutoSettles
  <2>2. Clients
    BY <2>1, ActorsApart
  <2> QED
    BY <1>0, <1>l, <2>1, <2>2
<1>8. CASE Push
  <2>1. Becomes("monitor", Idle) /\ UNCHANGED <<branchVars, outcomes, link>>
    BY <1>8 DEF Push
  <2>2. Clients
    BY <2>1, ActorsApart, IdleTask, TaskOfOne DEF ScenarioInv
  <2> QED
    BY <1>0, <1>b, <1>k, <1>l, <2>1, <2>2 DEF branchVars
<1>9. CASE Passes \/ UNCHANGED scenarioVars
  <2>1. UNCHANGED <<branchVars, outcomes, link, task>>
    BY <1>9 DEF Passes, scenarioVars, branchVars
  <2> QED
    BY <1>0, <1>b, <1>k, <1>l, <2>1 DEF branchVars
<1>10. CASE StopProcess
  <2>1. UNCHANGED <<branchVars, outcomes, link>> /\ task' = [a \in Actors |-> Idle]
    BY <1>10 DEF StopProcess
  <2>2. Clients
    BY <2>1, ActorsApart
  <2> QED
    BY <1>0, <1>b, <1>k, <1>l, <2>1, <2>2 DEF branchVars
<1> QED
  BY <1>1, <1>2, <1>3, <1>4, <1>5, <1>6, <1>7, <1>8, <1>9, <1>10

(* Of the clients only the one that steps is looked at.                    *)
LEMMA OthersAsk ==
    ASSUME ScenarioInv, AckInv, Covered, NEW u \in Users,
           \A a \in Actors \ {u} : task'[a] = task[a],
           \A b \in Branches : Exists(b) => Exists(b)',
           \A r \in Reminders : link[r].status = "NONE" => link'[r].status = "NONE",
           Asking(u)'
    PROVE  AckInv'
<1>1. \A v \in Users \ {u} : task'[v] = task[v] \/ task'[v] = Idle
  BY ActorsApart
<1>2. \A r \in Reminders : link[r].status = "NONE" /\ link'[r].status # "NONE" =>
         \A b \in Range(Candidates[r]) : Exists(b)'
  OBVIOUS
<1>3. BranchesThere' /\ \A v \in Users \ {u} : Asking(v)'
  <2>1. Users \ {u} \in SUBSET Users
    OBVIOUS
  <2> QED
    BY <1>1, <1>2, <2>1, OthersKeepAsking
<1> QED
  BY <1>3 DEF AckInv

LEMMA ReadAckInv ==
    ASSUME ScenarioInv, AckInv, NEW u \in Users, ReadAck(u)
    PROVE  AckInv' /\ Answered
<1>1. /\ UNCHANGED <<now, branchVars, outcomes, link, pushed, byHand>>
      /\ \A a \in Actors \ {u} : task'[a] = task[a]
  BY AckReads
<1>2. PICK r \in Reminders :
          /\ link[r].status = "TRIGGERED"
          /\ task'[u].found = <<r>> /\ task'[u].at \in {"settle", "commit"}
          /\ task'[u].answer \in {"followed", "ignored", "watch"}
          /\ \/ /\ task'[u].queue = <<>> /\ task'[u].at = "commit"
                /\ task'[u].answer = "watch" \/ Found(r, TRUE) = <<>>
             \/ /\ task'[u].queue = <<<<Head(Found(r, TRUE)), "ai_reminder_trigger">>>>
                /\ task'[u].answer # "watch" /\ Found(r, TRUE) # <<>>
                /\ task'[u].at = "commit" => Latest(Head(Found(r, TRUE))) # {}
  BY AckReads
<1>3. Head(task'[u].found) = r
  BY <1>2
<1>4. \A b \in Range(Candidates[r]) : Exists(b)
  BY <1>2 DEF AckInv, BranchesThere
<1>5. Found(r, TRUE) = <<>> => Candidates[r] = <<>>
  <2>1. /\ Candidates[r] \in Seq(Branches)
        /\ Found(r, TRUE) = <<>> => \A b \in Range(Candidates[r]) : ~Exists(b)
    BY FoundIs
  <2>2. Candidates[r] # <<>> => Head(Candidates[r]) \in Range(Candidates[r])
    BY <2>1, HeadAndTail
  <2> QED
    BY <1>4, <2>1, <2>2
<1>6. Asking(u)'
  <2>1. CASE task'[u].queue = <<>>
    <3>1. task'[u].answer = "watch" \/ Candidates[r] = <<>>
      <4>1. <<<<Head(Found(r, TRUE)), "ai_reminder_trigger">>>> # <<>>
        OBVIOUS
      <4> QED
        BY <1>2, <1>5, <2>1, <4>1
    <3> QED
      BY <1>2, <1>3, <2>1, <3>1 DEF Asking
  <2>2. CASE task'[u].queue # <<>>
    <3> DEFINE b == Head(Found(r, TRUE))
    <3>1. /\ task'[u].queue = <<<<b, "ai_reminder_trigger">>>> /\ Found(r, TRUE) # <<>>
          /\ task'[u].at = "commit" => Latest(b) # {}
      BY <1>2, <2>2
    <3>2. b \in Range(Candidates[r])
      BY <3>1, FoundIs
    <3> HIDE DEF b
    <3>3. Head(task'[u].queue)[1] = b
      BY <3>1
    <3>4. task'[u].at = "commit" => \E o \in OfReminder(r) : o.branch = b
      BY <3>1, <3>2 DEF Latest, OfReminder
    <3>5. OfReminder(r)' = OfReminder(r)
      BY <1>1 DEF OfReminder
    <3> QED
      BY <1>2, <1>3, <2>2, <3>2, <3>3, <3>4, <3>5 DEF Asking
  <2> QED
    BY <2>1, <2>2
<1>7. Covered /\ \A b \in Branches : Exists(b) => Exists(b)'
  BY <1>1 DEF Covered, branchVars, Exists
<1>8. Answered
  BY <1>1 DEF Answered
<1> QED
  BY <1>1, <1>6, <1>7, <1>8, OthersAsk

LEMMA SettleAckInv ==
    ASSUME ScenarioInv, AckInv, NEW u \in Users, SettleAck(u)
    PROVE  AckInv' /\ Answered
<1> DEFINE t == task[u]
           r == Head(t.found)
           b == Head(t.queue)[1]
<1>1. /\ t.at = "settle" /\ UNCHANGED link
      /\ task'[u] = [t EXCEPT !.at = "commit"]
      /\ \A a \in Actors \ {u} : task'[a] = task[a]
      /\ \A o \in outcomes :
            o \in outcomes' \/ (o.window = "ai_reminder_trigger" /\ o.branch = b)
      /\ \E o \in outcomes' : o.window = "ai_reminder_trigger" /\ o.branch = b
      /\ \A c \in Branches : Exists(c) => Exists(c)'
  BY AckSettles
<1>2. t \in Tasks /\ t.queue # <<>>
  BY <1>1, ActorsApart DEF ScenarioInv, ScenarioTypeOK, ClientAsked
<1>3. r \in Reminders /\ b \in Range(Candidates[r])
  BY <1>1, <1>2 DEF AckInv, Asking
<1>4. task'[u].found = t.found /\ task'[u].queue = t.queue
  BY <1>1, <1>2 DEF Tasks
<1>5. Asking(u)'
  <2>1. \E o \in OfReminder(r)' : o.branch = b
    BY <1>1, <1>3 DEF OfReminder
  <2> QED
    BY <1>1, <1>2, <1>3, <1>4, <2>1 DEF Asking
<1>6. Covered
  BY <1>1 DEF Covered
<1>7. Answered
  BY <1>1 DEF Answered
<1> QED
  BY <1>1, <1>5, <1>6, <1>7, OthersAsk

(* The answer is written in the step that answers the reminder, on the     *)
(* latest outcome of its branch: there is one, and only one.               *)
LEMMA CommitAckInv ==
    ASSUME ScenarioInv, AckInv, NEW u \in Users, CommitAck(u)
    PROVE  AckInv' /\ Answered
<1> DEFINE t == task[u]
           r == Head(t.found)
           b == Head(t.queue)[1]
           mine == IF t.queue = <<>> THEN {} ELSE Latest(b)
<1> HIDE DEF t, r, b, mine
<1>1. /\ t.at = "commit" /\ r \in Reminders
      /\ t.queue # <<>> => t.answer \in {"followed", "ignored"}
      /\ UNCHANGED branchVars
      /\ task'[u] = Idle
      /\ \A a \in Actors \ {u} : task'[a] = task[a]
      /\ \/ link[r].status # "TRIGGERED" /\ UNCHANGED <<outcomes, link>>
         \/ /\ link[r].status = "TRIGGERED"
            /\ outcomes' = (outcomes \ mine) \cup {[o EXCEPT !.followed = t.answer] : o \in mine}
            /\ link' = [link EXCEPT ![r].status = Acked(t.answer)]
  BY AckCommits DEF t, r, b, mine
<1>2. /\ t.queue = <<>> => t.answer = "watch" \/ Candidates[r] = <<>>
      /\ t.queue # <<>> => /\ b \in Range(Candidates[r])
                           /\ \E o \in OfReminder(r) : o.branch = b
  BY <1>1 DEF AckInv, Asking, t, r, b
<1>c. PICK c : c = b
  OBVIOUS
<1>3. Asking(u)'
  BY <1>1 DEF Asking, Idle
<1>4. \A d \in Branches : Exists(d) => Exists(d)'
  BY <1>1 DEF branchVars, Exists
<1>5. CASE link[r].status # "TRIGGERED"
  <2>1. Covered /\ Answered
    BY <1>1, <1>5 DEF Covered, Answered
  <2> QED
    BY <1>1, <1>3, <1>4, <1>5, <2>1, OthersAsk
<1>6. CASE link[r].status = "TRIGGERED"
  <2>1. /\ outcomes \subseteq Outcomes
        /\ mine \in SUBSET outcomes
        /\ \A o \in mine : o.window = "ai_reminder_trigger" /\ o.branch = b
        /\ mine # {} => t.answer \in Answers
    BY <1>1 DEF ScenarioInv, ScenarioTypeOK, Latest, Answers, mine
  <2>2. /\ \A o \in outcomes' :
              \/ o \in outcomes \ mine
              \/ \E p \in mine : /\ o = [p EXCEPT !.followed = t.answer]
                                 /\ o.branch = p.branch /\ o.window = p.window
                                 /\ o.at = p.at /\ o.followed = t.answer
        /\ \A p \in outcomes \ mine : p \in outcomes'
        /\ \A p \in mine : \E o \in outcomes' :
              /\ o.branch = p.branch /\ o.window = p.window
              /\ o.at = p.at /\ o.followed = t.answer
    <3>1. \A o : o \in outcomes' <=>
                 \/ o \in outcomes \ mine
                 \/ \E p \in mine : o = [p EXCEPT !.followed = t.answer]
      BY <1>1, <1>6
    <3>2. /\ outcomes \subseteq Outcomes /\ mine \in SUBSET outcomes
          /\ mine # {} => t.answer \in Answers
      BY <2>1
    <3> QED
      BY <3>1, <3>2, AnswerWritten
  <2>3. Covered
    BY <2>2 DEF Covered
  <2>4. /\ link'[r].status = Acked(t.answer)
        /\ \A q \in Reminders \ {r} : link'[q] = link[q]
    BY <1>1, <1>6 DEF ScenarioInv, ScenarioTypeOK, Links
  <2>5. \A q \in Reminders : link[q].status = "NONE" => link'[q].status = "NONE"
    BY <1>6, <2>4
  <2>6. ASSUME t.queue # <<>>
        PROVE  Latest(c)' # {} /\ \A o \in Latest(c)' : o.followed = t.answer
    <3> DEFINE Own(p) == p.branch = c /\ p.window = "ai_reminder_trigger"
    <3>1. mine = Latest(c)
      BY <1>c, <2>6 DEF mine
    <3>2. /\ Latest(c) = {o \in outcomes : Own(o) /\ \A p \in outcomes : Own(p) => p.at <= o.at}
          /\ Latest(c)' =
                 {o \in outcomes' : Own(o) /\ \A p \in outcomes' : Own(p) => p.at <= o.at}
      BY DEF Latest
    <3>3. PICK m \in mine : TRUE
      <4>1. PICK o \in OfReminder(r) : o.branch = c
        BY <1>2, <1>c, <2>6
      <4>2. o \in outcomes /\ o.window = "ai_reminder_trigger"
        BY <4>1 DEF OfReminder
      <4> QED
        BY <2>1, <3>1, <4>1, <4>2, LatestThere
    <3>4. /\ m \in outcomes /\ Own(m) /\ \A p \in mine : Own(p) /\ p \in outcomes
          /\ \A p \in outcomes : Own(p) => p.at <= m.at
      BY <3>1, <3>2
    <3> HIDE DEF Own
    <3>5. \A o \in outcomes : o.at \in Nat
      BY <2>1, ScenarioBounds DEF Outcomes, Times
    <3>6. \A p \in outcomes' : Own(p) => p.at <= m.at
      BY <2>2, <3>4
    <3>7. PICK n \in outcomes' : Own(n) /\ n.at = m.at /\ n.followed = t.answer
      BY <2>2, <3>4 DEF Own
    <3>8. n \in Latest(c)'
      BY <3>2, <3>6, <3>7
    <3>9. ASSUME NEW o \in Latest(c)' PROVE o.followed = t.answer
      <4>1. o \in outcomes' /\ Own(o) /\ m.at <= o.at /\ o.at <= m.at
        BY <3>2, <3>6, <3>7
      <4>2. CASE o \in outcomes \ mine
        <5>1. o.at = m.at
          BY <3>4, <3>5, <4>1, <4>2
        <5>2. \A p, q \in outcomes :
                 p.branch = q.branch /\ p.window = q.window /\ p.at = q.at => p = q
          BY DEF ScenarioInv, ScenarioTypeOK
        <5>3. o = m
          BY <3>4, <4>1, <4>2, <5>1, <5>2 DEF Own
        <5> QED
          BY <4>2, <5>3
      <4>3. CASE o \notin outcomes \ mine
        BY <2>2, <4>1, <4>3
      <4> QED
        BY <4>2, <4>3
    <3> QED
      BY <3>8, <3>9
  <2>7. Answered
    <3> SUFFICES ASSUME NEW q \in Reminders, NEW answer \in {"followed", "ignored"}
                 PROVE  /\ link[q].status \notin {"NONE", "ACTIVE", "TRIGGERED"} =>
                              link'[q] = link[q]
                        /\ link'[q].status = Acked(answer) /\ link[q].status # Acked(answer) =>
                              /\ link[q].status = "TRIGGERED"
                              /\ \/ Found(q, TRUE) = <<>>
                                 \/ \E d \in Range(Candidates[q]) :
                                       /\ Latest(d)' # {}
                                       /\ \A o \in Latest(d)' : o.followed = answer
      BY DEF Answered
    <3>1. CASE q # r
      BY <2>4, <3>1
    <3>2. CASE q = r
      <4>1. ASSUME link'[r].status = Acked(answer)
            PROVE  \/ Found(r, TRUE) = <<>>
                   \/ \E d \in Range(Candidates[r]) :
                         Latest(d)' # {} /\ \A o \in Latest(d)' : o.followed = answer
        <5>1. Acked(t.answer) = Acked(answer)
          BY <2>4, <4>1
        <5>2. CASE t.queue = <<>>
          <6>1. Candidates[r] = <<>>
            BY <1>2, <5>1, <5>2 DEF Acked
          <6>2. Range(Candidates[r]) = {}
            BY <6>1 DEF Range
          <6> QED
            BY <1>1, <6>2, FoundIs
        <5>3. CASE t.queue # <<>>
          <6>1. t.answer = answer
            BY <1>1, <5>1, <5>3 DEF Acked
          <6> QED
            BY <1>2, <1>c, <2>6, <5>3, <6>1
        <5> QED
          BY <5>2, <5>3
      <4> QED
        BY <1>6, <3>2, <4>1
    <3> QED
      BY <3>1, <3>2
  <2> QED
    BY <1>1, <1>3, <1>4, <2>3, <2>5, <2>7, OthersAsk
<1> QED
  BY <1>5, <1>6

LEMMA StepAck ==
    ASSUME ScenarioInv, AckInv, [ScenarioNext]_scenarioVars
    PROVE  AckInv' /\ Answered
<1>1. CASE \E u \in Users : ReadAck(u) \/ SettleAck(u) \/ CommitAck(u)
  BY <1>1, ReadAckInv, SettleAckInv, CommitAckInv
<1>2. CASE \/ \E b \in Branches : SaveBranch(b)
           \/ \E r \in Reminders : CreateReminder(r)
           \/ \E u \in Users, b \in Branches : SettleByHand(u, b)
           \/ GetPrices \/ SettleDue \/ Scan \/ AutoSettle \/ Push \/ Passes \/ StopProcess
           \/ UNCHANGED scenarioVars
  BY <1>2, BystandersAck
<1> QED
  BY <1>1, <1>2 DEF ScenarioNext

(* An acknowledgement that is accepted finds an outcome of its branch to   *)
(* write its answer on, in the same transaction, and is the only one of    *)
(* its reminder (ack_structure_reminder): for any number of clients, of    *)
(* reminders at one branch and of settlements between its transactions.    *)
THEOREM AcksCarryAnswers == ScenarioSpec => AnswerWithAck
<1>1. ScenarioInit => ScenarioInv /\ AckInv
  <2> SUFFICES ASSUME ScenarioInit PROVE ScenarioInv /\ AckInv
    OBVIOUS
  <2>1. \A a \in Actors : task[a] = Idle
    BY DEF ScenarioInit
  <2>2. \A r \in Reminders : link[r].status = "NONE"
    BY DEF ScenarioInit
  <2> QED
    BY <2>1, <2>2, InitScenario, ActorsApart DEF AckInv, BranchesThere, Asking, Idle
<1>2. ScenarioInv /\ AckInv /\ [ScenarioNext]_scenarioVars => (ScenarioInv /\ AckInv)'
  BY StepScenario, StepAck
<1>3. ScenarioInv /\ AckInv /\ [ScenarioNext]_scenarioVars => [Answered]_scenarioVars
  BY StepAck
<1> QED
  BY <1>1, <1>2, <1>3, PTL DEF ScenarioSpec, AnswerWithAck

-----------------------------------------------------------------------------
(* ContextJobs: what a worker has in hand, and the context behind it.      *)

(* A snapshot is asked for while it is missing, and leaves its jobs when   *)
(* it is there.                                                            *)
PipelineSound ==
    /\ bars \in [Levels -> Signatures \cup {NoBars}]
    /\ snaps \in [Levels -> Seq(Signatures)]
    /\ computing \in [Levels -> SUBSET Signatures] /\ failed \in [Levels -> SUBSET Signatures]
    /\ \A l \in Levels :
          /\ bars[l] \in Versions[l] \cup {NoBars}
          /\ Range(snaps[l]) \subseteq Versions[l] /\ IsInjective(snaps[l])
          /\ computing[l] \subseteq Versions[l] /\ failed[l] \subseteq Versions[l]
          /\ computing[l] \cap Range(snaps[l]) = {}

ContextRows ==
    /\ jobs \in [Sets -> Rows]
    /\ runs \in [Sets -> Runs]
    /\ contexts \in Seq(Contexts) /\ IsInjective(contexts)
    /\ branched \subseteq Range(contexts)
    /\ worker \in [Workers -> CtxWorkers]
    /\ texts \in Nat
    /\ events \in 0..MaxEvents

(* A worker with a job in hand has its snapshots; what it is to give       *)
(* branches is stored, what it is to report as a success has them.         *)
Backed(w) ==
    LET t == worker[w] IN
    /\ t.at \notin {"down", "idle", "claim"} => t.source \in Sets
    /\ t.at \in {"save", "branch"} => t.kind \in Kinds
    /\ t.at = "branch" => Built(w) \in Range(contexts)
    /\ t.at = "report" /\ t.verdict = "success" => \E c \in branched : c.source = t.source

ContextInv ==
    /\ PipelineSound /\ ContextRows
    /\ \A w \in Workers : Backed(w)
    /\ SuccessHasContext

LEMMA SoundIsTyped == PipelineSound /\ ContextRows => ContextTypeOK
<1> SUFFICES ASSUME PipelineSound, ContextRows PROVE ContextTypeOK
  OBVIOUS
<1>1. Range(contexts) \subseteq Contexts
  BY DEF ContextRows, Range
<1> QED
  BY <1>1 DEF PipelineSound, ContextRows, ContextTypeOK

LEMMA CtxStates ==
    /\ CtxDown \in CtxWorkers /\ CtxDown.at = "down"
    /\ CtxIdle \in CtxWorkers /\ CtxIdle.at = "idle"
BY DEF CtxDown, CtxIdle, CtxWorkers, CtxSteps

LEMMA CtxParts ==
    ASSUME NEW t \in CtxWorkers
    PROVE  /\ t.at \in CtxSteps /\ t.id \in Nat /\ t.text \in Nat /\ t.read \in Nat
           /\ t.kind \in Kinds \cup {""} /\ t.verdict \in {"", "success", "stale"}
BY DEF CtxWorkers

(* The step of one worker: nothing is lost that another one relies on.     *)
LEMMA OneCtxWorker ==
    ASSUME ContextInv, NEW w \in Workers, NEW state \in CtxWorkers, CtxDoes(w, state),
           UNCHANGED pipelineVars,
           jobs' \in [Sets -> Rows], runs' \in [Sets -> Runs],
           contexts' \in Seq(Contexts), IsInjective(contexts'),
           Range(contexts) \subseteq Range(contexts'),
           branched' \subseteq Range(contexts'), branched \subseteq branched',
           texts' \in Nat, events' \in 0..MaxEvents,
           state.at \notin {"down", "idle", "claim"} => state.source \in Sets,
           state.at \in {"save", "branch"} => state.kind \in Kinds,
           state.at = "branch" =>
               [source |-> state.source, kind |-> state.kind, text |-> state.text]
                   \in Range(contexts'),
           state.at = "report" /\ state.verdict = "success" =>
               \E c \in branched' : c.source = state.source,
           \A s \in Sets : jobs'[s].status = "SUCCESS" =>
               jobs[s].status = "SUCCESS" \/ \E c \in branched' : c.source = s
    PROVE  ContextInv'
<1>1. /\ worker' \in [Workers -> CtxWorkers] /\ worker'[w] = state
      /\ \A v \in Workers \ {w} : worker'[v] = worker[v]
  BY DEF ContextInv, ContextRows, CtxDoes
<1>2. ContextRows'
  BY <1>1 DEF ContextRows
<1>3. PipelineSound'
  BY DEF ContextInv, PipelineSound, pipelineVars
<1>4. Backed(w)'
  BY <1>1 DEF Backed, Built
<1>5. ASSUME NEW v \in Workers \ {w} PROVE Backed(v)'
  <2>1. worker'[v] = worker[v] /\ Backed(v)
    BY <1>1 DEF ContextInv
  <2>2. Built(v)' = Built(v)
    BY <2>1 DEF Built
  <2> QED
    BY <2>1, <2>2 DEF Backed
<1>6. SuccessHasContext'
  BY DEF ContextInv, SuccessHasContext
<1> QED
  BY <1>2, <1>3, <1>4, <1>5, <1>6 DEF ContextInv

LEMMA InitContext ==
    ASSUME ContextInit
    PROVE  ContextInv
<1> USE DEF ContextInit
<1>1. \A s : s = <<>> => s \in Seq(Signatures) /\ s \in Seq(Contexts) /\ IsInjective(s) /\ Range(s) = {}
  BY DEF IsInjective, Range
<1>2. PipelineSound
  <2>1. bars \in [Levels -> Signatures \cup {NoBars}] /\ \A l \in Levels : bars[l] \in Versions[l] \cup {NoBars}
    OBVIOUS
  <2>2. snaps \in [Levels -> Seq(Signatures)] /\ \A l \in Levels : IsInjective(snaps[l]) /\ Range(snaps[l]) = {}
    BY <1>1
  <2> QED
    BY <2>1, <2>2 DEF PipelineSound
<1>3. ContextRows
  BY <1>1, NoRowIsRow, CtxStates, ContextBounds DEF ContextRows, Runs, RunStatuses, NoRun
<1>4. \A w \in Workers : Backed(w)
  BY CtxStates DEF Backed
<1>5. SuccessHasContext
  BY NoRowIsRow DEF SuccessHasContext
<1> QED
  BY <1>2, <1>3, <1>4, <1>5 DEF ContextInv

(* A set of snapshots asked for: no row becomes a success by it.           *)
LEMMA EnqueuedRows ==
    ASSUME jobs \in [Sets -> Rows], NEW set, NEW force
    PROVE  /\ Enqueued(set, force) \in [Sets -> Rows]
           /\ \A s \in Sets : Enqueued(set, force)[s].status = "SUCCESS" => jobs[s].status = "SUCCESS"
<1>1. CASE set \in Sets
  <2>1. jobs[set] \in Rows
    BY <1>1
  <2>2. Requeued(jobs[set]) \in Rows /\ Requeued(jobs[set]).status # "SUCCESS"
    BY <2>1, RequeuedRow
  <2> QED
    BY <1>1, <2>2 DEF Enqueued
<1>2. CASE set \notin Sets
  <2>1. [jobs EXCEPT ![set] = Requeued(jobs[set])] = jobs
    BY <1>2
  <2> QED
    BY <2>1 DEF Enqueued
<1> QED
  BY <1>1, <1>2

(* A page, a snapshot job or new bars: the workers have what they had.     *)
LEMMA AsideContext ==
    ASSUME ContextInv, PipelineSound', jobs' \in [Sets -> Rows], events' \in 0..MaxEvents,
           \A s \in Sets : jobs'[s].status = "SUCCESS" => jobs[s].status = "SUCCESS",
           UNCHANGED <<runs, contexts, branched, worker, texts>>
    PROVE  ContextInv'
<1>1. ContextRows'
  BY DEF ContextInv, ContextRows
<1>2. ASSUME NEW w \in Workers PROVE Backed(w)'
  <2>1. Backed(w) /\ Built(w)' = Built(w)
    BY DEF ContextInv, Built
  <2> QED
    BY <2>1 DEF Backed
<1>3. SuccessHasContext'
  BY DEF ContextInv, SuccessHasContext
<1> QED
  BY <1>1, <1>2, <1>3 DEF ContextInv

LEMMA PipelineParts ==
    ASSUME PipelineSound, NEW l \in Levels
    PROVE  /\ snaps[l] \in Seq(Signatures) /\ IsInjective(snaps[l])
           /\ Range(snaps[l]) \subseteq Versions[l] /\ Versions[l] \subseteq Signatures
           /\ computing[l] \subseteq Versions[l] /\ failed[l] \subseteq Versions[l]
           /\ computing[l] \cap Range(snaps[l]) = {}
           /\ bars[l] \in Versions[l] \cup {NoBars}
BY DEF PipelineSound, Signatures

(* prewarm_structure_snapshots                                             *)
LEMMA PrewarmedSound ==
    ASSUME PipelineSound, computing' = Prewarmed, failed' = Retried, UNCHANGED <<bars, snaps>>
    PROVE  PipelineSound'
<1>1. ASSUME NEW l \in Levels
      PROVE  /\ computing'[l] \subseteq Versions[l] /\ failed'[l] \subseteq Versions[l]
             /\ computing'[l] \cap Range(snaps[l]) = {}
             /\ computing'[l] \in SUBSET Signatures /\ failed'[l] \in SUBSET Signatures
  <2>1. /\ computing'[l] = computing[l] \cup (IF Wanted(l) THEN {bars[l]} ELSE {})
        /\ failed'[l] \subseteq failed[l]
    BY DEF Prewarmed, Retried
  <2>2. Wanted(l) => bars[l] \in Versions[l] /\ bars[l] \notin Range(snaps[l])
    BY PipelineParts DEF Wanted, HasBars, HasFresh
  <2> QED
    BY <2>1, <2>2, PipelineParts
<1>2. /\ DOMAIN computing' = Levels /\ computing' = [l \in Levels |-> computing'[l]]
      /\ DOMAIN failed' = Levels /\ failed' = [l \in Levels |-> failed'[l]]
  BY DEF Prewarmed, Retried
<1>3. computing' \in [Levels -> SUBSET Signatures] /\ failed' \in [Levels -> SUBSET Signatures]
  BY <1>1, <1>2
<1> QED
  BY <1>1, <1>3 DEF PipelineSound

LEMMA EnsureContext ==
    ASSUME ContextInv, Ensure
    PROVE  ContextInv'
<1>1. PipelineSound'
  BY PrewarmedSound DEF ContextInv, Ensure
<1>2. jobs \in [Sets -> Rows] /\ events \in 0..MaxEvents
  BY DEF ContextInv, ContextRows
<1>3. /\ jobs' \in [Sets -> Rows]
      /\ \A s \in Sets : jobs'[s].status = "SUCCESS" => jobs[s].status = "SUCCESS"
  BY <1>2, EnqueuedRows DEF Ensure
<1> QED
  BY <1>1, <1>2, <1>3, AsideContext DEF Ensure

(* What a bounded event does to its counter.                               *)
LEMMA EventCounted ==
    ASSUME events \in 0..MaxEvents, Happens
    PROVE  events' \in 0..MaxEvents
BY ContextBounds DEF Happens

LEMMA RegenerateContext ==
    ASSUME ContextInv, Regenerate
    PROVE  ContextInv'
<1>1. PipelineSound'
  BY PrewarmedSound DEF ContextInv, Regenerate
<1>2. jobs \in [Sets -> Rows] /\ events' \in 0..MaxEvents
  BY EventCounted DEF ContextInv, ContextRows, Regenerate
<1>3. /\ jobs' \in [Sets -> Rows]
      /\ \A s \in Sets : jobs'[s].status = "SUCCESS" => jobs[s].status = "SUCCESS"
  <2> DEFINE force == TRUE
  <2>1. jobs' = jobs \/ jobs' = Enqueued(LatestSet(Levels), force)
    BY DEF Regenerate
  <2> HIDE DEF force
  <2> QED
    BY <1>2, <2>1, EnqueuedRows
<1> QED
  BY <1>1, <1>2, <1>3, AsideContext DEF Regenerate

LEMMA Appended ==
    ASSUME NEW S, NEW s \in Seq(S), IsInjective(s), NEW x \in S, x \notin Range(s)
    PROVE  /\ Append(s, x) \in Seq(S) /\ IsInjective(Append(s, x))
           /\ Range(Append(s, x)) = Range(s) \cup {x}
<1> DEFINE e == Append(s, x)
           n == Len(s)
<1>1. /\ n \in Nat /\ DOMAIN s = 1..n
      /\ e \in Seq(S) /\ DOMAIN e = 1..(n + 1) /\ e[n + 1] = x
      /\ \A i \in 1..n : e[i] = s[i]
  OBVIOUS
<1> HIDE DEF e, n
<1>2. \A i \in 1..(n + 1) : i \in 1..n \/ i = n + 1
  BY <1>1
<1>3. n + 1 \in 1..(n + 1) /\ \A i \in 1..n : i \in 1..(n + 1)
  BY <1>1
<1>4. \A i \in 1..n : s[i] # x
  BY <1>1 DEF Range
<1>5. IsInjective(e)
  <2>1. \A i, j \in 1..n : s[i] = s[j] => i = j
    BY <1>1 DEF IsInjective
  <2> QED
    BY <1>1, <1>2, <1>4, <2>1 DEF IsInjective
<1>6. Range(e) = Range(s) \cup {x}
  BY <1>1, <1>2, <1>3 DEF Range
<1> QED
  BY <1>1, <1>5, <1>6 DEF e

LEMMA SnapshotDoneContext ==
    ASSUME ContextInv, NEW l \in Levels, SnapshotDone(l)
    PROVE  ContextInv'
<1>1. PipelineSound /\ jobs \in [Sets -> Rows] /\ events \in 0..MaxEvents
  BY DEF ContextInv, ContextRows
<1>2. PICK v \in computing[l] :
        /\ computing' = [computing EXCEPT ![l] = @ \ {v}]
        /\ IF bars[l] # v THEN UNCHANGED <<snaps, jobs>>
           ELSE /\ snaps' = [snaps EXCEPT ![l] = Append(@, v)]
                /\ jobs' = IF AutoEnqueue THEN Enqueued(FreshSet \cup {<<l, v>>}, FALSE) ELSE jobs
  BY DEF SnapshotDone
<1>3. UNCHANGED <<bars, failed, runs, contexts, branched, worker, texts, events>>
  BY DEF SnapshotDone
<1>4. v \in Versions[l] /\ v \in Signatures /\ v \notin Range(snaps[l])
  BY <1>1, PipelineParts
<1>5. /\ Append(snaps[l], v) \in Seq(Signatures) /\ IsInjective(Append(snaps[l], v))
      /\ Range(Append(snaps[l], v)) = Range(snaps[l]) \cup {v}
  BY <1>1, <1>4, PipelineParts, Appended
<1>6. /\ computing' \in [Levels -> SUBSET Signatures]
      /\ computing'[l] = computing[l] \ {v}
      /\ \A k \in Levels \ {l} : computing'[k] = computing[k]
  BY <1>1, <1>2 DEF PipelineSound
<1>7. /\ snaps' \in [Levels -> Seq(Signatures)]
      /\ snaps'[l] \in {snaps[l], Append(snaps[l], v)}
      /\ \A k \in Levels \ {l} : snaps'[k] = snaps[k]
  <2>1. snaps \in [Levels -> Seq(Signatures)]
    BY <1>1 DEF PipelineSound
  <2> QED
    BY <1>2, <1>5, <2>1
<1>8. PipelineSound'
  <2>1. ASSUME NEW k \in Levels
        PROVE  /\ Range(snaps'[k]) \subseteq Versions[k] /\ IsInjective(snaps'[k])
               /\ computing'[k] \subseteq Versions[k]
               /\ computing'[k] \cap Range(snaps'[k]) = {}
    <3>1. CASE k = l
      BY <1>1, <1>4, <1>5, <1>6, <1>7, <3>1, PipelineParts
    <3>2. CASE k # l
      BY <1>1, <1>6, <1>7, <3>2, PipelineParts
    <3> QED
      BY <3>1, <3>2
  <2> QED
    BY <1>1, <1>3, <1>6, <1>7, <2>1 DEF PipelineSound
<1>9. /\ jobs' \in [Sets -> Rows]
      /\ \A s \in Sets : jobs'[s].status = "SUCCESS" => jobs[s].status = "SUCCESS"
  <2> DEFINE set == FreshSet \cup {<<l, v>>}
             force == FALSE
  <2>1. jobs' = jobs \/ jobs' = Enqueued(set, force)
    BY <1>2
  <2> HIDE DEF set, force
  <2> QED
    BY <1>1, <2>1, EnqueuedRows
<1> QED
  BY <1>1, <1>3, <1>8, <1>9, AsideContext

LEMMA SnapshotFailsContext ==
    ASSUME ContextInv, NEW l \in Levels, SnapshotFails(l)
    PROVE  ContextInv'
<1>1. PipelineSound /\ jobs \in [Sets -> Rows] /\ events' \in 0..MaxEvents
  BY EventCounted DEF ContextInv, ContextRows, SnapshotFails
<1>2. PICK v \in computing[l] :
        /\ computing' = [computing EXCEPT ![l] = @ \ {v}]
        /\ failed' = [failed EXCEPT ![l] = @ \cup {v}]
  BY DEF SnapshotFails
<1>3. /\ computing' \in [Levels -> SUBSET Signatures]
      /\ failed' \in [Levels -> SUBSET Signatures]
      /\ \A k \in Levels : /\ computing'[k] \subseteq computing[k]
                           /\ failed'[k] \subseteq Versions[k]
  BY <1>1, <1>2, PipelineParts DEF PipelineSound
<1>4. UNCHANGED <<bars, snaps, jobs, runs, contexts, branched, worker, texts>>
  BY DEF SnapshotFails
<1>5. PipelineSound'
  BY <1>1, <1>3, <1>4 DEF PipelineSound
<1> QED
  BY <1>1, <1>4, <1>5, AsideContext

LEMMA BarsMoveContext ==
    ASSUME ContextInv, NEW l \in Levels, BarsMove(l)
    PROVE  ContextInv'
<1>1. PipelineSound /\ jobs \in [Sets -> Rows] /\ events' \in 0..MaxEvents
  BY EventCounted DEF ContextInv, ContextRows, BarsMove
<1>2. PICK v \in Versions[l] : bars' = [bars EXCEPT ![l] = v]
  BY DEF BarsMove
<1>3. /\ bars' \in [Levels -> Signatures \cup {NoBars}]
      /\ \A k \in Levels : bars'[k] \in Versions[k] \cup {NoBars}
  BY <1>1, <1>2, PipelineParts DEF PipelineSound
<1>4. UNCHANGED <<snaps, computing, failed, jobs, runs, contexts, branched, worker, texts>>
  BY DEF BarsMove
<1>5. PipelineSound'
  BY <1>1, <1>3, <1>4 DEF PipelineSound
<1> QED
  BY <1>1, <1>4, <1>5, AsideContext

(* What OneCtxWorker asks of the rows when a worker leaves them alone.     *)
LEMMA RowsOfContext ==
    ASSUME ContextInv
    PROVE  /\ PipelineSound /\ jobs \in [Sets -> Rows] /\ runs \in [Sets -> Runs]
           /\ contexts \in Seq(Contexts) /\ IsInjective(contexts)
           /\ branched \subseteq Range(contexts)
           /\ worker \in [Workers -> CtxWorkers] /\ \A w \in Workers : worker[w] \in CtxWorkers
           /\ texts \in Nat /\ events \in 0..MaxEvents
BY DEF ContextInv, ContextRows

(* A worker that only goes on: to a state that holds what it should.       *)
LEMMA OnlyCtxWorker ==
    ASSUME ContextInv, NEW w \in Workers, NEW state \in CtxWorkers, CtxDoes(w, state),
           UNCHANGED <<pipelineVars, jobs, runs, contexts, branched, texts>>,
           events' \in 0..MaxEvents,
           state.at \notin {"down", "idle", "claim"} => state.source \in Sets,
           state.at \in {"save", "branch"} => state.kind \in Kinds,
           state.at # "branch",
           state.at = "report" => state.verdict # "success"
    PROVE  ContextInv'
<1>1. /\ jobs' \in [Sets -> Rows] /\ runs' \in [Sets -> Runs] /\ texts' \in Nat
      /\ contexts' \in Seq(Contexts) /\ IsInjective(contexts')
      /\ branched' \subseteq Range(contexts') /\ branched \subseteq branched'
      /\ Range(contexts) \subseteq Range(contexts')
      /\ \A s \in Sets : jobs'[s].status = "SUCCESS" => jobs[s].status = "SUCCESS"
  BY RowsOfContext
<1> QED
  BY <1>1, OneCtxWorker

LEMMA StartContext ==
    ASSUME ContextInv, NEW w \in Workers, StartContextWorker(w)
    PROVE  ContextInv'
BY OnlyCtxWorker, CtxStates, RowsOfContext DEF StartContextWorker

LEMMA StopContext ==
    ASSUME ContextInv, NEW w \in Workers, StopContextWorker(w)
    PROVE  ContextInv'
BY OnlyCtxWorker, CtxStates, RowsOfContext, EventCounted DEF StopContextWorker

(* The state of a worker that goes to its next step.                       *)
LEMMA CtxMoved ==
    ASSUME NEW t \in CtxWorkers, NEW step \in CtxSteps
    PROVE  /\ [t EXCEPT !.at = step] \in CtxWorkers
           /\ [t EXCEPT !.at = step].at = step
           /\ [t EXCEPT !.at = step].source = t.source
           /\ [t EXCEPT !.at = step].kind = t.kind
           /\ [t EXCEPT !.at = step].text = t.text
           /\ [t EXCEPT !.at = step].verdict = t.verdict
BY DEF CtxWorkers

LEMMA NoneDueContext ==
    ASSUME ContextInv, NEW w \in Workers, NoContextDue(w)
    PROVE  ContextInv'
<1> DEFINE next == [worker[w] EXCEPT !.at = "idle"]
<1>a. worker[w] \in CtxWorkers /\ "idle" \in CtxSteps
  BY RowsOfContext DEF CtxSteps
<1>1. next \in CtxWorkers /\ next.at = "idle"
  BY <1>a, CtxMoved
<1>2. CtxDoes(w, next)
  BY DEF NoContextDue, CtxGoes
<1> HIDE DEF next
<1> QED
  BY <1>1, <1>2, OnlyCtxWorker, RowsOfContext DEF NoContextDue

LEMMA SweepContext ==
    ASSUME ContextInv, NEW w \in Workers, SweepStale(w)
    PROVE  ContextInv'
<1> DEFINE next == [worker[w] EXCEPT !.at = "claim"]
<1>a. worker[w] \in CtxWorkers /\ "claim" \in CtxSteps
  BY RowsOfContext DEF CtxSteps
<1>1. next \in CtxWorkers /\ next.at = "claim"
  BY <1>a, CtxMoved
<1>2. CtxDoes(w, next) /\ UNCHANGED <<pipelineVars, runs, contexts, branched, texts, events>>
  BY DEF SweepStale, CtxGoes
<1> HIDE DEF next
<1>3. /\ jobs' = [s \in Sets |-> jobs'[s]]
      /\ \A s \in Sets : jobs'[s] = IF Stale(jobs[s]) THEN Swept(jobs[s]) ELSE jobs[s]
  BY DEF SweepStale
<1>4. \A s \in Sets : /\ jobs'[s] \in Rows
                      /\ jobs'[s].status = "SUCCESS" => jobs[s].status = "SUCCESS"
  BY <1>3, SweptRow, RowsOfContext
<1>5. jobs' \in [Sets -> Rows]
  BY <1>3, <1>4
<1> QED
  BY <1>1, <1>2, <1>4, <1>5, OneCtxWorker, RowsOfContext

LEMMA ClaimStepContext ==
    ASSUME ContextInv, NEW w \in Workers, ClaimContext(w)
    PROVE  ContextInv'
<1>1. PICK s \in Sets :
        /\ jobs' = [jobs EXCEPT ![s] = Claimed(jobs[s], w)]
        /\ CtxDoes(w, [CtxIdle EXCEPT !.at = "check", !.source = s, !.id = jobs[s].id])
  BY DEF ClaimContext
<1> DEFINE next == [CtxIdle EXCEPT !.at = "check", !.source = s, !.id = jobs[s].id]
<1>2. jobs[s] \in Rows /\ jobs[s].id \in Nat
  BY RowsOfContext DEF Rows
<1>3. next \in CtxWorkers /\ next.at = "check" /\ next.source = s
  BY <1>2, ZenonT(60) DEF CtxIdle, CtxDown, CtxWorkers, CtxSteps
<1>4. Claimed(jobs[s], w) \in Rows /\ Claimed(jobs[s], w).status # "SUCCESS"
  BY <1>2, ClaimedRow
<1>5. /\ jobs' \in [Sets -> Rows]
      /\ \A r \in Sets : jobs'[r].status = "SUCCESS" => jobs[r].status = "SUCCESS"
  BY <1>1, <1>4, RowsOfContext
<1>6. CtxDoes(w, next) /\ UNCHANGED <<pipelineVars, runs, contexts, branched, texts, events>>
  BY <1>1 DEF ClaimContext
<1> HIDE DEF next
<1> QED
  BY <1>3, <1>5, <1>6, OneCtxWorker, RowsOfContext

(* What a worker at one of its later steps has in hand.                    *)
LEMMA InHandContext ==
    ASSUME ContextInv, NEW w \in Workers
    PROVE  /\ worker[w] \in CtxWorkers /\ Backed(w)
           /\ worker[w].at \in
                 { "check", "think", "summarise", "save", "branch", "report", "count", "fail" }
              => worker[w].source \in Sets
BY RowsOfContext DEF ContextInv, Backed

LEMMA CheckContext ==
    ASSUME ContextInv, NEW w \in Workers, CheckSource(w)
    PROVE  ContextInv'
<1>1. worker[w] \in CtxWorkers /\ worker[w].source \in Sets
  BY InHandContext DEF CheckSource, CtxAt
<1>2. UNCHANGED <<pipelineVars, jobs, runs, contexts, branched, texts, events>>
  BY DEF CheckSource
<1> DEFINE stale == [worker[w] EXCEPT !.at = "report", !.verdict = "stale"]
           asks == [worker[w] EXCEPT !.at = "think"]
           local == [worker[w] EXCEPT !.at = "save", !.kind = "local"]
<1>3. /\ stale \in CtxWorkers /\ stale.at = "report" /\ stale.verdict = "stale"
      /\ stale.source = worker[w].source
  BY <1>1, ZenonT(60) DEF CtxWorkers, CtxSteps
<1>4. asks \in CtxWorkers /\ asks.at = "think" /\ asks.source = worker[w].source
  BY <1>1, CtxMoved DEF CtxSteps
<1>5. /\ local \in CtxWorkers /\ local.at = "save" /\ local.kind = "local"
      /\ local.source = worker[w].source
  BY <1>1, ZenonT(60) DEF CtxWorkers, CtxSteps, Kinds
<1>6. CtxDoes(w, stale) \/ CtxDoes(w, asks) \/ CtxDoes(w, local)
  BY DEF CheckSource, CtxGoes
<1> HIDE DEF stale, asks, local
<1>7. CASE CtxDoes(w, stale)
  BY <1>1, <1>2, <1>3, <1>7, OnlyCtxWorker, RowsOfContext
<1>8. CASE CtxDoes(w, asks)
  BY <1>1, <1>2, <1>4, <1>8, OnlyCtxWorker, RowsOfContext
<1>9. CASE CtxDoes(w, local)
  BY <1>1, <1>2, <1>5, <1>9, OnlyCtxWorker, RowsOfContext DEF Kinds
<1> QED
  BY <1>6, <1>7, <1>8, <1>9

LEMMA SavedIsRun ==
    ASSUME NEW run \in Runs, NEW verdict \in RunStatuses, NEW text \in Nat, NEW summary \in Nat
    PROVE  Saved(run, verdict, text, summary) \in Runs
BY DEF Saved, Runs

LEMMA RunSaved ==
    ASSUME ContextInv, NEW w \in Workers, worker[w].source \in Sets,
           NEW verdict \in RunStatuses, NEW text \in Nat, NEW summary \in Nat,
           SavesRun(w, verdict, text, summary)
    PROVE  runs' \in [Sets -> Runs]
<1>1. runs \in [Sets -> Runs] /\ runs[worker[w].source] \in Runs
  BY RowsOfContext
<1>2. Saved(runs[worker[w].source], verdict, text, summary) \in Runs
  BY <1>1, SavedIsRun
<1> QED
  BY <1>1, <1>2 DEF SavesRun

(* A worker that has saved a run and goes on to another call or to save.   *)
LEMMA RunContext ==
    ASSUME ContextInv, NEW w \in Workers, NEW state \in CtxWorkers, CtxDoes(w, state),
           runs' \in [Sets -> Runs], texts' \in Nat,
           UNCHANGED <<pipelineVars, jobs, contexts, branched, events>>,
           state.source \in Sets, state.at \in {"summarise", "save"},
           state.at = "save" => state.kind \in Kinds
    PROVE  ContextInv'
<1>1. /\ jobs' \in [Sets -> Rows] /\ events' \in 0..MaxEvents
      /\ contexts' \in Seq(Contexts) /\ IsInjective(contexts')
      /\ branched' \subseteq Range(contexts') /\ branched \subseteq branched'
      /\ Range(contexts) \subseteq Range(contexts')
      /\ \A s \in Sets : jobs'[s].status = "SUCCESS" => jobs[s].status = "SUCCESS"
  BY RowsOfContext
<1> QED
  BY <1>1, OneCtxWorker

LEMMA CallFailsContext ==
    ASSUME ContextInv, NEW w \in Workers, worker[w].source \in Sets, CallFails(w),
           UNCHANGED <<pipelineVars, jobs, contexts, branched, events>>
    PROVE  ContextInv'
<1> DEFINE next == [worker[w] EXCEPT !.at = "save", !.kind = "failed", !.text = 0]
<1>1. worker[w] \in CtxWorkers /\ texts \in Nat
  BY RowsOfContext
<1>2. /\ next \in CtxWorkers /\ next.at = "save" /\ next.kind = "failed"
      /\ next.source = worker[w].source
  BY <1>1, ZenonT(60) DEF CtxWorkers, CtxSteps, Kinds
<1>3. SavesRun(w, "FAILED", 0, 0) /\ CtxDoes(w, next) /\ texts' = texts
  BY DEF CallFails
<1> HIDE DEF next
<1>4. "FAILED" \in RunStatuses /\ 0 \in Nat
  BY DEF RunStatuses
<1>5. runs' \in [Sets -> Runs]
  BY <1>3, <1>4, RunSaved
<1>6. next.kind \in Kinds
  BY <1>2 DEF Kinds
<1> QED
  BY <1>1, <1>2, <1>3, <1>5, <1>6, RunContext

LEMMA ThinkContext ==
    ASSUME ContextInv, NEW w \in Workers, Think(w)
    PROVE  ContextInv'
<1>1. worker[w] \in CtxWorkers /\ worker[w].source \in Sets /\ texts \in Nat
  BY InHandContext, RowsOfContext DEF Think, CtxAt
<1>2. UNCHANGED <<pipelineVars, jobs, contexts, branched, events>>
  BY DEF Think
<1>3. CASE CallFails(w)
  BY <1>1, <1>2, <1>3, CallFailsContext
<1>4. CASE /\ texts' = texts + 1
           /\ SavesRun(w, "THINK_SUCCESS", texts + 1, 0)
           /\ CtxDoes(w, [worker[w] EXCEPT !.at = "summarise", !.text = texts + 1])
  <2> DEFINE count == texts + 1
             next == [worker[w] EXCEPT !.at = "summarise", !.text = count]
  <2>1. count \in Nat
    BY <1>1
  <2>2. texts' = count /\ SavesRun(w, "THINK_SUCCESS", count, 0) /\ CtxDoes(w, next)
    BY <1>4
  <2> HIDE DEF count
  <2>3. next \in CtxWorkers /\ next.at = "summarise" /\ next.source = worker[w].source
    BY <1>1, <2>1, ZenonT(60) DEF CtxWorkers, CtxSteps
  <2> HIDE DEF next
  <2>4. "THINK_SUCCESS" \in RunStatuses /\ 0 \in Nat
    BY DEF RunStatuses
  <2>5. runs' \in [Sets -> Runs]
    BY <1>1, <2>1, <2>2, <2>4, RunSaved
  <2> QED
    BY <1>1, <1>2, <2>1, <2>2, <2>3, <2>5, RunContext
<1> QED
  BY <1>3, <1>4 DEF Think

LEMMA SummariseContext ==
    ASSUME ContextInv, NEW w \in Workers, Summarise(w)
    PROVE  ContextInv'
<1>1. /\ worker[w] \in CtxWorkers /\ worker[w].source \in Sets /\ texts \in Nat
      /\ worker[w].text \in Nat
  BY InHandContext, RowsOfContext, CtxParts DEF Summarise, CtxAt
<1>2. UNCHANGED <<pipelineVars, jobs, contexts, branched, events>>
  BY DEF Summarise
<1>3. CASE CallFails(w)
  BY <1>1, <1>2, <1>3, CallFailsContext
<1>4. CASE /\ SavesRun(w, "SUCCESS", worker[w].text, worker[w].text)
           /\ CtxDoes(w, [worker[w] EXCEPT !.at = "save", !.kind = "llm"])
           /\ UNCHANGED texts
  <2> DEFINE next == [worker[w] EXCEPT !.at = "save", !.kind = "llm"]
  <2>1. CtxDoes(w, next)
    BY <1>4
  <2>2. /\ next \in CtxWorkers /\ next.at = "save" /\ next.kind = "llm"
        /\ next.source = worker[w].source
    BY <1>1, ZenonT(60) DEF CtxWorkers, CtxSteps, Kinds
  <2> HIDE DEF next
  <2>3. "SUCCESS" \in RunStatuses /\ next.kind \in Kinds
    BY <2>2 DEF RunStatuses, Kinds
  <2>4. runs' \in [Sets -> Runs]
    BY <1>1, <1>4, <2>3, RunSaved
  <2> QED
    BY <1>1, <1>2, <1>4, <2>1, <2>2, <2>3, <2>4, RunContext
<1> QED
  BY <1>3, <1>4 DEF Summarise

(* save_ai_structure_context                                               *)
LEMMA SaveStepContext ==
    ASSUME ContextInv, NEW w \in Workers, SaveContext(w)
    PROVE  ContextInv'
<1> DEFINE next == [worker[w] EXCEPT !.at = "branch"]
<1>1. /\ worker[w] \in CtxWorkers /\ worker[w].source \in Sets /\ worker[w].text \in Nat
      /\ worker[w].kind \in Kinds /\ "branch" \in CtxSteps
  BY InHandContext, CtxParts DEF SaveContext, CtxAt, Backed, CtxSteps
<1>2. /\ next \in CtxWorkers /\ next.at = "branch" /\ next.source = worker[w].source
      /\ next.kind = worker[w].kind /\ next.text = worker[w].text
  BY <1>1, CtxMoved
<1>3. CtxDoes(w, next) /\ UNCHANGED <<pipelineVars, jobs, runs, branched, texts, events>>
  BY DEF SaveContext, CtxGoes
<1> HIDE DEF next
<1>4. Built(w) \in Contexts
  BY <1>1 DEF Built, Contexts
<1>5. /\ contexts' \in Seq(Contexts) /\ IsInjective(contexts')
      /\ Range(contexts') = Range(contexts) \cup {Built(w)}
  BY <1>4, RowsOfContext, ToTheEnd DEF SaveContext
<1>6. [source |-> next.source, kind |-> next.kind, text |-> next.text] \in Range(contexts')
  BY <1>2, <1>5 DEF Built
<1>7. /\ jobs' \in [Sets -> Rows] /\ runs' \in [Sets -> Runs] /\ texts' \in Nat
      /\ events' \in 0..MaxEvents /\ branched' \subseteq Range(contexts')
      /\ branched \subseteq branched' /\ Range(contexts) \subseteq Range(contexts')
      /\ \A s \in Sets : jobs'[s].status = "SUCCESS" => jobs[s].status = "SUCCESS"
  BY <1>3, <1>5, RowsOfContext
<1> QED
  BY <1>1, <1>2, <1>3, <1>5, <1>6, <1>7, OneCtxWorker

(* upsert_scenario_branches_for_context                                    *)
LEMMA BranchStepContext ==
    ASSUME ContextInv, NEW w \in Workers, SaveBranches(w)
    PROVE  ContextInv'
<1> DEFINE next == [worker[w] EXCEPT !.at = "report", !.verdict = "success"]
<1>1. /\ worker[w] \in CtxWorkers /\ worker[w].source \in Sets
      /\ Built(w) \in Range(contexts) /\ Built(w).source = worker[w].source
  BY InHandContext DEF SaveBranches, CtxAt, Backed, Built
<1>2. /\ next \in CtxWorkers /\ next.at = "report" /\ next.source = worker[w].source
  BY <1>1, ZenonT(60) DEF CtxWorkers, CtxSteps
<1>3. /\ CtxDoes(w, next) /\ branched' = branched \cup {Built(w)}
      /\ UNCHANGED <<pipelineVars, jobs, runs, contexts, texts, events>>
  BY DEF SaveBranches
<1> HIDE DEF next
<1>4. \E c \in branched' : c.source = next.source
  BY <1>1, <1>2, <1>3
<1>5. /\ jobs' \in [Sets -> Rows] /\ runs' \in [Sets -> Runs] /\ texts' \in Nat
      /\ contexts' \in Seq(Contexts) /\ IsInjective(contexts')
      /\ Range(contexts) \subseteq Range(contexts')
      /\ events' \in 0..MaxEvents /\ branched' \subseteq Range(contexts')
      /\ branched \subseteq branched'
      /\ \A s \in Sets : jobs'[s].status = "SUCCESS" => jobs[s].status = "SUCCESS"
  BY <1>1, <1>3, RowsOfContext
<1> QED
  BY <1>1, <1>2, <1>3, <1>4, <1>5, OneCtxWorker

(* A worker that writes the row of its job and puts the job down.          *)
LEMMA PutDownContext ==
    ASSUME ContextInv, NEW w \in Workers, worker[w].source \in Sets, CtxDoes(w, CtxIdle),
           UNCHANGED <<pipelineVars, runs, contexts, branched, texts, events>>,
           NEW row \in Rows,
           row.status = "SUCCESS" =>
               \/ jobs[worker[w].source].status = "SUCCESS"
               \/ \E c \in branched : c.source = worker[w].source,
           jobs' = jobs \/ jobs' = [jobs EXCEPT ![worker[w].source] = row]
    PROVE  ContextInv'
<1>1. /\ jobs' \in [Sets -> Rows]
      /\ \A s \in Sets : jobs'[s] = jobs[s] \/ (s = worker[w].source /\ jobs'[s] = row)
  BY RowsOfContext
<1>2. \A s \in Sets : jobs'[s].status = "SUCCESS" =>
          jobs[s].status = "SUCCESS" \/ \E c \in branched' : c.source = s
  BY <1>1
<1>3. /\ runs' \in [Sets -> Runs] /\ texts' \in Nat
      /\ contexts' \in Seq(Contexts) /\ IsInjective(contexts')
      /\ branched' \subseteq Range(contexts') /\ branched \subseteq branched'
      /\ Range(contexts) \subseteq Range(contexts') /\ events' \in 0..MaxEvents
  BY RowsOfContext
<1> QED
  BY <1>1, <1>2, <1>3, CtxStates, OneCtxWorker

(* _complete_job and _skip_job: a success is reported with its branches    *)
(* made.                                                                   *)
LEMMA ReportStepContext ==
    ASSUME ContextInv, NEW w \in Workers, ReportContext(w)
    PROVE  ContextInv'
<1>1. /\ worker[w].source \in Sets
      /\ worker[w].verdict = "success" =>
            \E c \in branched : c.source = worker[w].source
  BY InHandContext DEF ReportContext, CtxAt, Backed
<1> DEFINE row == jobs[worker[w].source]
           ended == IF worker[w].verdict = "success" THEN Completed(row) ELSE Skipped(row)
<1>2. row \in Rows
  BY <1>1, RowsOfContext
<1>3. /\ ended \in Rows
      /\ ended.status = "SUCCESS" => worker[w].verdict = "success"
  BY <1>2, CompletedRow, SkippedRow
<1>4. /\ CtxDoes(w, CtxIdle)
      /\ jobs' = jobs \/ jobs' = [jobs EXCEPT ![worker[w].source] = ended]
      /\ UNCHANGED <<pipelineVars, runs, contexts, branched, texts, events>>
  BY DEF ReportContext
<1> HIDE DEF ended
<1> QED
  BY <1>1, <1>3, <1>4, PutDownContext

LEMMA CountContext ==
    ASSUME ContextInv, NEW w \in Workers, CountAttempts(w)
    PROVE  ContextInv'
<1> DEFINE count == IF OwnsRow(w) THEN jobs[worker[w].source].retries ELSE 0
           next == [worker[w] EXCEPT !.at = "fail", !.read = count]
<1>1. worker[w] \in CtxWorkers /\ worker[w].source \in Sets
  BY InHandContext DEF CountAttempts, CtxAt
<1>2. count \in Nat
  BY <1>1, RowsOfContext DEF Rows
<1>3. CtxDoes(w, next) /\ UNCHANGED <<pipelineVars, jobs, runs, contexts, branched, texts, events>>
  BY DEF CountAttempts
<1> HIDE DEF count
<1>4. next \in CtxWorkers /\ next.at = "fail" /\ next.source = worker[w].source
  BY <1>1, <1>2, ZenonT(60) DEF CtxWorkers, CtxSteps
<1> HIDE DEF next
<1> QED
  BY <1>1, <1>3, <1>4, OnlyCtxWorker, RowsOfContext

LEMMA FailStepContext ==
    ASSUME ContextInv, NEW w \in Workers, FailContext(w)
    PROVE  ContextInv'
<1> DEFINE again == TRUE
           code == "CONTEXT_ERROR"
           row == Failed(jobs[worker[w].source], worker[w].read, code, again)
<1>1. worker[w].source \in Sets /\ worker[w].read \in Nat
  BY InHandContext, CtxParts DEF FailContext, CtxAt
<1>2. again \in BOOLEAN /\ code \in ErrorCodes
  BY DEF ErrorCodes
<1>3. /\ CtxDoes(w, CtxIdle)
      /\ jobs' = jobs \/ jobs' = [jobs EXCEPT ![worker[w].source] = row]
      /\ UNCHANGED <<pipelineVars, runs, contexts, branched, texts, events>>
  BY DEF FailContext
<1> HIDE DEF again, code
<1>4. row \in Rows /\ row.status # "SUCCESS"
  BY <1>1, <1>2, RowsOfContext, FailedRow
<1> HIDE DEF row
<1> QED
  BY <1>1, <1>3, <1>4, PutDownContext

LEMMA RaisesContext ==
    ASSUME ContextInv, NEW w \in Workers, ContextRaises(w)
    PROVE  ContextInv'
<1> DEFINE next == [worker[w] EXCEPT !.at = "count", !.verdict = ""]
<1>1. worker[w] \in CtxWorkers /\ worker[w].source \in Sets /\ events' \in 0..MaxEvents
  BY InHandContext, RowsOfContext, EventCounted DEF ContextRaises
<1>2. CtxDoes(w, next) /\ UNCHANGED <<pipelineVars, jobs, runs, contexts, branched, texts>>
  BY DEF ContextRaises
<1>3. next \in CtxWorkers /\ next.at = "count" /\ next.source = worker[w].source
  BY <1>1, ZenonT(60) DEF CtxWorkers, CtxSteps
<1> HIDE DEF next
<1> QED
  BY <1>1, <1>2, <1>3, OnlyCtxWorker

LEMMA ExpiresContext ==
    ASSUME ContextInv, NEW s \in Sets, ContextLockExpires(s)
    PROVE  ContextInv'
<1>1. /\ PipelineSound /\ jobs \in [Sets -> Rows] /\ events \in 0..MaxEvents
  BY RowsOfContext
<1>2. /\ jobs' = [jobs EXCEPT ![s] = [jobs[s] EXCEPT !.expired = TRUE]]
      /\ UNCHANGED <<pipelineVars, runs, contexts, branched, worker, texts, events>>
  BY DEF ContextLockExpires
<1>3. /\ [jobs[s] EXCEPT !.expired = TRUE] \in Rows
      /\ [jobs[s] EXCEPT !.expired = TRUE].status = jobs[s].status
  BY <1>1, ExpiredRow
<1>4. /\ jobs' \in [Sets -> Rows]
      /\ \A r \in Sets : jobs'[r].status = "SUCCESS" => jobs[r].status = "SUCCESS"
  BY <1>1, <1>2, <1>3
<1>5. PipelineSound'
  BY <1>1, <1>2 DEF PipelineSound, pipelineVars
<1> QED
  BY <1>1, <1>2, <1>4, <1>5, AsideContext

LEMMA StutterContext ==
    ASSUME ContextInv, UNCHANGED ctxVars
    PROVE  ContextInv'
<1>1. /\ PipelineSound /\ jobs \in [Sets -> Rows] /\ events \in 0..MaxEvents
  BY RowsOfContext
<1>2. UNCHANGED <<pipelineVars, jobs, runs, contexts, branched, worker, texts, events>>
  BY DEF ctxVars, pipelineVars
<1>3. PipelineSound'
  BY <1>1, <1>2 DEF PipelineSound, pipelineVars
<1> QED
  BY <1>1, <1>2, <1>3, AsideContext

LEMMA StepContext ==
    ASSUME ContextInv, [ContextNext]_ctxVars
    PROVE  ContextInv'
<1>1. CASE Ensure
  BY <1>1, EnsureContext
<1>2. CASE Regenerate
  BY <1>2, RegenerateContext
<1>3. CASE \E l \in Levels : SnapshotDone(l) \/ SnapshotFails(l) \/ BarsMove(l)
  BY <1>3, SnapshotDoneContext, SnapshotFailsContext, BarsMoveContext
<1>4. CASE \E w \in Workers :
              StartContextWorker(w) \/ ContextStep(w) \/ ContextRaises(w) \/ StopContextWorker(w)
  <2>1. PICK w \in Workers :
            StartContextWorker(w) \/ ContextStep(w) \/ ContextRaises(w) \/ StopContextWorker(w)
    BY <1>4
  <2>2. CASE ContextStep(w)
    BY <2>2, SweepContext, ClaimStepContext, NoneDueContext, CheckContext, ThinkContext,
       SummariseContext, SaveStepContext, BranchStepContext, ReportStepContext, CountContext,
       FailStepContext
    DEF ContextStep
  <2> QED
    BY <2>1, <2>2, StartContext, RaisesContext, StopContext
<1>5. CASE \E s \in Sets : ContextLockExpires(s)
  BY <1>5, ExpiresContext
<1>6. CASE UNCHANGED ctxVars
  BY <1>6, StutterContext
<1> QED
  BY <1>1, <1>2, <1>3, <1>4, <1>5, <1>6 DEF ContextNext

(* The rows of the context pipeline are of their types, and a context job  *)
(* is a success only with its context and the branches of it there         *)
(* (run_context_job), whatever stops, raises or takes over on the way:     *)
(* also where a job takes longer than its lock.                            *)
THEOREM SuccessesHaveContexts == ContextSpec => [](ContextTypeOK /\ SuccessHasContext)
<1>1. ContextInv => ContextTypeOK /\ SuccessHasContext
  BY SoundIsTyped DEF ContextInv
<1> QED
  BY <1>1, InitContext, StepContext, PTL DEF ContextSpec

-----------------------------------------------------------------------------
(* Both lanes of the run "scenarios".                                      *)

(* What the run checks of both, from what each keeps in every lane.        *)
THEOREM ScenariosAreSound == FairSpec => []ScenariosSound
<1>1. MCInit => ContextInv /\ ScenarioInv
  BY InitContext, InitScenario DEF MCInit
<1>2. ContextInv /\ ScenarioInv /\ [MCNext]_vars => (ContextInv /\ ScenarioInv)'
  <2> SUFFICES ASSUME ContextInv, ScenarioInv, [MCNext]_vars
               PROVE  (ContextInv /\ ScenarioInv)'
    OBVIOUS
  <2>1. [ContextNext]_ctxVars /\ [ScenarioNext]_scenarioVars
    BY DEF MCNext, InContexts, InScenarios, vars
  <2> QED
    BY <2>1, StepContext, StepScenario
<1>3. ContextInv /\ ScenarioInv => ScenariosSound
  BY SoundIsTyped, TypeIsRows DEF ContextInv, ScenarioInv, ScenariosSound
<1> QED
  BY <1>1, <1>2, <1>3, PTL DEF FairSpec
=============================================================================
