------------------------- MODULE ChannelSelectProofs -------------------------
(***************************************************************************)
(* Proofs about ChannelSelect, for every number of groups and retries, all *)
(* channels, priorities and weights, and any number of changes of the      *)
(* routes.                                                                 *)
(***************************************************************************)
EXTENDS ChannelSelect, FiniteSetTheorems, WellFoundedInduction, TLAPS

-----------------------------------------------------------------------------
(* Least and greatest elements. *)

(* Every set of natural numbers has a least element. *)
LEMMA MinLemma ==
    ASSUME NEW S \in SUBSET Nat, S # {}
    PROVE  Min(S) \in S /\ \A x \in S : Min(S) <= x
  <1> DEFINE R == {p \in Nat \X Nat : p[1] < p[2]}
  <1>1. IsWellFoundedOn(R, Nat)
    BY NatLessThanWellFounded DEF OpToRel
  <1>2. PICK m \in S : \A y \in S : ~(<<y, m>> \in R)
    <2> HIDE DEF R
    <2> QED
      BY <1>1, WFMin
  <1>3. ASSUME NEW y \in S PROVE m <= y
    <2>1. y \in Nat /\ m \in Nat
      OBVIOUS
    <2>2. ~(<<y, m>> \in R)
      BY <1>2
    <2>3. ~(y < m)
      BY <2>1, <2>2
    <2> QED
      BY <2>1, <2>3
  <1> QED
    BY <1>3 DEF Min

(* A set of natural numbers with a bound has a greatest one. *)
LEMMA MaxLemma ==
    ASSUME NEW S \in SUBSET Nat, S # {}, NEW b \in Nat, \A x \in S : x <= b
    PROVE  Max(S) \in S /\ \A x \in S : x <= Max(S)
  <1> DEFINE U == {u \in Nat : \A x \in S : x <= u}
             m == Min(U)
  <1>1. m \in U /\ \A u \in U : m <= u
    BY MinLemma
  <1>2. m \in S
    <2> SUFFICES ASSUME m \notin S PROVE FALSE
      OBVIOUS
    <2> HIDE DEF m
    <2>1. m > 0 /\ m - 1 \in U
      <3>1. m \in Nat /\ \A x \in S : x \in Nat /\ x < m
        BY <1>1
      <3>2. PICK x \in S : TRUE
        OBVIOUS
      <3>3. m > 0 /\ m - 1 \in Nat
        BY <3>1, <3>2
      <3>4. \A z \in S : z <= m - 1
        BY <3>1
      <3> QED
        BY <3>3, <3>4
    <2> QED
      BY <1>1, <2>1
  <1> HIDE DEF m
  <1> QED
    BY <1>1, <1>2 DEF Max

(* The lesser of two numbers. *)
LEMMA LesserLemma ==
    ASSUME NEW x \in Nat, NEW y \in Nat
    PROVE  Min({x, y}) = IF x <= y THEN x ELSE y
  <1>1. Min({x, y}) \in {x, y} /\ Min({x, y}) <= x /\ Min({x, y}) <= y
    BY MinLemma
  <1> QED
    BY <1>1

-----------------------------------------------------------------------------
(* Priorities. *)

(* Rank is a number, bounded by the number of channels, and a higher       *)
(* priority has a smaller one.                                             *)
LEMMA RankLemma ==
    ASSUME NEW cs \in SUBSET Channels, NEW c \in cs
    PROVE  /\ Rank(c, cs) \in Nat /\ Rank(c, cs) <= Cardinality(Channels)
           /\ \A d \in cs : Priority[d] > Priority[c] => Rank(d, cs) < Rank(c, cs)
  <1> DEFINE E(x) == {e \in cs : Priority[e] > Priority[x]}
             H(x) == {Priority[d] : d \in E(x)}
  <1>1. IsFiniteSet(Channels) /\ Cardinality(Channels) \in Nat
        /\ Priority \in [Channels -> Nat]
    BY SelectAssumption, FS_CardinalityType
  <1>2. ASSUME NEW x \in cs
        PROVE  /\ IsFiniteSet(H(x)) /\ Rank(x, cs) = Cardinality(H(x))
               /\ Rank(x, cs) \in Nat /\ Rank(x, cs) <= Cardinality(Channels)
    <2>1. E(x) \in SUBSET Channels
      OBVIOUS
    <2>2. IsFiniteSet(E(x)) /\ Cardinality(E(x)) <= Cardinality(Channels)
      BY <1>1, <2>1, FS_Subset
    <2>3. [d \in E(x) |-> Priority[d]] \in Surjection(E(x), H(x))
      BY DEF Surjection
    <2>4. Rank(x, cs) = Cardinality(H(x))
      BY DEF Rank
    <2> HIDE DEF H, E
    <2>5. IsFiniteSet(H(x)) /\ Cardinality(H(x)) <= Cardinality(E(x))
      BY <2>2, <2>3, FS_Surjection
    <2>6. Cardinality(H(x)) \in Nat /\ Cardinality(E(x)) \in Nat
      BY <2>2, <2>5, FS_CardinalityType
    <2> QED
      BY <1>1, <2>2, <2>4, <2>5, <2>6
  <1>3. ASSUME NEW d \in cs, Priority[d] > Priority[c]
        PROVE  Rank(d, cs) < Rank(c, cs)
    <2>1. \A e \in cs : Priority[e] \in Nat
      BY <1>1
    <2>2. H(d) \subseteq H(c)
      BY <1>3, <2>1
    <2>3. Priority[d] \in H(c) /\ Priority[d] \notin H(d)
      BY <1>3, <2>1
    <2>4. IsFiniteSet(H(c)) /\ Rank(c, cs) = Cardinality(H(c)) /\ Rank(c, cs) \in Nat
          /\ Rank(d, cs) = Cardinality(H(d)) /\ Rank(d, cs) \in Nat
      BY <1>2
    <2> HIDE DEF H
    <2>5. Cardinality(H(d)) <= Cardinality(H(c)) /\ Cardinality(H(d)) # Cardinality(H(c))
      BY <2>2, <2>3, <2>4, FS_Subset
    <2> QED
      BY <2>4, <2>5
  <1> QED
    BY <1>2, <1>3

(* Equal ranks are equal priorities. *)
LEMMA SameRank ==
    ASSUME NEW cs \in SUBSET Channels, NEW c \in cs, NEW d \in cs,
           Rank(c, cs) = Rank(d, cs)
    PROVE  Priority[c] = Priority[d]
  <1>1. Priority[c] \in Nat /\ Priority[d] \in Nat
    BY SelectAssumption
  <1>2. Rank(c, cs) \in Nat /\ ~(Priority[d] > Priority[c]) /\ ~(Priority[c] > Priority[d])
    BY RankLemma
  <1> QED
    BY <1>1, <1>2

(* GetRandomSatisfiedChannel returns a channel of the group, of the r-th   *)
(* priority or, if there are fewer, of the lowest.                         *)
LEMMA SatisfiedLemma ==
    ASSUME routes \subseteq Channels, NEW g, NEW r \in Nat, NEW c \in Satisfied(g, r)
    PROVE  /\ InGroup(g) = {} => c = None
           /\ InGroup(g) # {} =>
                /\ c \in InGroup(g)
                /\ Rank(c, InGroup(g)) <= r
                /\ \A d \in InGroup(g) : Rank(d, InGroup(g)) = r => Rank(c, InGroup(g)) = r
  <1>1. CASE InGroup(g) = {}
    BY <1>1 DEF Satisfied
  <1>2. CASE InGroup(g) # {}
    <2> DEFINE cs == InGroup(g)
               R == {Rank(x, cs) : x \in cs}
               level == Min({r, Max(R)})
    <2>1. cs \in SUBSET Channels
      BY DEF InGroup
    <2>2. R \in SUBSET Nat /\ R # {} /\ \A x \in R : x <= Cardinality(Channels)
      BY <1>2, <2>1, RankLemma
    <2>3. Cardinality(Channels) \in Nat
      BY SelectAssumption, FS_CardinalityType
    <2>4. Max(R) \in R /\ \A x \in R : x <= Max(R)
      <3> HIDE DEF R
      <3> QED
        BY <2>2, <2>3, MaxLemma
    <2>5. level = IF r <= Max(R) THEN r ELSE Max(R)
      <3> HIDE DEF R
      <3> QED
        BY <2>2, <2>4, LesserLemma
    <2>6. c \in cs /\ Rank(c, cs) = level
      BY <1>2 DEF Satisfied
    <2>7. \A d \in cs : Rank(d, cs) \in Nat /\ Rank(d, cs) <= Max(R)
      BY <2>2, <2>4
    <2>8. Max(R) \in Nat
      BY <2>2, <2>4
    <2> HIDE DEF cs, R, level
    <2>9. level <= r /\ \A d \in cs : Rank(d, cs) = r => level = r
      BY <2>5, <2>7, <2>8
    <2> QED
      BY <1>2, <2>6, <2>9 DEF cs
  <1> QED
    BY <1>1, <1>2

(* The next group has a route, and none before it has. *)
LEMMA NextGroupLemma ==
    ASSUME index \in 1 .. NGroups + 1
    PROVE  /\ NextGroup \in 1 .. NGroups + 1 /\ NextGroup >= index
           /\ \A g \in 1 .. NGroups : g >= index /\ g < NextGroup => InGroup(g) = {}
           /\ NextGroup <= NGroups => InGroup(NextGroup) # {}
  <1> DEFINE S == {g \in index .. NGroups : InGroup(g) # {}} \cup {NGroups + 1}
  <1>1. NGroups \in Nat
    BY SelectAssumption
  <1>2. S \in SUBSET Nat /\ S # {} /\ \A g \in S : g >= index /\ g <= NGroups + 1
    BY <1>1
  <1>3. NextGroup \in S /\ \A g \in S : NextGroup <= g
    BY <1>2, MinLemma DEF NextGroup
  <1>4. NextGroup \in 1 .. NGroups + 1 /\ NextGroup >= index
    BY <1>1, <1>2, <1>3
  <1>5. NextGroup <= NGroups => InGroup(NextGroup) # {}
    BY <1>1, <1>3
  <1>6. ASSUME NEW g \in 1 .. NGroups, g >= index, g < NextGroup
        PROVE  InGroup(g) = {}
    <2>1. g \notin S
      BY <1>3, <1>4, <1>6
    <2> QED
      BY <1>1, <1>6, <2>1
  <1> QED
    BY <1>4, <1>5, <1>6

-----------------------------------------------------------------------------
(* The inductive invariant. *)

(* The group a request is in, and that it has asked the first n of its     *)
(* priorities.                                                             *)
Where == IF auto THEN index ELSE 1
Deep(g, n) ==
    \A d \in InGroup(g) : Rank(d, InGroup(g)) < n =>
        \E t \in tried : GroupOf[t] = g /\ Priority[t] = Priority[d]

(* Nothing has happened before the first choice. *)
Begins == phase = "distribute" =>
    /\ attempts = 0 /\ retry = 0 /\ reset = FALSE
    /\ index = 1 /\ autoGroup = 0 /\ tried = {}

(* The context of a token with a group of its own is not used. *)
Single == ~auto => index = 1 /\ autoGroup = 0 /\ reset = FALSE

(* The reset mark is set when a group starts again at its top. *)
Fresh == reset => retry = 0

(* Without retries there is no second choice. *)
NoRetries == RetryTimes = 0 => phase # "retry" /\ reset = FALSE

(* What the groups before the current one, and n attempts, add up to. *)
Spent(n) == (RetryTimes + 1) * (index - 1) + n

(* The attempts are paid for by the groups that were left and by the       *)
(* retries of the current one.                                             *)
Bounded ==
    /\ attempts <= MaxAttempts
    /\ phase = "ask" => retry <= RetryTimes /\ attempts <= Spent(retry + IF reset THEN 0 ELSE 1)
    /\ phase = "retry" => retry <= RetryTimes /\ reset = FALSE /\ attempts <= Spent(retry)

Priced == phase \in {"ask", "served"} => GroupOf[channel] = usingGroup

(* With cross-group retry the groups before the index have been asked, and *)
(* the current one is left before its retries run out.                     *)
Passed == auto /\ cross /\ RetryTimes > 0 =>
    /\ phase \notin {"failed", "refused"} =>
          \A c \in stable : GroupOf[c] < index => \E d \in tried : GroupOf[d] = GroupOf[c]
    /\ phase = "ask" => retry < RetryTimes
    /\ phase = "exhausted" => index = NGroups + 1

(* The retries count the priorities of the current group. *)
Descends == changes = 0 /\ ~affinity =>
    /\ phase = "ask" /\ reset = FALSE /\ RetryTimes > 0 => Deep(Where, retry + 1)
    /\ phase = "retry" => Deep(Where, retry)

SelectInv ==
    /\ SearchTypes /\ Begins /\ Single /\ Fresh /\ NoRetries
    /\ Bounded /\ Priced /\ Passed /\ Descends /\ HigherFirst

-----------------------------------------------------------------------------
(* Arithmetic of the bound. *)

(* Multiples of the attempts a group allows: monotone, and one more group  *)
(* adds RetryTimes + 1.                                                    *)
LEMMA ProductLemma ==
    ASSUME NEW x \in Nat, NEW y \in Nat, x <= y
    PROVE  /\ (RetryTimes + 1) * x \in Nat
           /\ (RetryTimes + 1) * x <= (RetryTimes + 1) * y
           /\ (RetryTimes + 1) * (x + 1) = (RetryTimes + 1) * x + RetryTimes + 1
  BY SelectAssumption, SMTT(30)

(* The bound on the attempts, by the kind of token. *)
LEMMA MaxAttemptsLemma ==
    ASSUME auto \in BOOLEAN
    PROVE  /\ MaxAttempts \in Nat /\ MaxAttempts >= RetryTimes + 1
           /\ auto => MaxAttempts = (RetryTimes + 1) * NGroups
           /\ ~auto => MaxAttempts = RetryTimes + 1
  <1>1. RetryTimes \in Nat /\ NGroups \in Nat /\ NGroups >= 1
    BY SelectAssumption
  <1>2. (RetryTimes + 1) * 1 = RetryTimes + 1
    BY <1>1
  <1>3. (RetryTimes + 1) * NGroups \in Nat /\ (RetryTimes + 1) * 1 <= (RetryTimes + 1) * NGroups
    BY <1>1, ProductLemma
  <1> QED
    BY <1>1, <1>2, <1>3 DEF MaxAttempts

(* One attempt more. *)
LEMMA AskLemma ==
    ASSUME SearchTypes, NEW c \in Channels, Ask(c), UNCHANGED token
    PROVE  /\ phase' = "ask" /\ channel' = c /\ tried' = tried \cup {c}
           /\ attempts' \in 0 .. (MaxAttempts + 1)' /\ attempts' <= attempts + 1
           /\ MaxAttempts' = MaxAttempts
  <1>1. auto \in BOOLEAN /\ attempts \in 0 .. MaxAttempts + 1
    BY DEF SearchTypes
  <1>2. MaxAttempts \in Nat
    BY <1>1, MaxAttemptsLemma
  <1>3. MaxAttempts' = MaxAttempts
    BY DEF MaxAttempts, token
  <1>4. attempts' = Min({attempts + 1, MaxAttempts + 1})
    BY DEF Ask
  <1>5. attempts + 1 \in Nat /\ MaxAttempts + 1 \in Nat
    BY <1>1, <1>2
  <1>6. attempts' = IF attempts + 1 <= MaxAttempts + 1 THEN attempts + 1 ELSE MaxAttempts + 1
    BY <1>4, <1>5, LesserLemma
  <1>7. attempts' \in 0 .. (MaxAttempts + 1) /\ attempts' <= attempts + 1
    BY <1>1, <1>2, <1>5, <1>6
  <1> QED
    BY <1>3, <1>7 DEF Ask

(* What a selection is: the group g at a depth, and whether it is spent.   *)
Selected(s, r, g, depth, spent) ==
    /\ s.channel \in Satisfied(g, depth)
    /\ auto =>
         /\ g = NextGroup /\ depth = (IF g = index THEN r ELSE 0)
         /\ spent <=> cross /\ depth >= RetryTimes /\ g <= NGroups
         /\ s.index = (IF spent THEN g + 1 ELSE g)
         /\ s.retry = (IF spent THEN 0 ELSE depth)
         /\ s.reset = spent
         /\ s.group = (IF s.channel = None THEN autoGroup ELSE g)
    /\ ~auto =>
         /\ g = 1 /\ depth = r /\ spent = FALSE
         /\ s.index = index /\ s.retry = r /\ s.reset = FALSE /\ s.group = autoGroup

(* Everything CacheGetRandomSatisfiedChannel may return is a selection     *)
(* from one group at one depth.                                            *)
LEMMA SelectionLemma ==
    ASSUME SearchTypes, NEW r \in 0 .. RetryTimes, NEW s \in Selections(r)
    PROVE  \E g \in 1 .. NGroups + 1, depth \in 0 .. r, spent \in BOOLEAN :
              Selected(s, r, g, depth, spent)
  <1>1. index \in 1 .. NGroups + 1 /\ auto \in BOOLEAN /\ RetryTimes \in Nat /\ NGroups \in Nat
    BY SelectAssumption DEF SearchTypes
  <1>2. CASE auto
    <2>1. PICK g \in 1 .. NGroups + 1 : g = NextGroup
      BY <1>1, NextGroupLemma
    <2>2. PICK depth \in 0 .. r : depth = IF g = index THEN r ELSE 0
      BY <1>1
    <2>3. PICK spent \in BOOLEAN : spent = (cross /\ depth >= RetryTimes /\ g <= NGroups)
      OBVIOUS
    <2>4. s \in {Selection(c, g, IF spent THEN g + 1 ELSE g, IF spent THEN 0 ELSE depth, spent)
                    : c \in Satisfied(g, depth)}
      BY <1>2, <2>1, <2>2, <2>3 DEF Selections, AutoSelections
    <2>5. PICK c \in Satisfied(g, depth) :
             s = Selection(c, g, IF spent THEN g + 1 ELSE g, IF spent THEN 0 ELSE depth, spent)
      BY <2>4
    <2>6. Selected(s, r, g, depth, spent)
      BY <1>2, <2>1, <2>2, <2>3, <2>5 DEF Selected, Selection
    <2> QED
      BY <2>6
  <1>3. CASE ~auto
    <2>1. PICK c \in Satisfied(1, r) : s = Selection(c, autoGroup, index, r, FALSE)
      BY <1>3 DEF Selections
    <2>2. Selected(s, r, 1, r, FALSE)
      BY <1>3, <2>1 DEF Selected, Selection
    <2>3. 1 \in 1 .. NGroups + 1 /\ r \in 0 .. r
      BY <1>1
    <2> QED
      BY <2>2, <2>3
  <1> QED
    BY <1>2, <1>3

-----------------------------------------------------------------------------
(* The choice of a channel. *)

(* What HigherFirst says of the channels asked so far. *)
Ordered ==
    \A c \in tried : \A d \in InGroup(GroupOf[c]) :
        Priority[d] > Priority[c] =>
            \E t \in tried : GroupOf[t] = GroupOf[c] /\ Priority[t] = Priority[d]

(* Asking a channel at the depth that was reached goes one deeper. *)
LEMMA Deeper ==
    ASSUME SearchTypes, NEW g, NEW depth \in Nat, NEW c \in Satisfied(g, depth),
           InGroup(g) # {}, Deep(g, depth), Ordered,
           tried' = tried \cup {c}, UNCHANGED routes
    PROVE  Deep(g, depth + 1)' /\ Ordered'
  <1> DEFINE cs == InGroup(g)
  <1>1. routes \subseteq Channels /\ cs \in SUBSET Channels /\ \A x : InGroup(x)' = InGroup(x)
    BY DEF SearchTypes, InGroup
  <1>2. c \in cs /\ Rank(c, cs) <= depth /\ \A d \in cs : Rank(d, cs) = depth => Rank(c, cs) = depth
    BY <1>1, SatisfiedLemma
  <1>3. GroupOf[c] = g
    BY <1>2 DEF InGroup
  <1>4. \A d \in cs : Rank(d, cs) \in Nat
    BY <1>1, RankLemma
  <1>5. ASSUME NEW d \in cs, Rank(d, cs) < depth + 1
        PROVE  \E t \in tried \cup {c} : GroupOf[t] = g /\ Priority[t] = Priority[d]
    <2>1. CASE Rank(d, cs) < depth
      BY <2>1 DEF Deep
    <2>2. CASE Rank(d, cs) = depth
      BY <1>1, <1>2, <1>3, <2>2, SameRank
    <2> QED
      BY <1>4, <1>5, <2>1, <2>2
  <1>6. Deep(g, depth + 1)'
    BY <1>1, <1>5 DEF Deep
  <1>7. ASSUME NEW d \in cs, Priority[d] > Priority[c]
        PROVE  \E t \in tried : GroupOf[t] = g /\ Priority[t] = Priority[d]
    <2>1. Rank(d, cs) < Rank(c, cs)
      BY <1>1, <1>2, <1>7, RankLemma
    <2>2. Rank(d, cs) < depth
      BY <1>2, <1>4, <2>1
    <2> QED
      BY <2>2 DEF Deep
  <1>8. Ordered'
    <2> SUFFICES ASSUME NEW x \in tried \cup {c}, NEW d \in InGroup(GroupOf[x]),
                        Priority[d] > Priority[x]
                 PROVE  \E t \in tried \cup {c} : GroupOf[t] = GroupOf[x] /\ Priority[t] = Priority[d]
      BY <1>1 DEF Ordered
    <2>1. CASE x = c
      BY <1>3, <1>7, <2>1
    <2>2. CASE x \in tried
      BY <2>2 DEF Ordered
    <2> QED
      BY <2>1, <2>2
  <1> QED
    BY <1>6, <1>8

(* The facts about a choice of another channel, common to Distribute and   *)
(* Retry: its group, the attempts, the groups passed and the priorities.   *)
LEMMA ChosenLemma ==
    ASSUME SelectInv, phase \in {"distribute", "retry"},
           NEW s \in Selections(retry), s.channel # None,
           NEW g \in 1 .. NGroups + 1, NEW depth \in 0 .. retry, NEW spent \in BOOLEAN,
           Selected(s, retry, g, depth, spent),
           tried' = tried \cup {s.channel}, UNCHANGED <<token, env, affinity>>
    PROVE  /\ s.channel \in Channels /\ GroupOf[s.channel] = g /\ g <= NGroups
           /\ RatioGroup(s.group) = g /\ s.group \in 0 .. NGroups
           /\ s.index \in 1 .. NGroups + 1
           /\ attempts + 1 <= MaxAttempts
           /\ attempts + 1 <= (RetryTimes + 1) * (s.index - 1) + s.retry + IF s.reset THEN 0 ELSE 1
           /\ auto /\ cross /\ RetryTimes > 0 =>
                /\ s.retry < RetryTimes
                /\ \A x \in stable : GroupOf[x] < s.index =>
                      \E d \in tried' : GroupOf[d] = GroupOf[x]
           /\ changes = 0 /\ ~affinity =>
                /\ Ordered'
                /\ s.reset = FALSE /\ auto => Deep(s.index, s.retry + 1)'
                /\ s.reset = FALSE /\ ~auto => Deep(1, s.retry + 1)'
  <1> DEFINE c == s.channel
  <1>1. /\ auto \in BOOLEAN /\ cross \in BOOLEAN /\ routes \subseteq Channels /\ stable \subseteq routes
        /\ index \in 1 .. NGroups + 1 /\ autoGroup \in 0 .. NGroups
        /\ attempts \in Nat /\ RetryTimes \in Nat /\ NGroups \in Nat
        /\ retry \in Nat /\ retry <= RetryTimes
    <2>1. /\ auto \in BOOLEAN /\ cross \in BOOLEAN /\ routes \subseteq Channels /\ stable \subseteq routes
          /\ index \in 1 .. NGroups + 1 /\ autoGroup \in 0 .. NGroups
          /\ attempts \in Nat /\ retry \in Nat
      BY DEF SelectInv, SearchTypes
    <2>2. RetryTimes \in Nat /\ NGroups \in Nat
      BY SelectAssumption
    <2>3. retry <= RetryTimes
      <3>1. CASE phase = "distribute"
        BY <2>2, <3>1 DEF SelectInv, Begins
      <3>2. CASE phase = "retry"
        BY <3>2 DEF SelectInv, Bounded
      <3> QED
        BY <3>1, <3>2
    <2> QED
      BY <2>1, <2>2, <2>3
  <1>2. c \in Satisfied(g, depth) /\ depth \in Nat /\ depth <= RetryTimes /\ g \in Nat
    BY <1>1 DEF Selected
  <1>3. InGroup(g) # {} /\ c \in InGroup(g)
    BY <1>1, <1>2, SatisfiedLemma
  <1>4. c \in Channels /\ c \in routes /\ GroupOf[c] = g
    BY <1>1, <1>3 DEF InGroup
  <1>5. g \in 1 .. NGroups
    BY <1>4, SelectAssumption
  <1>6. RatioGroup(s.group) = g /\ s.group \in 0 .. NGroups
    <2>1. CASE auto
      <3>1. s.group = g
        BY <2>1 DEF Selected
      <3> QED
        BY <1>1, <1>5, <3>1 DEF RatioGroup
    <2>2. CASE ~auto
      <3>1. s.group = autoGroup /\ autoGroup = 0 /\ g = 1
        BY <2>2 DEF Selected, SelectInv, Single
      <3> QED
        BY <1>1, <3>1 DEF RatioGroup
    <2> QED
      BY <2>1, <2>2
  <1>7. attempts <= (RetryTimes + 1) * (index - 1) + retry
    <2>1. CASE phase = "distribute"
      <3>1. attempts = 0 /\ index - 1 = 0 /\ retry = 0
        BY <2>1 DEF SelectInv, Begins
      <3>2. (RetryTimes + 1) * (index - 1) = 0
        BY <1>1, <3>1
      <3> QED
        BY <3>1, <3>2
    <2>2. CASE phase = "retry"
      BY <2>2 DEF SelectInv, Bounded, Spent
    <2> QED
      BY <2>1, <2>2
  <1>8. changes = 0 /\ ~affinity => Ordered /\ Deep(Where, retry)
    <2>1. CASE phase = "distribute"
      <3>1. tried = {} /\ retry = 0
        BY <2>1 DEF SelectInv, Begins
      <3>2. \A x : \A d \in InGroup(x) : ~(Rank(d, InGroup(x)) < 0)
        <4> SUFFICES ASSUME NEW x, NEW d \in InGroup(x) PROVE ~(Rank(d, InGroup(x)) < 0)
          OBVIOUS
        <4>1. InGroup(x) \in SUBSET Channels
          BY <1>1 DEF InGroup
        <4>2. Rank(d, InGroup(x)) \in Nat
          BY <4>1, RankLemma
        <4> QED
          BY <4>2
      <3> QED
        BY <3>1, <3>2 DEF Ordered, Deep
    <2>2. CASE phase = "retry"
      BY <2>2 DEF SelectInv, Descends, HigherFirst, Ordered
    <2> QED
      BY <2>1, <2>2
  <1>9. CASE ~auto
    <2>1. g = 1 /\ depth = retry /\ s.index = index /\ s.retry = retry /\ s.reset = FALSE
          /\ index = 1
      BY <1>9 DEF Selected, SelectInv, Single
    <2>2. attempts <= retry /\ MaxAttempts = RetryTimes + 1
      <3>1. (RetryTimes + 1) * (index - 1) = 0
        BY <1>1, <2>1
      <3> QED
        BY <1>1, <1>7, <1>9, <3>1, MaxAttemptsLemma
    <2>3. attempts + 1 <= MaxAttempts
      BY <1>1, <2>2
    <2>4. attempts + 1 <= (RetryTimes + 1) * (s.index - 1) + s.retry + IF s.reset THEN 0 ELSE 1
      <3>1. s.index - 1 = 0
        BY <2>1
      <3>2. (RetryTimes + 1) * (s.index - 1) = 0
        BY <1>1, <3>1
      <3>3. s.retry + (IF s.reset THEN 0 ELSE 1) = retry + 1
        BY <2>1
      <3> QED
        BY <1>1, <2>1, <2>2, <3>2, <3>3
    <2>5. changes = 0 /\ ~affinity => Ordered' /\ Deep(1, depth + 1)'
      <3>1. UNCHANGED routes /\ Where = 1
        BY <1>9 DEF env, Where
      <3>2. SearchTypes
        BY DEF SelectInv
      <3>3. c \in Satisfied(1, depth) /\ InGroup(1) # {}
        BY <1>2, <1>3, <2>1
      <3>4. tried' = tried \cup {c}
        OBVIOUS
      <3> HIDE DEF c
      <3> SUFFICES ASSUME changes = 0, ~affinity PROVE Ordered' /\ Deep(1, depth + 1)'
        OBVIOUS
      <3>5. Ordered /\ Deep(1, depth)
        BY <1>8, <2>1, <3>1
      <3> QED
        BY <1>2, <3>1, <3>2, <3>3, <3>4, <3>5, Deeper
    <2>6. s.index \in 1 .. NGroups + 1
      BY <1>1, <2>1
    <2>7. s.retry = depth
      BY <2>1
    <2>8. changes = 0 /\ ~affinity => Ordered' /\ Deep(1, s.retry + 1)'
      BY <2>5, <2>7
    <2> QED
      BY <1>4, <1>5, <1>6, <1>9, <2>3, <2>4, <2>6, <2>8
  <1>10. CASE auto
    <2>1. /\ g = NextGroup /\ depth = (IF g = index THEN retry ELSE 0)
          /\ spent <=> cross /\ depth >= RetryTimes /\ g <= NGroups
          /\ s.index = (IF spent THEN g + 1 ELSE g)
          /\ s.retry = (IF spent THEN 0 ELSE depth)
          /\ s.reset = spent
      BY <1>10 DEF Selected
    <2>2. g >= index /\ \A h \in 1 .. NGroups : h >= index /\ h < g => InGroup(h) = {}
      BY <1>1, <2>1, NextGroupLemma
    <2>3. s.index \in 1 .. NGroups + 1
      BY <1>1, <1>5, <2>1
    <2>4. attempts <= (RetryTimes + 1) * (g - 1) + depth
      <3>1. CASE g = index
        BY <1>7, <2>1, <3>1
      <3>2. CASE g # index
        <4>1. index <= g - 1 /\ index - 1 \in Nat /\ index \in Nat /\ g - 1 \in Nat /\ depth = 0
              /\ index - 1 <= index - 1 /\ (index - 1) + 1 = index
          BY <1>1, <1>5, <2>1, <2>2, <3>2
        <4>2. (RetryTimes + 1) * index <= (RetryTimes + 1) * (g - 1)
              /\ (RetryTimes + 1) * index \in Nat /\ (RetryTimes + 1) * (g - 1) \in Nat
          BY <4>1, ProductLemma
        <4>3. (RetryTimes + 1) * index = (RetryTimes + 1) * (index - 1) + RetryTimes + 1
              /\ (RetryTimes + 1) * (index - 1) \in Nat
          BY <4>1, ProductLemma
        <4> QED
          BY <1>1, <1>7, <4>1, <4>2, <4>3
      <3> QED
        BY <3>1, <3>2
    <2>5. /\ (RetryTimes + 1) * (g - 1) \in Nat
          /\ (RetryTimes + 1) * g = (RetryTimes + 1) * (g - 1) + RetryTimes + 1
          /\ (RetryTimes + 1) * g <= (RetryTimes + 1) * NGroups
          /\ (RetryTimes + 1) * NGroups \in Nat
      <3>1. g - 1 \in Nat /\ g - 1 <= g - 1 /\ (g - 1) + 1 = g /\ g \in Nat /\ g <= NGroups
        BY <1>1, <1>5
      <3> QED
        BY <1>1, <3>1, ProductLemma
    <2>6. attempts + 1 <= MaxAttempts
      <3>1. MaxAttempts = (RetryTimes + 1) * NGroups
        BY <1>1, <1>10, MaxAttemptsLemma
      <3> QED
        BY <1>1, <1>2, <2>4, <2>5, <3>1
    <2>7. attempts + 1 <= (RetryTimes + 1) * (s.index - 1) + s.retry + IF s.reset THEN 0 ELSE 1
      <3>1. CASE spent
        <4>1. s.index - 1 = g /\ s.retry = 0 /\ s.reset /\ depth = RetryTimes
          BY <1>1, <1>2, <1>5, <2>1, <3>1
        <4>2. attempts + 1 <= (RetryTimes + 1) * g
          BY <1>1, <1>2, <2>4, <2>5
        <4>3. s.retry + (IF s.reset THEN 0 ELSE 1) = 0
          BY <4>1
        <4> HIDE DEF c
        <4> QED
          BY <2>5, <4>1, <4>2, <4>3
      <3>2. CASE ~spent
        <4>1. s.index - 1 = g - 1 /\ s.retry = depth /\ ~s.reset
          BY <2>1, <3>2
        <4>2. s.retry + (IF s.reset THEN 0 ELSE 1) = depth + 1
          BY <4>1
        <4> QED
          BY <1>1, <1>2, <2>4, <2>5, <4>1, <4>2
      <3> QED
        BY <3>1, <3>2
    <2>8. ASSUME cross, RetryTimes > 0
          PROVE  /\ s.retry < RetryTimes
                 /\ \A x \in stable : GroupOf[x] < s.index =>
                       \E d \in tried' : GroupOf[d] = GroupOf[x]
      <3>1. s.retry < RetryTimes
        BY <1>1, <1>2, <1>5, <2>1, <2>8
      <3>2. ASSUME NEW x \in stable, GroupOf[x] < s.index
            PROVE  \E d \in tried' : GroupOf[d] = GroupOf[x]
        <4>1. x \in Channels /\ x \in InGroup(GroupOf[x]) /\ GroupOf[x] \in 1 .. NGroups
          BY <1>1, SelectAssumption DEF InGroup
        <4>2. GroupOf[x] < index \/ GroupOf[x] = g
          <5>1. ~(GroupOf[x] >= index /\ GroupOf[x] < g)
            BY <2>2, <4>1
          <5> QED
            BY <1>1, <1>5, <2>1, <3>2, <4>1, <5>1
        <4>3. CASE GroupOf[x] < index
          <5>1. \E d \in tried : GroupOf[d] = GroupOf[x]
            BY <1>10, <2>8, <4>3 DEF SelectInv, Passed
          <5> QED
            BY <5>1
        <4>4. CASE GroupOf[x] = g
          BY <1>4, <4>4
        <4> QED
          BY <4>2, <4>3, <4>4
      <3> QED
        BY <3>1, <3>2
    <2>9. ASSUME changes = 0, ~affinity
          PROVE  Ordered' /\ (s.reset = FALSE => Deep(s.index, s.retry + 1)')
      <3>1. UNCHANGED routes /\ Ordered /\ Where = index
        BY <1>8, <1>10, <2>9 DEF env, Where
      <3>2. Deep(g, depth)
        <4>1. CASE g = index
          BY <1>8, <2>1, <2>9, <3>1, <4>1
        <4>2. CASE g # index
          <5>1. depth = 0
            BY <2>1, <4>2
          <5>2. InGroup(g) \in SUBSET Channels
            BY <1>1 DEF InGroup
          <5>3. \A d \in InGroup(g) : ~(Rank(d, InGroup(g)) < 0)
            <6> SUFFICES ASSUME NEW d \in InGroup(g) PROVE ~(Rank(d, InGroup(g)) < 0)
              OBVIOUS
            <6>1. Rank(d, InGroup(g)) \in Nat
              BY <5>2, RankLemma
            <6> QED
              BY <6>1
          <5> QED
            BY <5>1, <5>3 DEF Deep
        <4> QED
          BY <4>1, <4>2
      <3>3. Deep(g, depth + 1)' /\ Ordered'
        BY <1>2, <1>3, <3>1, <3>2, Deeper DEF SelectInv
      <3> QED
        BY <2>1, <3>3
    <2>10. cross /\ RetryTimes > 0 =>
             /\ s.retry < RetryTimes
             /\ \A x \in stable : GroupOf[x] < s.index =>
                   \E d \in tried' : GroupOf[d] = GroupOf[x]
      BY <2>8
    <2>11. changes = 0 /\ ~affinity =>
             Ordered' /\ (s.reset = FALSE => Deep(s.index, s.retry + 1)')
      BY <2>9
    <2>12. s.channel \in Channels /\ GroupOf[s.channel] = g /\ g <= NGroups
      BY <1>4, <1>5
    <2> QED
      BY <1>6, <1>10, <2>3, <2>6, <2>7, <2>10, <2>11, <2>12
  <1> QED
    BY <1>1, <1>9, <1>10

(* The facts about any choice: the types, and that only a search past the  *)
(* last group finds no channel.                                            *)
LEMMA SelectedTypes ==
    ASSUME SelectInv, phase \in {"distribute", "retry"}, NEW s,
           NEW g \in 1 .. NGroups + 1, NEW depth \in 0 .. retry, NEW spent \in BOOLEAN,
           Selected(s, retry, g, depth, spent)
    PROVE  /\ s.index \in 1 .. NGroups + 1 /\ s.group \in 0 .. NGroups
           /\ s.retry \in 0 .. retry /\ s.reset \in BOOLEAN
           /\ s.reset => s.retry = 0
           /\ retry \in 0 .. RetryTimes /\ RatioGroup(s.group) \in 0 .. NGroups
           /\ ~auto => s.index = 1 /\ s.group = 0 /\ s.reset = FALSE
           /\ s.channel = None /\ auto =>
                s.index = NGroups + 1 /\ \A h \in index .. NGroups : InGroup(h) = {}
  <1>1. /\ auto \in BOOLEAN /\ routes \subseteq Channels
        /\ index \in 1 .. NGroups + 1 /\ autoGroup \in 0 .. NGroups /\ retry \in Nat
    BY DEF SelectInv, SearchTypes
  <1>2. RetryTimes \in Nat /\ NGroups \in Nat /\ NGroups >= 1 /\ None \notin Channels
    BY SelectAssumption
  <1>3. retry \in 0 .. RetryTimes
    <2>1. CASE phase = "distribute"
      <3>1. retry = 0
        BY <2>1 DEF SelectInv, Begins
      <3> QED
        BY <1>2, <3>1
    <2>2. CASE phase = "retry"
      <3>1. retry <= RetryTimes
        BY <2>2 DEF SelectInv, Bounded
      <3> QED
        BY <1>1, <1>2, <3>1
    <2> QED
      BY <2>1, <2>2
  <1>4. /\ s.channel \in Satisfied(g, depth) /\ depth \in Nat /\ g \in Nat
    BY <1>1 DEF Selected
  <1>5. /\ InGroup(g) = {} => s.channel = None
        /\ InGroup(g) # {} => s.channel \in InGroup(g)
    BY <1>1, <1>4, SatisfiedLemma
  <1>6. s.channel # None => g <= NGroups
    <2> SUFFICES ASSUME s.channel # None PROVE g <= NGroups
      OBVIOUS
    <2>1. s.channel \in Channels /\ GroupOf[s.channel] = g
      BY <1>1, <1>5 DEF InGroup
    <2> QED
      BY <2>1, SelectAssumption
  <1>7. s.channel = None => InGroup(g) = {}
    BY <1>1, <1>2, <1>5 DEF InGroup
  <1>8. CASE auto
    <2>1. /\ g = NextGroup /\ depth = (IF g = index THEN retry ELSE 0)
          /\ spent <=> cross /\ depth >= RetryTimes /\ g <= NGroups
          /\ s.index = (IF spent THEN g + 1 ELSE g)
          /\ s.retry = (IF spent THEN 0 ELSE depth)
          /\ s.reset = spent
          /\ s.group = (IF s.channel = None THEN autoGroup ELSE g)
      BY <1>8 DEF Selected
    <2>2. s.index \in 1 .. NGroups + 1 /\ s.retry \in 0 .. retry
      <3>1. CASE spent
        BY <1>1, <1>2, <1>4, <2>1, <3>1
      <3>2. CASE ~spent
        BY <1>1, <1>2, <1>4, <2>1, <3>2
      <3> QED
        BY <3>1, <3>2
    <2>3. s.group \in 0 .. NGroups
      BY <1>1, <1>2, <1>4, <1>6, <2>1
    <2>4. RatioGroup(s.group) \in 0 .. NGroups
      BY <1>2, <2>3 DEF RatioGroup
    <2>5. s.channel = None =>
            s.index = NGroups + 1 /\ \A h \in index .. NGroups : InGroup(h) = {}
      <3> SUFFICES ASSUME s.channel = None
                   PROVE  s.index = NGroups + 1 /\ \A h \in index .. NGroups : InGroup(h) = {}
        OBVIOUS
      <3>1. ~(g <= NGroups)
        BY <1>1, <1>7, <2>1, NextGroupLemma
      <3>2. g = NGroups + 1
        BY <1>2, <3>1
      <3>3. s.index = NGroups + 1
        BY <2>1, <3>1, <3>2
      <3>4. \A h \in 1 .. NGroups : h >= index /\ h < g => InGroup(h) = {}
        BY <1>1, <2>1, NextGroupLemma
      <3>5. \A h \in index .. NGroups : h \in 1 .. NGroups /\ h >= index /\ h < g
        BY <1>1, <1>2, <3>2
      <3> QED
        BY <3>3, <3>4, <3>5
    <2>6. s.reset \in BOOLEAN /\ (s.reset => s.retry = 0)
      BY <2>1
    <2> QED
      BY <1>3, <1>8, <2>2, <2>3, <2>4, <2>5, <2>6
  <1>9. CASE ~auto
    <2>1. s.index = 1 /\ s.retry = retry /\ s.reset = FALSE /\ s.group = 0
      BY <1>9 DEF Selected, SelectInv, Single
    <2>2. RatioGroup(s.group) = 1
      BY <2>1 DEF RatioGroup
    <2>3. s.index \in 1 .. NGroups + 1 /\ s.group \in 0 .. NGroups /\ s.retry \in 0 .. retry
          /\ RatioGroup(s.group) \in 0 .. NGroups
      BY <1>1, <1>2, <2>1, <2>2
    <2> QED
      BY <1>3, <1>9, <2>1, <2>3
  <1> QED
    BY <1>1, <1>8, <1>9

-----------------------------------------------------------------------------
(* The steps. *)

(* A channel is chosen and asked. *)
LEMMA ChooseKeeps ==
    ASSUME SelectInv, phase \in {"distribute", "retry"},
           NEW s \in Selections(retry), s.channel # None, Ask(s.channel),
           index' = s.index, autoGroup' = s.group, usingGroup' = RatioGroup(s.group),
           retry' = s.retry, reset' \in BOOLEAN,
           RetryTimes > 0 => reset' = s.reset, RetryTimes = 0 => reset' = FALSE,
           UNCHANGED <<token, env, affinity>>
    PROVE  SelectInv'
  <1>1. SearchTypes /\ RetryTimes \in Nat /\ NGroups \in Nat
    BY SelectAssumption DEF SelectInv
  <1>2. retry \in 0 .. RetryTimes
    <2>1. retry \in Nat
      BY <1>1 DEF SearchTypes
    <2>2. retry <= RetryTimes
      <3>1. CASE phase = "distribute"
        BY <1>1, <3>1 DEF SelectInv, Begins
      <3>2. CASE phase = "retry"
        BY <3>2 DEF SelectInv, Bounded
      <3> QED
        BY <3>1, <3>2
    <2> QED
      BY <1>1, <2>1, <2>2
  <1>3. PICK g \in 1 .. NGroups + 1, depth \in 0 .. retry, spent \in BOOLEAN :
           Selected(s, retry, g, depth, spent)
    BY <1>1, <1>2, SelectionLemma
  <1>4. tried' = tried \cup {s.channel}
    BY DEF Ask
  <1>5. /\ s.index \in 1 .. NGroups + 1 /\ s.group \in 0 .. NGroups
        /\ s.retry \in 0 .. retry /\ s.reset \in BOOLEAN /\ (s.reset => s.retry = 0)
        /\ RatioGroup(s.group) \in 0 .. NGroups
        /\ ~auto => s.index = 1 /\ s.group = 0 /\ s.reset = FALSE
    BY <1>3, SelectedTypes
  <1>6. /\ s.channel \in Channels /\ GroupOf[s.channel] = g /\ g <= NGroups
        /\ RatioGroup(s.group) = g /\ s.group \in 0 .. NGroups
        /\ s.index \in 1 .. NGroups + 1
        /\ attempts + 1 <= MaxAttempts
        /\ attempts + 1 <= (RetryTimes + 1) * (s.index - 1) + s.retry + IF s.reset THEN 0 ELSE 1
        /\ auto /\ cross /\ RetryTimes > 0 =>
             /\ s.retry < RetryTimes
             /\ \A x \in stable : GroupOf[x] < s.index =>
                   \E d \in tried' : GroupOf[d] = GroupOf[x]
        /\ changes = 0 /\ ~affinity =>
             /\ Ordered'
             /\ s.reset = FALSE /\ auto => Deep(s.index, s.retry + 1)'
             /\ s.reset = FALSE /\ ~auto => Deep(1, s.retry + 1)'
    BY <1>3, <1>4, ChosenLemma, Zenon
  <1>7. /\ phase' = "ask" /\ channel' = s.channel
        /\ attempts' \in 0 .. (MaxAttempts + 1)' /\ attempts' <= attempts + 1
        /\ MaxAttempts' = MaxAttempts
    BY <1>1, <1>6, AskLemma
  <1>8. /\ auto' = auto /\ cross' = cross /\ sticky' = sticky /\ affinity' = affinity
        /\ routes' = routes /\ stable' = stable /\ changes' = changes
    BY DEF token, env
  <1>9. attempts \in Nat /\ MaxAttempts \in Nat /\ attempts' \in Nat
    <2>1. attempts \in Nat /\ auto \in BOOLEAN
      BY <1>1 DEF SearchTypes
    <2>2. MaxAttempts \in Nat
      BY <2>1, MaxAttemptsLemma
    <2>3. (MaxAttempts + 1)' = MaxAttempts + 1
      BY <1>7
    <2> QED
      BY <1>7, <2>1, <2>2, <2>3
  <1>10. SearchTypes'
    <2>1. retry' \in 0 .. RetryTimes + 1
      BY <1>1, <1>2, <1>5
    <2>2. tried' \subseteq Channels
      BY <1>1, <1>4, <1>6 DEF SearchTypes
    <2>3. phase' \in Phases
      BY <1>7 DEF Phases
    <2>4. attempts' \in 0 .. (MaxAttempts + 1)'
      BY <1>7
    <2> QED
      BY <1>1, <1>5, <1>6, <1>7, <1>8, <2>1, <2>2, <2>3, <2>4 DEF SearchTypes
  <1>11. Begins' /\ NoRetries'
    BY <1>7 DEF Begins, NoRetries
  <1>12. Single'
    <2> SUFFICES ASSUME ~auto PROVE index' = 1 /\ autoGroup' = 0 /\ reset' = FALSE
      BY <1>8 DEF Single
    <2>1. CASE RetryTimes > 0
      BY <1>5, <2>1
    <2>2. CASE RetryTimes = 0
      BY <1>5, <2>2
    <2>3. RetryTimes > 0 \/ RetryTimes = 0
      BY <1>1
    <2> QED
      BY <2>1, <2>2, <2>3, Zenon
  <1>13. Bounded'
    <2>1. attempts' <= MaxAttempts'
      BY <1>6, <1>7, <1>9
    <2>2. retry' <= RetryTimes
      BY <1>1, <1>2, <1>5
    <2>3. (IF s.reset THEN 0 ELSE 1) <= (IF reset' THEN 0 ELSE 1)
      <3>1. CASE RetryTimes > 0
        BY <1>5, <3>1
      <3>2. CASE RetryTimes = 0
        BY <1>5, <3>2
      <3> QED
        BY <1>1, <3>1, <3>2
    <2>4. (RetryTimes + 1) * (s.index - 1) \in Nat
      <3>1. s.index - 1 \in Nat /\ s.index - 1 <= s.index - 1
        BY <1>1, <1>5
      <3> QED
        BY <3>1, ProductLemma
    <2>5. attempts' <= (RetryTimes + 1) * (s.index - 1) + s.retry + IF reset' THEN 0 ELSE 1
      <3> DEFINE p == (RetryTimes + 1) * (s.index - 1)
                 a == IF s.reset THEN 0 ELSE 1
                 b == IF reset' THEN 0 ELSE 1
      <3>1. p \in Nat /\ s.retry \in Nat
        BY <1>2, <1>5, <2>4
      <3>2. a \in 0 .. 1 /\ b \in 0 .. 1
        OBVIOUS
      <3>3. a <= b /\ attempts + 1 <= p + s.retry + a
        BY <1>6, <2>3
      <3> HIDE DEF p, a, b
      <3>4. attempts' <= p + s.retry + b
        BY <1>7, <1>9, <3>1, <3>2, <3>3
      <3> QED
        BY <3>4 DEF p, b
    <2>6. Spent(retry + IF reset THEN 0 ELSE 1)' =
             (RetryTimes + 1) * (s.index - 1) + (s.retry + IF reset' THEN 0 ELSE 1)
      BY DEF Spent
    <2>7. attempts' <= Spent(retry + IF reset THEN 0 ELSE 1)'
      <3> DEFINE p == (RetryTimes + 1) * (s.index - 1)
                 b == IF reset' THEN 0 ELSE 1
      <3>1. p \in Nat /\ s.retry \in Nat
        BY <1>2, <1>5, <2>4
      <3>2. b \in Nat
        OBVIOUS
      <3>3. attempts' <= p + s.retry + b
        BY <2>5
      <3> HIDE DEF p, b
      <3>4. attempts' <= p + (s.retry + b)
        BY <1>9, <3>1, <3>2, <3>3
      <3> QED
        BY <2>6, <3>4 DEF p, b
    <2> QED
      BY <1>7, <2>1, <2>2, <2>7 DEF Bounded
  <1>14. Priced'
    BY <1>6, <1>7 DEF Priced
  <1>15. Passed'
    BY <1>6, <1>7, <1>8 DEF Passed
  <1>16. HigherFirst'
    BY <1>6, <1>8 DEF HigherFirst, Ordered
  <1>17. Fresh'
    <2>1. CASE RetryTimes > 0
      BY <1>5, <2>1 DEF Fresh
    <2>2. CASE RetryTimes = 0
      BY <2>2 DEF Fresh
    <2> QED
      BY <1>1, <2>1, <2>2
  <1>18. Descends'
    <2>0. phase' # "retry"
      BY <1>7
    <2> SUFFICES ASSUME changes' = 0, ~affinity', reset' = FALSE, RetryTimes > 0
                 PROVE  Deep(Where, retry + 1)'
      BY <2>0, Zenon DEF Descends
    <2>1. s.reset = FALSE /\ changes = 0 /\ ~affinity
      BY <1>8
    <2>2. CASE auto
      <3>1. Where' = s.index /\ Deep(s.index, s.retry + 1)'
        BY <1>6, <1>8, <2>1, <2>2 DEF Where
      <3> QED
        BY <3>1 DEF Deep
    <2>3. CASE ~auto
      <3>1. Where' = 1 /\ Deep(1, s.retry + 1)'
        BY <1>6, <1>8, <2>1, <2>3 DEF Where
      <3> QED
        BY <3>1 DEF Deep
    <2>4. auto \in BOOLEAN
      BY <1>1 DEF SearchTypes
    <2> QED
      BY <2>2, <2>3, <2>4
  <1> QED
    BY <1>10, <1>11, <1>12, <1>13, <1>14, <1>15, <1>16, <1>17, <1>18 DEF SelectInv

(* No channel is chosen, or the chosen one cannot be set up. *)
LEMMA EndKeeps ==
    ASSUME SelectInv, phase \in {"distribute", "retry"},
           NEW s \in Selections(retry), phase' \in {"refused", "failed", "exhausted"},
           phase' = "exhausted" => s.channel = None,
           index' = s.index, autoGroup' = s.group, usingGroup' = RatioGroup(s.group),
           retry' \in 0 .. RetryTimes, reset' \in BOOLEAN, ~auto => reset' = FALSE,
           RetryTimes = 0 => reset' = FALSE, reset' => retry' = 0,
           UNCHANGED <<token, env, affinity, channel, history>>
    PROVE  SelectInv'
  <1>1. SearchTypes /\ RetryTimes \in Nat /\ NGroups \in Nat
    BY SelectAssumption DEF SelectInv
  <1>2. retry \in 0 .. RetryTimes
    <2>1. retry \in Nat
      BY <1>1 DEF SearchTypes
    <2>2. retry <= RetryTimes
      <3>1. CASE phase = "distribute"
        BY <1>1, <3>1 DEF SelectInv, Begins
      <3>2. CASE phase = "retry"
        BY <3>2 DEF SelectInv, Bounded
      <3> QED
        BY <3>1, <3>2
    <2> QED
      BY <1>1, <2>1, <2>2
  <1>3. PICK g \in 1 .. NGroups + 1, depth \in 0 .. retry, spent \in BOOLEAN :
           Selected(s, retry, g, depth, spent)
    BY <1>1, <1>2, SelectionLemma
  <1>4. /\ s.index \in 1 .. NGroups + 1 /\ s.group \in 0 .. NGroups
        /\ RatioGroup(s.group) \in 0 .. NGroups
        /\ ~auto => s.index = 1 /\ s.group = 0 /\ s.reset = FALSE
        /\ s.channel = None /\ auto =>
             s.index = NGroups + 1 /\ \A h \in index .. NGroups : InGroup(h) = {}
    BY <1>3, SelectedTypes
  <1>5. /\ auto' = auto /\ cross' = cross /\ sticky' = sticky /\ affinity' = affinity
        /\ routes' = routes /\ stable' = stable /\ changes' = changes
        /\ attempts' = attempts /\ tried' = tried /\ channel' = channel
    BY DEF token, env, history
  <1>6. MaxAttempts' = MaxAttempts
    BY <1>5 DEF MaxAttempts
  <1>7. phase' \notin {"distribute", "ask", "retry", "served"}
    OBVIOUS
  <1>8. SearchTypes'
    <2>1. retry' \in 0 .. RetryTimes + 1
      BY <1>1
    <2>2. phase' \in Phases
      BY DEF Phases
    <2>3. attempts' \in 0 .. (MaxAttempts + 1)'
      BY <1>1, <1>5, <1>6 DEF SearchTypes
    <2> QED
      BY <1>1, <1>4, <1>5, <2>1, <2>2, <2>3 DEF SearchTypes
  <1>9. Begins' /\ NoRetries' /\ Priced' /\ Fresh'
    BY <1>7 DEF Begins, NoRetries, Priced, Fresh
  <1>10. Single'
    BY <1>4, <1>5 DEF Single
  <1>11. Bounded'
    <2>1. attempts <= MaxAttempts
      BY DEF SelectInv, Bounded
    <2> QED
      BY <1>5, <1>6, <1>7, <2>1 DEF Bounded
  <1>12. Passed'
    <2> SUFFICES ASSUME auto, cross, RetryTimes > 0, phase' = "exhausted"
                 PROVE  /\ \A c \in stable : GroupOf[c] < index' =>
                              \E d \in tried : GroupOf[d] = GroupOf[c]
                        /\ index' = NGroups + 1
      BY <1>5, <1>7 DEF Passed
    <2>1. index' = NGroups + 1 /\ \A h \in index .. NGroups : InGroup(h) = {}
      BY <1>4
    <2>2. ASSUME NEW c \in stable PROVE \E d \in tried : GroupOf[d] = GroupOf[c]
      <3>1. c \in Channels /\ c \in routes /\ index \in 1 .. NGroups + 1
        BY <1>1 DEF SearchTypes
      <3>2. GroupOf[c] \in 1 .. NGroups
        BY <3>1, SelectAssumption
      <3>3. c \in InGroup(GroupOf[c])
        BY <3>1 DEF InGroup
      <3>4. GroupOf[c] \notin index .. NGroups
        BY <2>1, <3>3
      <3>5. GroupOf[c] < index
        BY <1>1, <3>1, <3>2, <3>4
      <3>6. phase \notin {"failed", "refused"}
        OBVIOUS
      <3> QED
        BY <3>5, <3>6 DEF SelectInv, Passed
    <2> QED
      BY <2>1, <2>2
  <1>13. HigherFirst'
    <2>1. HigherFirst
      BY DEF SelectInv
    <2> QED
      BY <1>5, <2>1 DEF HigherFirst, InGroup
  <1>14. Descends'
    BY <1>7 DEF Descends
  <1> QED
    BY <1>8, <1>9, <1>10, <1>11, <1>12, <1>13, <1>14 DEF SelectInv

(* The preferred channel: the first attempt, whatever its group. *)
LEMMA PreferKeeps ==
    ASSUME SelectInv, NEW c \in Channels, Prefer(c)
    PROVE  SelectInv'
  <1>1. /\ SearchTypes /\ RetryTimes \in Nat /\ NGroups \in Nat /\ NGroups >= 1
        /\ GroupOf[c] \in 1 .. NGroups
    BY SelectAssumption DEF SelectInv
  <1>2. /\ phase = "distribute" /\ c \in routes /\ (auto \/ GroupOf[c] = 1)
        /\ autoGroup' = (IF auto THEN GroupOf[c] ELSE autoGroup)
        /\ usingGroup' = RatioGroup(autoGroup') /\ affinity' = TRUE
        /\ Ask(c) /\ UNCHANGED token
    BY DEF Prefer, PriceBy
  <1>3. /\ auto' = auto /\ cross' = cross /\ sticky' = sticky /\ index' = index
        /\ routes' = routes /\ stable' = stable /\ changes' = changes
        /\ retry' = retry /\ reset' = reset
    BY DEF Prefer, PriceBy, token, param, env
  <1>4. /\ attempts = 0 /\ retry = 0 /\ reset = FALSE
        /\ index = 1 /\ autoGroup = 0 /\ tried = {}
    BY <1>2 DEF SelectInv, Begins
  <1>5. /\ phase' = "ask" /\ channel' = c /\ tried' = tried \cup {c}
        /\ attempts' \in 0 .. (MaxAttempts + 1)' /\ attempts' <= attempts + 1
        /\ MaxAttempts' = MaxAttempts
    BY <1>1, <1>2, AskLemma
  <1>6. MaxAttempts \in Nat /\ MaxAttempts >= RetryTimes + 1
    <2>1. auto \in BOOLEAN
      BY <1>1 DEF SearchTypes
    <2> QED
      BY <2>1, MaxAttemptsLemma
  <1>7. autoGroup' \in 0 .. NGroups /\ usingGroup' = GroupOf[c]
        /\ (~auto => autoGroup' = 0)
    <2>1. CASE auto
      BY <1>1, <1>2, <2>1 DEF RatioGroup
    <2>2. CASE ~auto
      BY <1>1, <1>2, <1>4, <2>2 DEF RatioGroup
    <2> QED
      BY <2>1, <2>2
  <1>8. SearchTypes'
    <2>1. phase' \in Phases /\ tried' \subseteq Channels
      BY <1>1, <1>5 DEF Phases, SearchTypes
    <2>2. usingGroup' \in 0 .. NGroups
      BY <1>1, <1>7
    <2>3. affinity' \in BOOLEAN
      BY <1>2
    <2> QED
      BY <1>1, <1>3, <1>5, <1>7, <2>1, <2>2, <2>3 DEF SearchTypes
  <1>9. Begins' /\ NoRetries' /\ Priced' /\ Fresh'
    BY <1>3, <1>4, <1>5, <1>7 DEF Begins, NoRetries, Priced, Fresh
  <1>10. Single'
    BY <1>3, <1>4, <1>7 DEF Single
  <1>11. Bounded'
    <2>1. attempts' \in Nat /\ attempts' <= 1
      BY <1>4, <1>5, <1>6
    <2>2. attempts' <= MaxAttempts'
      BY <1>1, <1>5, <1>6, <2>1
    <2>3. (RetryTimes + 1) * (index - 1) = 0
      BY <1>1, <1>4
    <2>4. Spent(retry + IF reset THEN 0 ELSE 1)' = (RetryTimes + 1) * (index - 1) + (0 + 1)
      BY <1>3, <1>4 DEF Spent
    <2>5. attempts' <= Spent(retry + IF reset THEN 0 ELSE 1)'
      BY <2>1, <2>3, <2>4
    <2>6. retry' <= RetryTimes
      BY <1>1, <1>3, <1>4
    <2> QED
      BY <1>5, <2>2, <2>5, <2>6 DEF Bounded
  <1>12. Passed'
    <2>1. \A x \in stable : ~(GroupOf[x] < 1)
      <3> SUFFICES ASSUME NEW x \in stable PROVE ~(GroupOf[x] < 1)
        OBVIOUS
      <3>1. x \in Channels
        BY <1>1 DEF SearchTypes
      <3>2. GroupOf[x] \in 1 .. NGroups
        BY <3>1, SelectAssumption
      <3> QED
        BY <1>1, <3>2
    <2> QED
      BY <1>1, <1>3, <1>4, <1>5, <2>1 DEF Passed
  <1>13. Descends' /\ HigherFirst'
    BY <1>2 DEF Descends, HigherFirst
  <1> QED
    BY <1>8, <1>9, <1>10, <1>11, <1>12, <1>13 DEF SelectInv

(* What no step but the choice of a channel touches. *)
LEMMA KeptOrder ==
    ASSUME SelectInv, UNCHANGED <<routes, tried, changes, affinity>>
    PROVE  HigherFirst'
  <1>1. HigherFirst
    BY DEF SelectInv
  <1> QED
    BY <1>1 DEF HigherFirst, InGroup

(* The request is refused for its preferred channel, or served. *)
LEMMA RefuseServeKeeps ==
    ASSUME SelectInv, RefusePreferred \/ Serve
    PROVE  SelectInv'
  <1>1. /\ auto' = auto /\ cross' = cross /\ sticky' = sticky /\ index' = index
        /\ channel' = channel /\ autoGroup' = autoGroup
        /\ routes' = routes /\ stable' = stable /\ changes' = changes
        /\ retry' = retry /\ reset' = reset /\ attempts' = attempts /\ tried' = tried
        /\ usingGroup' = usingGroup /\ affinity' = affinity
    BY DEF RefusePreferred, Serve, token, context, param, history, price, env
  <1>2. \/ phase = "distribute" /\ phase' = "refused"
        \/ phase = "ask" /\ phase' = "served"
    BY DEF RefusePreferred, Serve
  <1>3. MaxAttempts' = MaxAttempts
    BY <1>1 DEF MaxAttempts
  <1>4. SearchTypes'
    <2>1. SearchTypes /\ phase' \in Phases
      BY <1>2 DEF SelectInv, Phases
    <2>2. attempts' \in 0 .. (MaxAttempts + 1)'
      BY <1>1, <1>3, <2>1 DEF SearchTypes
    <2> QED
      BY <1>1, <2>1, <2>2 DEF SearchTypes
  <1>5. Begins' /\ Single' /\ Fresh' /\ NoRetries' /\ Priced' /\ Descends'
    BY <1>1, <1>2 DEF SelectInv, Begins, Single, Fresh, NoRetries, Priced, Descends
  <1>6. Bounded'
    BY <1>1, <1>2, <1>3 DEF SelectInv, Bounded
  <1>7. Passed'
    BY <1>1, <1>2 DEF SelectInv, Passed
  <1>8. HigherFirst'
    BY <1>1, KeptOrder
  <1> QED
    BY <1>4, <1>5, <1>6, <1>7, <1>8 DEF SelectInv

(* The attempt fails.  With cross-group retry the mark of a spent group    *)
(* keeps the loop's counter below RetryTimes, so that it goes on.          *)
LEMMA FailKeeps ==
    ASSUME SelectInv, NEW e \in Errors, Fail(e)
    PROVE  SelectInv'
  <1>1. /\ auto' = auto /\ cross' = cross /\ sticky' = sticky /\ index' = index
        /\ channel' = channel /\ autoGroup' = autoGroup
        /\ routes' = routes /\ stable' = stable /\ changes' = changes
        /\ attempts' = attempts /\ tried' = tried
        /\ usingGroup' = usingGroup /\ affinity' = affinity
    BY DEF Fail, token, context, history, price, env
  <1>2. SearchTypes /\ RetryTimes \in Nat /\ retry \in Nat /\ reset \in BOOLEAN
        /\ phase = "ask" /\ retry <= RetryTimes
        /\ attempts <= Spent(retry + IF reset THEN 0 ELSE 1)
    BY SelectAssumption DEF SelectInv, SearchTypes, Bounded, Fail
  <1>3. Increased = retry + (IF reset THEN 0 ELSE 1) /\ Increased \in 0 .. RetryTimes + 1
    BY <1>2 DEF Increased
  <1>4. /\ phase' \in {"failed", "retry", "exhausted"}
        /\ phase' = "retry" =>
             Increased <= RetryTimes /\ retry' = Increased /\ reset' = FALSE
        /\ \/ retry' = Increased /\ reset' = FALSE
           \/ retry' = retry /\ reset' = reset
    BY DEF Fail, param
  <1>5. MaxAttempts' = MaxAttempts
    BY <1>1 DEF MaxAttempts
  <1>6. SearchTypes'
    <2>1. phase' \in Phases
      BY <1>4 DEF Phases
    <2>2. retry' \in 0 .. RetryTimes + 1 /\ reset' \in BOOLEAN
      <3>1. retry' = Increased \/ retry' = retry
        BY <1>4
      <3>2. retry' \in 0 .. RetryTimes + 1
        BY <1>2, <1>3, <3>1
      <3>3. reset' = FALSE \/ reset' = reset
        BY <1>4
      <3> QED
        BY <1>2, <3>2, <3>3
    <2>3. attempts' \in 0 .. (MaxAttempts + 1)'
      BY <1>1, <1>2, <1>5 DEF SearchTypes
    <2> QED
      BY <1>1, <1>2, <2>1, <2>2, <2>3 DEF SearchTypes
  <1>7. Begins' /\ Single' /\ Fresh' /\ Priced'
    BY <1>1, <1>4 DEF SelectInv, Begins, Single, Fresh, Priced
  <1>8. NoRetries'
    <2> SUFFICES ASSUME RetryTimes = 0 PROVE phase' # "retry" /\ reset' = FALSE
      BY DEF NoRetries
    <2>1. reset = FALSE /\ retry = 0
      BY <1>2 DEF SelectInv, NoRetries
    <2>2. Increased = 1
      BY <2>1 DEF Increased
    <2> QED
      BY <1>4, <2>1, <2>2
  <1>9. Bounded'
    <2>1. attempts' <= MaxAttempts'
      BY <1>1, <1>5 DEF SelectInv, Bounded
    <2>2. ASSUME phase' = "retry"
          PROVE  retry' <= RetryTimes /\ reset' = FALSE /\ attempts' <= Spent(retry)'
      <3>1. retry' = retry + (IF reset THEN 0 ELSE 1)
        BY <1>3, <1>4, <2>2
      <3>2. Spent(retry)' = Spent(retry + IF reset THEN 0 ELSE 1)
        BY <1>1, <3>1 DEF Spent
      <3> QED
        BY <1>1, <1>2, <1>4, <2>2, <3>2
    <2> QED
      BY <1>4, <2>1, <2>2 DEF Bounded
  <1>10. Passed'
    <2> SUFFICES ASSUME auto, cross, RetryTimes > 0
                 PROVE  /\ \A c \in stable : GroupOf[c] < index =>
                              \E d \in tried : GroupOf[d] = GroupOf[c]
                        /\ phase' # "exhausted"
      BY <1>1, <1>4 DEF Passed
    <2>1. /\ retry < RetryTimes
          /\ \A c \in stable : GroupOf[c] < index => \E d \in tried : GroupOf[d] = GroupOf[c]
      BY <1>2 DEF SelectInv, Passed
    <2>2. RetryTimes - retry > 0 /\ Increased <= RetryTimes
      BY <1>2, <2>1 DEF Increased
    <2>3. CASE e = "final" \/ sticky
      BY <2>1, <2>3 DEF Fail
    <2>4. CASE ~(e = "final" \/ sticky)
      <3>1. shouldRetry(e, RetryTimes - retry)
        BY <2>2, <2>4 DEF shouldRetry, Errors
      <3>2. phase' = "retry"
        BY <2>2, <2>4, <3>1 DEF Fail
      <3> QED
        BY <2>1, <3>2
    <2> QED
      BY <2>3, <2>4
  <1>11. HigherFirst'
    BY <1>1, KeptOrder
  <1>12. Descends'
    <2> SUFFICES ASSUME changes = 0, ~affinity, phase' = "retry"
                 PROVE  Deep(Where, retry)'
      BY <1>1, <1>4 DEF Descends
    <2>1. RetryTimes > 0
      <3>1. RetryTimes # 0
        BY <1>8 DEF NoRetries
      <3> QED
        BY <1>2, <3>1
    <2>2. Where' = Where /\ \A x : InGroup(x)' = InGroup(x)
      BY <1>1 DEF Where, InGroup
    <2>3. CASE reset
      <3>1. retry' = 0
        BY <1>4, <2>3 DEF Increased, SelectInv, Fresh
      <3>2. InGroup(Where) \in SUBSET Channels
        BY <1>2 DEF SearchTypes, InGroup
      <3>3. \A d \in InGroup(Where) : ~(Rank(d, InGroup(Where)) < 0)
        <4> SUFFICES ASSUME NEW d \in InGroup(Where) PROVE ~(Rank(d, InGroup(Where)) < 0)
          OBVIOUS
        <4>1. Rank(d, InGroup(Where)) \in Nat
          BY <3>2, RankLemma
        <4> QED
          BY <4>1
      <3> QED
        BY <2>2, <3>1, <3>3 DEF Deep
    <2>4. CASE ~reset
      <3>1. retry' = retry + 1 /\ reset = FALSE
        BY <1>2, <1>4, <2>4 DEF Increased
      <3>2. Deep(Where, retry + 1)
        BY <1>2, <2>1, <3>1 DEF SelectInv, Descends
      <3> QED
        BY <1>1, <2>2, <3>1, <3>2 DEF Deep
    <2> QED
      BY <2>3, <2>4
  <1> QED
    BY <1>6, <1>7, <1>8, <1>9, <1>10, <1>11, <1>12 DEF SelectInv

(* The routes change under the request. *)
LEMMA ChangeKeeps ==
    ASSUME SelectInv, Change
    PROVE  SelectInv'
  <1>1. /\ auto' = auto /\ cross' = cross /\ sticky' = sticky /\ index' = index
        /\ channel' = channel /\ autoGroup' = autoGroup
        /\ retry' = retry /\ reset' = reset /\ attempts' = attempts /\ tried' = tried
        /\ usingGroup' = usingGroup /\ affinity' = affinity /\ phase' = phase
    BY DEF Change, token, context, param, history, price
  <1>2. changes' = changes + 1 /\ changes < MaxChanges
    BY DEF Change
  <1>3. SearchTypes /\ MaxChanges \in Nat /\ changes \in Nat
    BY SelectAssumption DEF SelectInv, SearchTypes
  <1>4. changes' \in 0 .. MaxChanges /\ changes' # 0
    BY <1>2, <1>3
  <1>5. routes' \subseteq Channels /\ stable' \subseteq routes' /\ stable' \subseteq stable
    <2>1. routes \subseteq Channels /\ stable \subseteq routes
      BY <1>3 DEF SearchTypes
    <2>2. PICK c \in Channels : Leave(c) \/ Return(c)
      BY DEF Change
    <2>3. CASE Leave(c)
      BY <2>1, <2>3 DEF Leave
    <2>4. CASE Return(c)
      BY <2>1, <2>4 DEF Return
    <2> QED
      BY <2>2, <2>3, <2>4
  <1>6. MaxAttempts' = MaxAttempts
    BY <1>1 DEF MaxAttempts
  <1>7. SearchTypes'
    <2>1. attempts' \in 0 .. (MaxAttempts + 1)'
      BY <1>1, <1>3, <1>6 DEF SearchTypes
    <2> QED
      BY <1>1, <1>3, <1>4, <1>5, <2>1 DEF SearchTypes
  <1>8. Begins' /\ Single' /\ Fresh' /\ NoRetries' /\ Priced'
    BY <1>1 DEF SelectInv, Begins, Single, Fresh, NoRetries, Priced
  <1>9. Bounded'
    BY <1>1, <1>6 DEF SelectInv, Bounded, Spent
  <1>10. Passed'
    BY <1>1, <1>5 DEF SelectInv, Passed
  <1>11. Descends' /\ HigherFirst'
    BY <1>4 DEF Descends, HigherFirst
  <1> QED
    BY <1>7, <1>8, <1>9, <1>10, <1>11 DEF SelectInv

(* The first choice. *)
LEMMA DistributeKeeps ==
    ASSUME SelectInv, Distribute
    PROVE  SelectInv'
  <1>1. phase = "distribute" /\ UNCHANGED <<token, param, env, affinity>>
    BY DEF Distribute
  <1>2. retry = 0 /\ reset = FALSE /\ SearchTypes /\ RetryTimes \in Nat
    BY <1>1, SelectAssumption DEF SelectInv, Begins
  <1>3. PICK s \in Selections(0) :
          /\ index' = s.index /\ autoGroup' = s.group
          /\ usingGroup' = RatioGroup(s.group)
          /\ IF s.channel = None
             THEN phase' = "refused" /\ UNCHANGED <<channel, history>>
             ELSE Ask(s.channel)
    BY DEF Distribute, PriceBy
  <1>4. s \in Selections(retry) /\ retry' = 0 /\ reset' = FALSE
    BY <1>1, <1>2, <1>3 DEF param
  <1>5. CASE s.channel = None
    <2>1. phase' = "refused" /\ UNCHANGED <<channel, history>>
      BY <1>3, <1>5
    <2>2. reset' \in BOOLEAN
      BY <1>4
    <2>3. retry' \in 0 .. RetryTimes
      BY <1>2, <1>4
    <2> QED
      BY <1>1, <1>3, <1>4, <2>1, <2>2, <2>3, EndKeeps
  <1>6. CASE s.channel # None
    <2>1. retry \in 0 .. RetryTimes
      BY <1>2
    <2>2. PICK g \in 1 .. NGroups + 1, depth \in 0 .. retry, spent \in BOOLEAN :
             Selected(s, retry, g, depth, spent)
      BY <1>2, <1>4, <2>1, SelectionLemma
    <2>3. s.retry \in 0 .. retry
      BY <1>1, <2>2, SelectedTypes
    <2>4. retry' = s.retry
      BY <1>2, <1>4, <2>3
    <2>5. RetryTimes > 0 => reset' = s.reset
      <3> SUFFICES ASSUME RetryTimes > 0 PROVE s.reset = FALSE
        BY <1>4
      <3>1. ~(depth >= RetryTimes)
        BY <1>2, <2>2
      <3>2. auto \in BOOLEAN
        BY <1>2 DEF SearchTypes
      <3>3. CASE auto
        BY <2>2, <3>1, <3>3 DEF Selected
      <3>4. CASE ~auto
        BY <2>2, <3>4 DEF Selected
      <3> QED
        BY <3>2, <3>3, <3>4
    <2>6. Ask(s.channel) /\ reset' \in BOOLEAN /\ UNCHANGED <<token, env, affinity>>
      BY <1>1, <1>3, <1>4, <1>6
    <2> QED
      BY <1>1, <1>3, <1>4, <1>6, <2>4, <2>5, <2>6, ChooseKeeps
  <1> QED
    BY <1>5, <1>6

(* Another choice after a failure. *)
LEMMA RetryKeeps ==
    ASSUME SelectInv, Retry
    PROVE  SelectInv'
  <1>1. phase = "retry" /\ UNCHANGED <<token, env, affinity>>
    BY DEF Retry
  <1>2. SearchTypes /\ RetryTimes \in Nat /\ RetryTimes # 0
    BY <1>1, SelectAssumption DEF SelectInv, NoRetries
  <1>3. PICK s \in Selections(retry) :
          /\ index' = s.index /\ autoGroup' = s.group
          /\ retry' = s.retry /\ reset' = s.reset
          /\ usingGroup' = RatioGroup(s.group)
          /\ IF s.channel = None
             THEN phase' = "exhausted" /\ UNCHANGED <<channel, history>>
             ELSE \/ Ask(s.channel)
                  \/ phase' = "failed" /\ UNCHANGED <<channel, history>>
    BY DEF Retry
  <1>4. retry \in 0 .. RetryTimes
    <2>1. retry \in Nat /\ retry <= RetryTimes
      BY <1>1, <1>2 DEF SelectInv, SearchTypes, Bounded
    <2> QED
      BY <1>2, <2>1
  <1>5. PICK g \in 1 .. NGroups + 1, depth \in 0 .. retry, spent \in BOOLEAN :
           Selected(s, retry, g, depth, spent)
    BY <1>2, <1>4, SelectionLemma
  <1>6. /\ s.retry \in 0 .. retry /\ s.reset \in BOOLEAN /\ (s.reset => s.retry = 0)
        /\ ~auto => s.reset = FALSE
    BY <1>1, <1>5, SelectedTypes
  <1>7. reset' \in BOOLEAN /\ (reset' => retry' = 0) /\ (~auto => reset' = FALSE)
    BY <1>3, <1>6
  <1>8. retry' \in 0 .. RetryTimes
    BY <1>2, <1>3, <1>4, <1>6
  <1>9. CASE s.channel # None /\ Ask(s.channel)
    BY <1>1, <1>2, <1>3, <1>7, <1>9, ChooseKeeps
  <1>10. CASE /\ phase' \in {"failed", "exhausted"} /\ UNCHANGED <<channel, history>>
              /\ phase' = "exhausted" => s.channel = None
    <2>1. phase' \in {"refused", "failed", "exhausted"}
      BY <1>10
    <2> QED
      BY <1>1, <1>2, <1>3, <1>7, <1>8, <1>10, <2>1, EndKeeps
  <1>11. \/ s.channel # None /\ Ask(s.channel)
         \/ /\ phase' \in {"failed", "exhausted"} /\ UNCHANGED <<channel, history>>
            /\ phase' = "exhausted" => s.channel = None
    BY <1>3
  <1> QED
    BY <1>9, <1>10, <1>11

-----------------------------------------------------------------------------
(* Theorems. *)

(* The first state satisfies the invariant. *)
LEMMA SelectInit == Init => SelectInv
  <1> SUFFICES ASSUME Init PROVE SelectInv
    OBVIOUS
  <1>1. /\ auto \in BOOLEAN /\ cross \in BOOLEAN /\ sticky \in BOOLEAN
        /\ routes \in SUBSET Channels /\ stable = routes
        /\ phase = "distribute" /\ channel = None /\ index = 1 /\ autoGroup = 0
        /\ retry = 0 /\ reset = FALSE /\ usingGroup = 0 /\ affinity = FALSE
        /\ attempts = 0 /\ tried = {} /\ changes = 0
    BY DEF Init
  <1>2. RetryTimes \in Nat /\ NGroups \in Nat /\ MaxChanges \in Nat
    BY SelectAssumption
  <1>3. MaxAttempts \in Nat
    BY <1>1, MaxAttemptsLemma
  <1>4. SearchTypes
    <2>1. /\ index \in 1 .. NGroups + 1 /\ autoGroup \in 0 .. NGroups
          /\ retry \in 0 .. RetryTimes + 1 /\ usingGroup \in 0 .. NGroups
          /\ attempts \in 0 .. MaxAttempts + 1 /\ changes \in 0 .. MaxChanges
      BY <1>1, <1>2, <1>3
    <2> QED
      BY <1>1, <2>1 DEF SearchTypes, Phases
  <1>5. Begins /\ Single /\ Fresh /\ NoRetries /\ Priced
    BY <1>1 DEF Begins, Single, Fresh, NoRetries, Priced
  <1>6. Bounded
    BY <1>1, <1>3 DEF Bounded
  <1>7. Descends /\ HigherFirst
    BY <1>1 DEF Descends, HigherFirst
  <1>8. Passed
    <2>1. \A x \in stable : ~(GroupOf[x] < 1)
      <3> SUFFICES ASSUME NEW x \in stable PROVE ~(GroupOf[x] < 1)
        OBVIOUS
      <3>1. GroupOf[x] \in 1 .. NGroups
        BY <1>1, SelectAssumption
      <3> QED
        BY <1>2, <3>1
    <2> QED
      BY <1>1, <2>1 DEF Passed
  <1> QED
    BY <1>4, <1>5, <1>6, <1>7, <1>8 DEF SelectInv

(* Every step keeps it. *)
LEMMA SelectNext == SelectInv /\ [Next]_vars => SelectInv'
  <1> SUFFICES ASSUME SelectInv, [Next]_vars PROVE SelectInv'
    OBVIOUS
  <1>1. ASSUME NEW c \in Channels, Prefer(c) PROVE SelectInv'
    BY <1>1, PreferKeeps
  <1>2. CASE RefusePreferred \/ Serve
    BY <1>2, RefuseServeKeeps
  <1>3. CASE Distribute
    BY <1>3, DistributeKeeps
  <1>4. ASSUME NEW e \in Errors, Fail(e) PROVE SelectInv'
    BY <1>4, FailKeeps
  <1>5. CASE Retry
    BY <1>5, RetryKeeps
  <1>6. CASE Change
    BY <1>6, ChangeKeeps
  <1>7. CASE UNCHANGED vars
    BY <1>7 DEF SelectInv, SearchTypes, Begins, Single, Fresh, NoRetries, Bounded, Spent,
                Priced, Passed, Descends, HigherFirst, Deep, Where, InGroup, MaxAttempts,
                vars, token, context, param, history, price, env
  <1> QED
    BY <1>1, <1>2, <1>3, <1>4, <1>5, <1>6, <1>7 DEF Next, Step

(* The request's search keeps the invariant. *)
LEMMA SelectInvariant == Spec => []SelectInv
  BY SelectInit, SelectNext, PTL DEF Spec

-----------------------------------------------------------------------------
(* The price of a billing expression. *)

(* The snapshot has the ratio of the group of the first channel. *)
FrozenInv ==
    /\ tiered \in BOOLEAN /\ frozen \in 0 .. NGroups /\ first \in Channels \cup {None}
    /\ phase = "distribute" => first = None
    /\ phase \in {"ask", "retry", "served"} =>
         first # None /\ (tiered => frozen = GroupOf[first])

(* It is taken when the first channel is known, and then kept. *)
LEMMA FrozenNext == SelectInv /\ SelectInv' /\ FrozenInv /\ [Next]_vars => FrozenInv'
  <1> SUFFICES ASSUME SelectInv, SelectInv', FrozenInv, [Next]_vars PROVE FrozenInv'
    OBVIOUS
  <1> USE DEF FrozenInv
  <1>t. /\ channel' \in Channels \cup {None} /\ usingGroup' \in 0 .. NGroups
        /\ phase' \in {"ask", "served"} => GroupOf'[channel'] = usingGroup'
        /\ GroupOf' = GroupOf /\ None \notin Channels
    BY SelectAssumption DEF SelectInv, SearchTypes, Priced
  <1>1. ASSUME NEW c, NEW g, phase = "distribute", PriceBy(g), UNCHANGED token,
               \/ Ask(c) /\ c # None
               \/ phase' = "refused" /\ UNCHANGED history
        PROVE  FrozenInv'
    <2>1. tiered' = tiered /\ frozen' \in 0 .. NGroups /\ (tiered => frozen' = usingGroup')
      BY <1>1, <1>t DEF PriceBy, token
    <2>2. CASE Ask(c) /\ c # None
      <3>1. phase' = "ask" /\ channel' = c /\ first' = c
        BY <1>1, <2>2 DEF Ask
      <3> QED
        BY <2>1, <2>2, <3>1, <1>t
    <2>3. CASE phase' = "refused" /\ UNCHANGED history
      BY <2>1, <2>3 DEF history
    <2> QED
      BY <1>1, <2>2, <2>3
  <1>2. ASSUME NEW c \in Channels, Prefer(c) PROVE FrozenInv'
    BY <1>1, <1>2, <1>t DEF Prefer
  <1>3. CASE Distribute
    BY <1>1, <1>3 DEF Distribute
  <1>4. CASE Retry
    <2>1. phase = "retry" /\ tiered' = tiered /\ frozen' = frozen
      BY <1>4 DEF Retry, token
    <2>2. /\ phase' \in {"ask", "failed", "exhausted"}
          /\ first' = first
      BY <1>4, <2>1 DEF Retry, Ask, history
    <2> QED
      BY <2>1, <2>2
  <1>5. CASE RefusePreferred \/ Serve
    BY <1>5 DEF RefusePreferred, Serve, token, price, history
  <1>6. ASSUME NEW e \in Errors, Fail(e) PROVE FrozenInv'
    <2>1. phase' \in {"failed", "retry", "exhausted"}
      BY <1>6 DEF Fail
    <2> QED
      BY <1>6, <2>1 DEF Fail, token, price, history
  <1>7. CASE Change
    BY <1>7 DEF Change, token, price, history
  <1>8. CASE UNCHANGED vars
    BY <1>8 DEF vars, token, price, history
  <1> QED
    BY <1>2, <1>3, <1>4, <1>5, <1>6, <1>7, <1>8 DEF Next, Step

(* The snapshot, for every behaviour. *)
LEMMA FrozenInvariant == Spec => []FrozenInv
  <1>1. Init => FrozenInv
    BY SelectAssumption DEF Init, FrozenInv
  <1> QED
    BY <1>1, SelectInvariant, FrozenNext, PTL DEF Spec

-----------------------------------------------------------------------------
(* A request makes in all at most RetryTimes + 1 attempts for each of its  *)
(* groups, although the selection sets the loop's counter back             *)
(* (CacheGetRandomSatisfiedChannel: SetRetry(0), ResetRetryNextTry; the    *)
(* loop of Relay).                                                         *)
THEOREM AttemptsBoundedTheorem == Spec => []AttemptsBounded
  <1>1. SelectInv /\ FrozenInv => AttemptsBounded
    BY DEF SelectInv, FrozenInv, Bounded, AttemptsBounded, TypeOK
  <1> QED
    BY <1>1, SelectInvariant, FrozenInvariant, PTL

(* A request with cross-group retry that is exhausted has asked a channel  *)
(* of every group that had a route all the time (the loop of Relay,        *)
(* ContextKeyAutoGroupIndex).                                              *)
THEOREM EveryGroupTriedTheorem == Spec => []EveryGroupTried
  <1>1. SelectInv => EveryGroupTried
    <2> SUFFICES ASSUME SelectInv, phase = "exhausted", auto, cross, RetryTimes > 0,
                        NEW c \in stable
                 PROVE  \E d \in tried : GroupOf[d] = GroupOf[c]
      BY DEF EveryGroupTried
    <2>1. /\ index = NGroups + 1
          /\ GroupOf[c] < index => \E d \in tried : GroupOf[d] = GroupOf[c]
      BY DEF SelectInv, Passed
    <2>2. c \in Channels /\ NGroups \in Nat
      BY SelectAssumption DEF SelectInv, SearchTypes
    <2>3. GroupOf[c] \in 1 .. NGroups
      BY <2>2, SelectAssumption
    <2> QED
      BY <2>1, <2>2, <2>3
  <1> QED
    BY <1>1, SelectInvariant, PTL

(* Within a group the channels are asked in the order of their priorities  *)
(* (GetRandomSatisfiedChannel), as long as the routes do not change.       *)
THEOREM HigherFirstTheorem == Spec => []HigherFirst
  <1>1. SelectInv => HigherFirst
    BY DEF SelectInv
  <1> QED
    BY <1>1, SelectInvariant, PTL

(* A request is settled by the ratio of the group of the channel that      *)
(* serves it (getChannel, HandleGroupRatio), or, with a billing            *)
(* expression, by that of the first channel it asked (BillingSnapshot).    *)
THEOREM PricedByItsGroupTheorem == Spec => []PricedByItsGroup
  <1>1. SelectInv /\ FrozenInv => PricedByItsGroup
    BY DEF SelectInv, FrozenInv, Priced, PricedByItsGroup, SettledBy
  <1> QED
    BY <1>1, SelectInvariant, FrozenInvariant, PTL

=============================================================================
