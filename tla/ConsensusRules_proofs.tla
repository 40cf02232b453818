----------------------- MODULE ConsensusRules_proofs -----------------------
(***************************************************************************)
(* What the decision rules compute for every number of guardians, every    *)
(* mode and every count of rows.                                           *)
(***************************************************************************)
EXTENDS ConsensusRules, TLAPS

\* The smallest strict majority: more than half, and no number below it is.
LEMMA StrictMajorityIsMajority ==
  ASSUME NEW n \in Nat, NEW a \in Nat
  PROVE  a >= StrictMajority(n) <=> 2 * a > n
BY DEF StrictMajority

\* The ceiling of two thirds, without the ceiling.
LEMMA SupermajorityIsTwoThirds ==
  ASSUME NEW t \in Nat, NEW a \in Nat
  PROVE  a >= Supermajority(t) <=> 3 * a >= 2 * t
BY DEF Supermajority

\* For three guardians and three valid rows the table and the general fallback
\* execute in the same cases: the table only renames outcomes.
THEOREM TableAgreesWithFallback ==
  ASSUME NEW c \in Counts, Phase5Applies(c, 3)
  PROVE  Phase5Table(c).execute <=> SupermajorFallback(c, 3).execute
<1>1. Supermajority(Total(c)) = 2
  BY DEF Phase5Applies, Supermajority
<1>2. /\ c.approve \in Nat /\ c.block \in Nat
      /\ c.approve + c.block = 3
      /\ Total(c) = 3
  BY DEF Counts, Phase5Applies, Total
<1>3. c.approve \in 0 .. 3 /\ c.block = 3 - c.approve
  BY <1>2
<1>4. CASE c.approve = 3
  BY <1>1, <1>2, <1>3, <1>4 DEF Phase5Table, SupermajorFallback, Clean, Contested, Hold, HardStop
<1>5. CASE c.approve = 2
  BY <1>1, <1>2, <1>3, <1>5 DEF Phase5Table, SupermajorFallback, Clean, Contested, Hold, HardStop
<1>6. CASE c.approve = 1
  BY <1>1, <1>2, <1>3, <1>6 DEF Phase5Table, SupermajorFallback, Clean, Contested, Hold, HardStop
<1>7. CASE c.approve = 0
  BY <1>1, <1>2, <1>3, <1>7 DEF Phase5Table, SupermajorFallback, Clean, Contested, Hold, HardStop
<1> QED
  BY <1>3, <1>4, <1>5, <1>6, <1>7

\* When each rule executes, in the words of the documentation.
LEMMA FallbackExecutes ==
  ASSUME NEW c \in Counts, NEW n \in Nat \ {0}, c.invalid = 0, Total(c) = n
  PROVE  SupermajorFallback(c, n).execute <=> 3 * c.approve >= 2 * n
<1>1. /\ c.approve \in Nat /\ c.block \in Nat
      /\ c.approve + c.block = n
  BY DEF Counts, Total
<1>2. c.approve >= Supermajority(n) <=> 3 * c.approve >= 2 * n
  BY <1>1, SupermajorityIsTwoThirds
<1>3. CASE 3 * c.approve >= 2 * n
  <2>1. c.approve >= Supermajority(Total(c)) /\ c.approve > c.block
    BY <1>1, <1>2, <1>3
  <2> QED
    BY <2>1, <1>3 DEF SupermajorFallback, Clean, Contested
<1>4. CASE ~(3 * c.approve >= 2 * n)
  <2>1. ~(c.approve >= Supermajority(Total(c)))
    BY <1>1, <1>2, <1>4
  <2> QED
    BY <2>1, <1>4 DEF SupermajorFallback, Hold, HardStop
<1> QED
  BY <1>3, <1>4

LEMMA MajorityExecutes ==
  ASSUME NEW c \in Counts, NEW n \in Nat \ {0}, c.invalid = 0, Total(c) <= n
  PROVE  MajorityRule(c, n).execute <=> 2 * c.approve > n
<1>1. /\ c.approve \in Nat /\ c.block \in Nat
      /\ c.approve + c.block <= n
  BY DEF Counts, Total
<1>2. c.approve >= StrictMajority(n) <=> 2 * c.approve > n
  BY <1>1, StrictMajorityIsMajority
<1>3. CASE 2 * c.approve > n
  <2>1. c.approve >= StrictMajority(n) /\ c.approve > c.block
    BY <1>1, <1>2, <1>3
  <2> QED
    BY <2>1, <1>3 DEF MajorityRule, Clean, Contested
<1>4. CASE ~(2 * c.approve > n)
  <2>1. ~(c.approve >= StrictMajority(n))
    BY <1>1, <1>2, <1>4
  <2> QED
    BY <2>1, <1>4 DEF MajorityRule, Hold, HardStop
<1> QED
  BY <1>3, <1>4

LEMMA UnanimousExecutes ==
  ASSUME NEW c \in Counts, NEW n \in Nat \ {0}, c.invalid = 0, Total(c) <= n
  PROVE  UnanimousRule(c, n).execute <=> c.approve = n
BY DEF UnanimousRule, Counts, Total, Clean, Hold, HardStop

LEMMA AnyExecutes ==
  ASSUME NEW c \in Counts, NEW n \in Nat \ {0}, c.invalid = 0, Total(c) <= n
  PROVE  AnyRule(c, n).execute <=> c.approve > 0
BY DEF AnyRule, Counts, Total, Clean, Contested, Hold, HardStop

LEMMA ConsensusExecutes ==
  ASSUME NEW m \in Modes, NEW c \in Counts, NEW n \in Nat \ {0}, Total(c) <= n
  PROVE  Consensus(m, c, n).execute <=> DocumentedExecute(m, c, n)
<1>0. /\ c.approve \in Nat /\ c.block \in Nat /\ c.invalid \in Nat
      /\ Total(c) = c.approve + c.block + c.invalid
  BY DEF Counts, Total
<1>1. CASE c.invalid > 0
  BY <1>0, <1>1 DEF Consensus, Hold, DocumentedExecute
<1>2. CASE c.invalid = 0 /\ Total(c) < MinimumVotesRequired(m, n)
  <2>1. ~Consensus(m, c, n).execute
    BY <1>0, <1>2 DEF Consensus, Hold
  <2>2. ~DocumentedExecute(m, c, n)
    BY <1>0, <1>2 DEF DocumentedExecute, MinimumVotesRequired, StrictMajority, Modes
  <2> QED
    BY <2>1, <2>2
<1>3. CASE c.invalid = 0 /\ ~(Total(c) < MinimumVotesRequired(m, n))
  <2>1. CASE m = "phase5"
    <3>1. Total(c) = n
      BY <1>0, <1>3, <2>1 DEF MinimumVotesRequired
    <3>2. Consensus(m, c, n) = IF Phase5Applies(c, n) THEN Phase5Table(c)
                                                     ELSE SupermajorFallback(c, n)
      BY <1>0, <1>3, <2>1 DEF Consensus
    <3>3. Consensus(m, c, n).execute <=> SupermajorFallback(c, n).execute
      BY <3>2, TableAgreesWithFallback DEF Phase5Applies
    <3> QED
      BY <1>3, <2>1, <3>1, <3>3, FallbackExecutes DEF DocumentedExecute
  <2>2. CASE m = "unanimous"
    BY <1>0, <1>3, <2>2, UnanimousExecutes DEF Consensus, DocumentedExecute
  <2>3. CASE m = "majority"
    BY <1>0, <1>3, <2>3, MajorityExecutes DEF Consensus, DocumentedExecute
  <2>4. CASE m = "any"
    BY <1>0, <1>3, <2>4, AnyExecutes DEF Consensus, DocumentedExecute
  <2> QED
    BY <2>1, <2>2, <2>3, <2>4 DEF Modes
<1> QED
  BY <1>0, <1>1, <1>2, <1>3
=============================================================================
