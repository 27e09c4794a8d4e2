---------------------------- MODULE QuorumProofs ----------------------------
(***************************************************************************)
(* The thresholds of every committee, and what collecting votes yields.    *)
(***************************************************************************)
EXTENDS QuorumCollection, TLAPS

\* Numbers below the modulus are their own remainders.
LEMMA SmallMod == ASSUME NEW x \in Nat, NEW m \in Nat, x < m PROVE x % m = x
  BY SMT

\* The thresholds, without the wrapping: no computation overflows.
LEMMA Thresholds ==
    /\ total_votes \in Nat
    /\ quorum_threshold = (2 * total_votes) \div 3 + 1
    /\ validity_threshold = (total_votes + 2) \div 3
  <1>1. total_votes \in Nat
    BY VotesAssumption DEF total_votes
  <1>2. (2 * total_votes) % U64 = 2 * total_votes
    BY <1>1, U64Assumption, SmallMod
  <1>3. (total_votes + 2) % U64 = total_votes + 2
    BY <1>1, U64Assumption, SmallMod
  <1> QED BY <1>1, <1>2, <1>3 DEF quorum_threshold, validity_threshold

\* The weights of a set, of its complement and of parts of it.
LEMMA Weights ==
    ASSUME NEW S \in SUBSET Validators, NEW T \in SUBSET Validators
    PROVE  /\ Weight[S] \in Nat /\ Weight[T] \in Nat
           /\ Weight[Validators \ S] = total_votes - Weight[S]
           /\ Weight[S \cap T] + Weight[S \cup T] = Weight[S] + Weight[T]
           /\ Weight[S \cup T] <= total_votes
           /\ S \subseteq T => Weight[S] <= Weight[T]
  <1>1. \A A, B \in SUBSET Validators :
          /\ Weight[A] \in Nat
          /\ A \cap B = {} => Weight[A \cup B] = Weight[A] + Weight[B]
    BY VotesAssumption
  <1>2. ASSUME NEW A \in SUBSET Validators, NEW B \in SUBSET Validators, A \subseteq B
        PROVE  Weight[B] = Weight[A] + Weight[B \ A] /\ Weight[A] <= Weight[B]
    <2>1. A \cup (B \ A) = B /\ A \cap (B \ A) = {}
      BY <1>2
    <2>2. Weight[A \cup (B \ A)] = Weight[A] + Weight[B \ A]
      BY <1>1, <2>1
    <2>3. Weight[A] \in Nat /\ Weight[B \ A] \in Nat
      BY <1>1
    <2>4. Weight[B] = Weight[A] + Weight[B \ A]
      BY <2>1, <2>2, Zenon
    <2> QED BY <2>3, <2>4, SMT
  <1>3. Validators \in SUBSET Validators /\ S \cup T \in SUBSET Validators
    OBVIOUS
  <1>4. Weight[Validators \ S] = total_votes - Weight[S]
    <2>1. total_votes = Weight[S] + Weight[Validators \ S]
      BY <1>2, <1>3, Zenon DEF total_votes
    <2>2. Weight[S] \in Nat /\ Weight[Validators \ S] \in Nat
      BY <1>1
    <2> QED BY <2>1, <2>2, SMT
  <1>5. Weight[S \cap T] + Weight[S \cup T] = Weight[S] + Weight[T]
    <2>1. Weight[S \cup T] = Weight[S] + Weight[(S \cup T) \ S]
      BY <1>2, <1>3
    <2>2. Weight[T] = Weight[S \cap T] + Weight[T \ (S \cap T)]
      BY <1>2
    <2>3. (S \cup T) \ S = T \ (S \cap T)
      OBVIOUS
    <2>4. S \cap T \in SUBSET Validators /\ T \ (S \cap T) \in SUBSET Validators
      OBVIOUS
    <2>5. Weight[S \cup T] = Weight[S] + Weight[T \ (S \cap T)]
      BY <2>1, <2>3, Zenon
    <2>6. Weight[S] \in Nat /\ Weight[S \cap T] \in Nat /\ Weight[T \ (S \cap T)] \in Nat
      BY <1>1, <2>4
    <2> QED BY <2>2, <2>5, <2>6, SMT
  <1>6. Weight[S \cup T] <= total_votes
    BY <1>2, <1>3 DEF total_votes
  <1> QED BY <1>1, <1>2, <1>4, <1>5, <1>6

\* Any two quorums share an honest validator, whatever the voting powers, as long
\* as less than a third of them is faulty: the fact that the proofs about the
\* consensus take as their assumption on the committee.
THEOREM QuorumIntersection == QuorumsIntersect
  <1> SUFFICES ASSUME NEW Q1 \in SUBSET Validators, NEW Q2 \in SUBSET Validators,
                      Weight[Q1] >= quorum_threshold, Weight[Q2] >= quorum_threshold,
                      Q1 \cap Q2 \cap Honest = {}
               PROVE  FALSE
    BY DEF QuorumsIntersect
  <1> DEFINE Faulty == Validators \ Honest
  <1>1. Faulty \in SUBSET Validators /\ Q1 \cap Q2 \in SUBSET Validators
    OBVIOUS
  <1>2. Q1 \cap Q2 \subseteq Faulty
    OBVIOUS
  <1>3. Weight[Q1 \cap Q2] <= Weight[Faulty]
    BY <1>1, <1>2, Weights
  <1>4. Weight[Q1 \cap Q2] + Weight[Q1 \cup Q2] = Weight[Q1] + Weight[Q2] /\ Weight[Q1 \cup Q2] <= total_votes
    BY Weights
  <1>5. 3 * Weight[Faulty] < total_votes
    BY HonestAssumption
  <1>6. Q1 \cup Q2 \in SUBSET Validators
    OBVIOUS
  <1>7. /\ Weight[Q1] \in Nat /\ Weight[Q2] \in Nat /\ Weight[Q1 \cap Q2] \in Nat
        /\ Weight[Q1 \cup Q2] \in Nat /\ Weight[Faulty] \in Nat
    BY <1>1, <1>6, VotesAssumption
  <1> HIDE DEF Faulty
  <1> QED BY <1>3, <1>4, <1>5, <1>7, Thresholds, SMT

\* The honest validators reach the quorum threshold without the faulty ones.
THEOREM HonestQuorum == HonestAreQuorum
  <1>1. Honest \in SUBSET Validators /\ 3 * Weight[Validators \ Honest] < total_votes
    BY HonestAssumption
  <1>2. Weight[Honest] \in Nat /\ Weight[Validators \ Honest] = total_votes - Weight[Honest]
    BY <1>1, Weights
  <1> QED BY <1>1, <1>2, Thresholds, SMT DEF HonestAreQuorum

\* The validity threshold is what the others need to lack to miss the quorum.
THEOREM ValidityThreshold == ValidityHasHonest
  <1> SUFFICES ASSUME NEW S \in SUBSET Validators
               PROVE  Weight[S] >= validity_threshold
                          <=> Weight[Validators \ S] < quorum_threshold
    BY DEF ValidityHasHonest
  <1>1. /\ Weight[S] \in Nat /\ Weight[Validators \ S] = total_votes - Weight[S]
        /\ Weight[S] <= total_votes
    BY Weights, Zenon DEF total_votes
  <1> QED BY <1>1, Thresholds, SMT
-----------------------------------------------------------------------------
\* The greater of two numbers.
LEMMA MaxTwo ==
    ASSUME NEW a \in Nat, NEW b \in Nat
    PROVE  /\ Max({a, b}) \in {a, b}
           /\ Max({a, b}) >= a /\ Max({a, b}) >= b
  <1>1. \E x \in {a, b} : \A y \in {a, b} : x >= y
    <2>1. CASE a >= b  BY <2>1
    <2>2. CASE b >= a  BY <2>2
    <2> QED BY <2>1, <2>2
  <1>2. Max({a, b}) \in {a, b} /\ \A y \in {a, b} : Max({a, b}) >= y
    BY <1>1 DEF Max
  <1> QED BY <1>2

\* One more answer: it moves its validator's weight from the missing answers to
\* those of its kind.
LEMMA OneAnswer ==
    ASSUME TypeOK, NEW v \in Validators, answer[v] = Waiting, NEW a, a # Waiting,
           answer' = [answer EXCEPT ![v] = a]
    PROVE  /\ Who(a)' = Who(a) \cup {v} /\ v \notin Who(a)
           /\ \A b : b # a /\ b # Waiting => Who(b)' = Who(b)
           /\ Weight[Who(a)'] = Weight[Who(a)] + weight(v)
           /\ Weight[Who(Waiting)'] = Weight[Who(Waiting)] - weight(v)
           /\ weight(v) \in Nat /\ weight(v) <= Weight[Who(Waiting)]
           /\ \A b : Weight[Who(b)] \in Nat
  <1>1. answer \in [Validators -> Keys \cup Errors \cup {Waiting}]
    BY DEF TypeOK
  <1>2. Who(a)' = Who(a) \cup {v} /\ v \notin Who(a)
    BY <1>1 DEF Who
  <1>3. \A b : b # a /\ b # Waiting => Who(b)' = Who(b)
    BY <1>1 DEF Who
  <1>4. Who(Waiting) = Who(Waiting)' \cup {v} /\ v \notin Who(Waiting)'
    BY <1>1 DEF Who
  <1>5. \A b : Who(b) \in SUBSET Validators /\ Who(b)' \in SUBSET Validators
    BY DEF Who
  <1>6. Weight[{v}] = weight(v) /\ weight(v) \in Nat
    BY VotesAssumption DEF weight
  <1>7. \A b : Weight[Who(b)] \in Nat /\ Weight[Who(b)'] \in Nat
    BY <1>5, VotesAssumption, Zenon
  <1>8. \A S \in SUBSET Validators : v \notin S => Weight[S \cup {v}] = Weight[S] + weight(v)
    <2> SUFFICES ASSUME NEW S \in SUBSET Validators, v \notin S
                 PROVE  Weight[S \cup {v}] = Weight[S] + weight(v)
      OBVIOUS
    <2>1. S \cap {v} = {} /\ {v} \in SUBSET Validators
      OBVIOUS
    <2> QED BY <2>1, <1>6, VotesAssumption, Zenon
  <1>9. Weight[Who(a)'] = Weight[Who(a)] + weight(v)
    BY <1>2, <1>5, <1>8, Zenon
  <1>10. Weight[Who(Waiting)] = Weight[Who(Waiting)'] + weight(v)
    BY <1>4, <1>5, <1>8, Zenon
  <1>11. /\ Weight[Who(Waiting)'] = Weight[Who(Waiting)] - weight(v)
         /\ weight(v) <= Weight[Who(Waiting)]
    BY <1>6, <1>7, <1>10, SMT
  <1> QED BY <1>2, <1>3, <1>6, <1>7, <1>9, <1>11, Zenon

\* Appending a new element keeps a sequence without repetitions, and adds it to
\* the elements.
LEMMA AppendNew ==
    ASSUME NEW S, NEW s \in Seq(S), NEW x \in S,
           x \notin {s[i] : i \in DOMAIN s},
           \A i, j \in DOMAIN s : s[i] = s[j] => i = j
    PROVE  LET t == Append(s, x)
           IN  /\ t \in Seq(S)
               /\ {t[i] : i \in DOMAIN t} = {s[i] : i \in DOMAIN s} \cup {x}
               /\ \A i, j \in DOMAIN t : t[i] = t[j] => i = j
  <1> DEFINE t == Append(s, x)
  <1>1. /\ t \in Seq(S) /\ Len(t) = Len(s) + 1 /\ Len(s) \in Nat
        /\ DOMAIN s = 1..Len(s) /\ DOMAIN t = 1..Len(s) + 1
        /\ \A i \in 1..Len(s) : t[i] = s[i]
        /\ t[Len(s) + 1] = x
    OBVIOUS
  <1> HIDE DEF t
  <1>2. DOMAIN t = DOMAIN s \cup {Len(s) + 1} /\ Len(s) + 1 \notin DOMAIN s
    BY <1>1
  <1>3. {t[i] : i \in DOMAIN t} = {s[i] : i \in DOMAIN s} \cup {x}
    BY <1>1, <1>2
  <1>4. \A i, j \in DOMAIN t : t[i] = t[j] => i = j
    BY <1>1, <1>2
  <1> QED BY <1>1, <1>3, <1>4 DEF t

LEMMA ScoresInit == Init => ScoresInv
  <1> SUFFICES ASSUME Init PROVE ScoresInv
    OBVIOUS
  <1> USE DEF Init
  <1>1. Who(Waiting) = Validators
    BY DEF Who
  <1>2. \A a : a # Waiting => Who(a) = {}
    BY DEF Who
  <1>3. \A a \in Keys \cup Errors : a # Waiting
    BY AnswersAssumption
  <1>4. \A a \in Keys \cup Errors : Weight[Who(a)] = 0
    BY <1>2, <1>3, VotesAssumption, Zenon
  <1>5. remaining_votes = Weight[Who(Waiting)]
    BY <1>1, Zenon DEF total_votes
  <1>6. TypeOK
    <2>1. answer \in [Validators -> Keys \cup Errors \cup {Waiting}]
      OBVIOUS
    <2>2. \A k \in Keys : /\ value_scores[k].score = Weight[Who(k)]
                          /\ value_scores[k].score <= highest_key_score
      BY <1>4
    <2>3. \A e \in Errors : error_scores[e] = Weight[Who(e)]
      BY <1>4
    <2>4. end_time \in BOOLEAN /\ timed_out \in BOOLEAN
      BY Zenon
    <2>5. highest_key_score \in Nat
      OBVIOUS
    <2> QED BY <1>5, <2>1, <2>2, <2>3, <2>4, <2>5, Zenon DEF TypeOK
  <1>7. \A k \in Keys : LET s == value_scores[k].values
                        IN  /\ {s[i] : i \in DOMAIN s} = Who(k)
                            /\ \A i, j \in DOMAIN s : s[i] = s[j] => i = j
    <2> SUFFICES ASSUME NEW k \in Keys
                 PROVE  LET s == value_scores[k].values
                        IN  /\ {s[i] : i \in DOMAIN s} = Who(k)
                            /\ \A i, j \in DOMAIN s : s[i] = s[j] => i = j
      OBVIOUS
    <2>1. value_scores[k].values = <<>> /\ Who(k) = {}
      BY <1>2, <1>3
    <2> QED BY <2>1
  <1> QED BY <1>6, <1>7 DEF ScoresInv

\* A value: its key's score, and perhaps the highest score, grow by its weight.
LEMMA ValueStep ==
    ASSUME ScoresInv, NEW v \in Validators, NEW k \in Keys, receive_value(v, k)
    PROVE  ScoresInv'
  <1>1. k # Waiting /\ answer[v] = Waiting /\ v \in Asked /\ TypeOK
        /\ answer' = [answer EXCEPT ![v] = k]
    BY AnswersAssumption DEF receive_value, ScoresInv
  <1> DEFINE w == weight(v)
             old == value_scores[k].values
  <1>2. /\ Who(k)' = Who(k) \cup {v} /\ v \notin Who(k)
        /\ \A b : b # k /\ b # Waiting => Who(b)' = Who(b)
        /\ Weight[Who(k)'] = Weight[Who(k)] + w
        /\ Weight[Who(Waiting)'] = Weight[Who(Waiting)] - w
        /\ w \in Nat /\ w <= Weight[Who(Waiting)]
        /\ \A b : Weight[Who(b)] \in Nat
    BY <1>1, OneAnswer
  <1>3. /\ value_scores \in [Keys -> [score : Nat, values : Seq(Asked)]]
        /\ error_scores \in [Errors -> Nat]
        /\ error_scores' = error_scores
        /\ value_scores' = [value_scores EXCEPT ![k].score = @ + w, ![k].values = Append(@, v)]
        /\ remaining_votes' = remaining_votes - w
        /\ highest_key_score' = Max({highest_key_score, value_scores'[k].score})
        /\ highest_key_score \in Nat /\ remaining_votes = Weight[Who(Waiting)]
    BY <1>1 DEF receive_value, ScoresInv, TypeOK
  <1>4. /\ value_scores'[k] = [score |-> value_scores[k].score + w, values |-> Append(old, v)]
        /\ \A j \in Keys : j # k => value_scores'[j] = value_scores[j]
        /\ DOMAIN value_scores' = Keys
        /\ old \in Seq(Asked) /\ value_scores[k].score \in Nat
    BY <1>3
  <1>5. /\ {old[i] : i \in DOMAIN old} = Who(k)
        /\ \A i, j \in DOMAIN old : old[i] = old[j] => i = j
    BY DEF ScoresInv
  <1> HIDE DEF old, w
  <1>6. LET t == Append(old, v)
        IN  /\ t \in Seq(Asked)
            /\ {t[i] : i \in DOMAIN t} = Who(k)'
            /\ \A i, j \in DOMAIN t : t[i] = t[j] => i = j
    <2>1. v \notin {old[i] : i \in DOMAIN old}
      BY <1>2, <1>5, Zenon
    <2>2. LET t == Append(old, v)
          IN  /\ t \in Seq(Asked)
              /\ {t[i] : i \in DOMAIN t} = {old[i] : i \in DOMAIN old} \cup {v}
              /\ \A i, j \in DOMAIN t : t[i] = t[j] => i = j
      BY <2>1, <1>1, <1>4, <1>5, AppendNew, Zenon
    <2> QED BY <2>2, <1>2, <1>5, Zenon
  <1>7. value_scores' \in [Keys -> [score : Nat, values : Seq(Asked)]]
    <2>1. Append(old, v) \in Seq(Asked)
      BY <1>6, Zenon
    <2>2. value_scores[k].score + w \in Nat
      BY <1>2, <1>4
    <2>3. value_scores'[k] \in [score : Nat, values : Seq(Asked)]
      BY <1>4, <2>1, <2>2
    <2>4. \A j \in Keys : value_scores'[j] \in [score : Nat, values : Seq(Asked)]
      BY <1>3, <1>4, <2>3, Zenon
    <2>5. value_scores' = [j \in Keys |-> value_scores'[j]]
      BY <1>3
    <2> QED BY <2>4, <2>5, Zenon
  <1>8. \A j \in Keys : LET s == value_scores'[j].values
                        IN  /\ {s[i] : i \in DOMAIN s} = Who(j)'
                            /\ \A i, l \in DOMAIN s : s[i] = s[l] => i = l
    <2> SUFFICES ASSUME NEW j \in Keys
                 PROVE  LET s == value_scores'[j].values
                        IN  /\ {s[i] : i \in DOMAIN s} = Who(j)'
                            /\ \A i, l \in DOMAIN s : s[i] = s[l] => i = l
      OBVIOUS
    <2>1. CASE j = k
      <3>1. value_scores'[k].values = Append(old, v)
        BY <1>4
      <3>2. value_scores'[j].values = Append(old, v) /\ Who(j)' = Who(k)'
        BY <2>1, <3>1
      <3> QED BY <3>2, <1>6, Zenon
    <2>2. CASE j # k
      <3>1. value_scores'[j] = value_scores[j]
        BY <2>2, <1>4
      <3>2. Who(j)' = Who(j)
        BY <2>2, <1>2, AnswersAssumption
      <3>3. LET s == value_scores[j].values
            IN  /\ {s[i] : i \in DOMAIN s} = Who(j)
                /\ \A i, l \in DOMAIN s : s[i] = s[l] => i = l
        BY DEF ScoresInv
      <3> QED BY <3>1, <3>2, <3>3, Zenon
    <2> QED BY <2>1, <2>2
  <1>9. \A j \in Keys : value_scores'[j].score = Weight[Who(j)']
    <2> SUFFICES ASSUME NEW j \in Keys PROVE value_scores'[j].score = Weight[Who(j)']
      OBVIOUS
    <2>1. \A i \in Keys : value_scores[i].score = Weight[Who(i)]
      BY <1>1 DEF TypeOK
    <2>2. CASE j = k
      BY <2>1, <2>2, <1>2, <1>4
    <2>3. CASE j # k
      <3>1. Who(j)' = Who(j)
        BY <2>3, <1>2, AnswersAssumption
      <3> QED BY <2>1, <2>3, <3>1, <1>4
    <2> QED BY <2>2, <2>3
  <1>10. /\ highest_key_score' \in {highest_key_score, value_scores'[k].score}
         /\ highest_key_score' >= highest_key_score
         /\ highest_key_score' >= value_scores'[k].score
         /\ highest_key_score' \in Nat
    <2>1. value_scores'[k].score \in Nat
      BY <1>2, <1>4
    <2> QED BY <1>3, <2>1, MaxTwo
  <1>11. \A j \in Keys : value_scores'[j].score <= highest_key_score'
    <2>1. \A j \in Keys : value_scores[j].score <= highest_key_score /\ value_scores[j].score \in Nat
      BY <1>1, <1>3 DEF TypeOK
    <2> QED BY <2>1, <1>3, <1>4, <1>10
  <1>12. highest_key_score' = 0 \/ \E j \in Keys : highest_key_score' = value_scores'[j].score
    <2>1. CASE highest_key_score' = value_scores'[k].score
      BY <2>1
    <2>2. CASE highest_key_score' = highest_key_score /\ highest_key_score # 0
      <3>1. PICK j \in Keys : highest_key_score = value_scores[j].score
        BY <2>2 DEF ScoresInv
      <3>2. CASE j = k
        <4>1. value_scores'[k].score = highest_key_score + w
          BY <3>1, <3>2, <1>4
        <4>2. highest_key_score' = value_scores'[k].score
          BY <4>1, <2>2, <1>2, <1>3, <1>10
        <4> QED BY <4>2
      <3>3. CASE j # k
        BY <3>1, <3>3, <2>2, <1>4
      <3> QED BY <3>2, <3>3
    <2> QED BY <2>1, <2>2, <1>10
  <1>13. end_time' => stops(highest_key_score', remaining_votes')
    <2>1. CASE stops(highest_key_score', remaining_votes')
      BY <2>1
    <2>2. CASE ~stops(highest_key_score', remaining_votes')
      <3>1. end_time' = end_time
        BY <2>2 DEF receive_value, ScoresInv, TypeOK
      <3>2. CASE end_time
        <4>1. stops(highest_key_score, remaining_votes)
          BY <3>2 DEF ScoresInv
        <4>2. highest_key_score' <= highest_key_score + w
          <5>1. value_scores[k].score <= highest_key_score
            BY <1>1 DEF TypeOK
          <5> QED BY <5>1, <1>2, <1>3, <1>4, <1>10
        <4>3. quorum_threshold \in Nat
          BY Thresholds
        <4> QED BY <4>1, <4>2, <4>3, <1>2, <1>3, <1>10 DEF stops
      <3> QED BY <3>1, <3>2
    <2> QED BY <2>1, <2>2
  <1>14. \A e \in Errors : error_scores'[e] = Weight[Who(e)']
    <2> SUFFICES ASSUME NEW e \in Errors PROVE error_scores'[e] = Weight[Who(e)']
      OBVIOUS
    <2>1. e # k /\ e # Waiting
      BY AnswersAssumption
    <2>2. Who(e)' = Who(e)
      BY <2>1, <1>2
    <2> QED BY <2>2, <1>1, <1>3 DEF TypeOK
  <1>15. /\ answer' \in [Validators -> Keys \cup Errors \cup {Waiting}]
         /\ remaining_votes' = Weight[Who(Waiting)']
    BY <1>1, <1>2, <1>3 DEF TypeOK
  <1>16. end_time' \in BOOLEAN /\ timed_out' \in BOOLEAN
    BY <1>1, Zenon DEF receive_value, TypeOK
  <1>17. TypeOK'
    BY <1>9, <1>10, <1>11, <1>14, <1>15, <1>16, Zenon DEF TypeOK
  <1> QED BY <1>3, <1>7, <1>8, <1>12, <1>13, <1>17, Zenon DEF ScoresInv

\* An error: its score grows by the weight of who returned it.
LEMMA ErrorStep ==
    ASSUME ScoresInv, NEW v \in Validators, NEW e \in Errors, receive_error(v, e)
    PROVE  ScoresInv'
  <1>1. e # Waiting /\ answer[v] = Waiting /\ TypeOK /\ answer' = [answer EXCEPT ![v] = e]
    BY AnswersAssumption DEF receive_error, ScoresInv
  <1> DEFINE w == weight(v)
  <1>2. /\ \A b : b # e /\ b # Waiting => Who(b)' = Who(b)
        /\ Weight[Who(e)'] = Weight[Who(e)] + w
        /\ Weight[Who(Waiting)'] = Weight[Who(Waiting)] - w
        /\ w \in Nat /\ w <= Weight[Who(Waiting)]
        /\ \A b : Weight[Who(b)] \in Nat
    BY <1>1, OneAnswer
  <1>3. /\ value_scores' = value_scores /\ highest_key_score' = highest_key_score
        /\ error_scores' = [error_scores EXCEPT ![e] = @ + w]
        /\ error_scores \in [Errors -> Nat]
        /\ remaining_votes' = remaining_votes - w
        /\ highest_key_score \in Nat /\ remaining_votes = Weight[Who(Waiting)]
    BY <1>1 DEF receive_error, ScoresInv, TypeOK
  <1> HIDE DEF w
  <1>4. \A k \in Keys : Who(k)' = Who(k)
    BY <1>2, AnswersAssumption
  <1>5. error_scores' \in [Errors -> Nat]
    BY <1>2, <1>3
  <1>6. \A d \in Errors : error_scores'[d] = Weight[Who(d)']
    <2> SUFFICES ASSUME NEW d \in Errors PROVE error_scores'[d] = Weight[Who(d)']
      OBVIOUS
    <2>1. \A i \in Errors : error_scores[i] = Weight[Who(i)]
      BY <1>1 DEF TypeOK
    <2>2. CASE d = e
      BY <2>1, <2>2, <1>2, <1>3
    <2>3. CASE d # e
      <3>1. Who(d)' = Who(d)
        BY <2>3, <1>2, AnswersAssumption
      <3> QED BY <2>1, <2>3, <3>1, <1>3
    <2> QED BY <2>2, <2>3
  <1>7. end_time' => stops(highest_key_score', remaining_votes')
    <2>1. CASE stops(highest_key_score', remaining_votes')
      BY <2>1
    <2>2. CASE ~stops(highest_key_score', remaining_votes')
      <3>1. end_time' = end_time
        BY <2>2, <1>3 DEF receive_error, ScoresInv, TypeOK
      <3>2. CASE end_time
        <4>1. stops(highest_key_score, remaining_votes)
          BY <3>2 DEF ScoresInv
        <4>2. quorum_threshold \in Nat
          BY Thresholds
        <4> QED BY <4>1, <4>2, <1>2, <1>3 DEF stops
      <3> QED BY <3>1, <3>2
    <2> QED BY <2>1, <2>2
  <1>8. \A k \in Keys : /\ value_scores'[k].score = Weight[Who(k)']
                        /\ value_scores'[k].score <= highest_key_score'
    BY <1>1, <1>3, <1>4 DEF TypeOK
  <1>9. /\ answer' \in [Validators -> Keys \cup Errors \cup {Waiting}]
        /\ remaining_votes' = Weight[Who(Waiting)']
    BY <1>1, <1>2, <1>3 DEF TypeOK
  <1>10. end_time' \in BOOLEAN /\ timed_out' \in BOOLEAN
    BY <1>1, Zenon DEF receive_error, TypeOK
  <1>11. TypeOK'
    BY <1>3, <1>6, <1>8, <1>9, <1>10, Zenon DEF TypeOK
  <1>12. \A k \in Keys : LET s == value_scores'[k].values
                         IN  /\ {s[i] : i \in DOMAIN s} = Who(k)'
                             /\ \A i, j \in DOMAIN s : s[i] = s[j] => i = j
    <2> SUFFICES ASSUME NEW k \in Keys
                 PROVE  LET s == value_scores'[k].values
                        IN  /\ {s[i] : i \in DOMAIN s} = Who(k)'
                            /\ \A i, j \in DOMAIN s : s[i] = s[j] => i = j
      OBVIOUS
    <2>1. LET s == value_scores[k].values
          IN  /\ {s[i] : i \in DOMAIN s} = Who(k)
              /\ \A i, j \in DOMAIN s : s[i] = s[j] => i = j
      BY DEF ScoresInv
    <2>2. value_scores'[k].values = value_scores[k].values /\ Who(k)' = Who(k)
      BY <1>3, <1>4
    <2> QED BY <2>1, <2>2, Zenon
  <1> QED BY <1>3, <1>5, <1>7, <1>11, <1>12, Zenon DEF ScoresInv

\* The steps that only end the call.
LEMMA EndStep ==
    ASSUME ScoresInv, stop \/ grace_period_over \/ time_out \/ UNCHANGED vars
    PROVE  ScoresInv'
  <1>1. /\ answer' = answer /\ remaining_votes' = remaining_votes
        /\ highest_key_score' = highest_key_score /\ value_scores' = value_scores
        /\ error_scores' = error_scores /\ end_time' = end_time
    BY DEF stop, grace_period_over, time_out, vars
  <1>2. timed_out' \in BOOLEAN
    BY Zenon DEF stop, grace_period_over, time_out, vars, ScoresInv, TypeOK
  <1>3. \A a : Who(a)' = Who(a)
    BY <1>1 DEF Who
  <1>4. TypeOK'
    BY <1>1, <1>2, <1>3, Zenon DEF ScoresInv, TypeOK
  <1>5. \A k \in Keys : LET s == value_scores'[k].values
                        IN  /\ {s[i] : i \in DOMAIN s} = Who(k)'
                            /\ \A i, j \in DOMAIN s : s[i] = s[j] => i = j
    <2> SUFFICES ASSUME NEW k \in Keys
                 PROVE  LET s == value_scores'[k].values
                        IN  /\ {s[i] : i \in DOMAIN s} = Who(k)'
                            /\ \A i, j \in DOMAIN s : s[i] = s[j] => i = j
      OBVIOUS
    <2>1. LET s == value_scores[k].values
          IN  /\ {s[i] : i \in DOMAIN s} = Who(k)
              /\ \A i, j \in DOMAIN s : s[i] = s[j] => i = j
      BY DEF ScoresInv
    <2>2. value_scores'[k].values = value_scores[k].values /\ Who(k)' = Who(k)
      BY <1>1, <1>3
    <2> QED BY <2>1, <2>2, Zenon
  <1>6. end_time' => stops(highest_key_score', remaining_votes')
    BY <1>1 DEF ScoresInv
  <1> QED BY <1>1, <1>4, <1>5, <1>6, Zenon DEF ScoresInv

LEMMA ScoresStep == ScoresInv /\ [Next]_vars => ScoresInv'
  BY ValueStep, ErrorStep, EndStep DEF Next

-----------------------------------------------------------------------------
\* Validators of a set and of its complement, and disjoint sets, cannot together
\* outweigh the committee.
LEMMA Disjoint ==
    ASSUME NEW S \in SUBSET Validators, NEW T \in SUBSET Validators, S \cap T = {}
    PROVE  /\ Weight[S] \in Nat /\ Weight[T] \in Nat
           /\ Weight[S \cup T] = Weight[S] + Weight[T]
           /\ Weight[S] + Weight[T] <= total_votes
  <1>1. Weight[S \cup T] = Weight[S] + Weight[T]
    BY VotesAssumption, Zenon
  <1>2. Weight[S \cup T] <= total_votes /\ Weight[S] \in Nat /\ Weight[T] \in Nat
    BY Weights
  <1> QED BY <1>1, <1>2

\* The disjoint sets of those who answered a key, an error, or nothing yet.
LEMMA WhoSets ==
    ASSUME NEW k \in Keys
    PROVE  /\ Who(k) \in SUBSET Validators /\ Who(Waiting) \in SUBSET Validators
           /\ Who(k) \cap Who(Waiting) = {}
           /\ \A e \in Errors : Who(e) \in SUBSET Validators
                                /\ Who(e) \cap (Who(k) \cup Who(Waiting)) = {}
  BY AnswersAssumption DEF Who

\* The validity threshold: the validators E that have it include an honest one, and
\* leave no quorum to others, K and W together.
LEMMA TrustedStep ==
    ASSUME NEW E \in SUBSET Validators, NEW K \in SUBSET Validators, NEW W \in SUBSET Validators,
           K \cap W = {}, E \cap (K \cup W) = {}, Weight[E] >= validity_threshold
    PROVE  /\ E \cap Honest # {}
           /\ Weight[K] + Weight[W] < quorum_threshold
           /\ Weight[K \cup W] < quorum_threshold
  <1>1. E \cap Honest # {}
    <2> SUFFICES ASSUME E \cap Honest = {} PROVE FALSE
      OBVIOUS
    <2>1. E \subseteq Validators \ Honest /\ Validators \ Honest \in SUBSET Validators
      OBVIOUS
    <2>2. Weight[E] <= Weight[Validators \ Honest]
      BY <2>1, Weights
    <2>3. Weight[E] \in Nat /\ Weight[Validators \ Honest] \in Nat
      BY <2>1, VotesAssumption
    <2> QED BY <2>2, <2>3, Thresholds, HonestAssumption, SMT
  <1>2. Weight[K \cup W] = Weight[K] + Weight[W] /\ K \cup W \in SUBSET Validators
    BY Disjoint
  <1>3. /\ Weight[E] \in Nat /\ Weight[K \cup W] \in Nat
        /\ Weight[E] + Weight[K \cup W] <= total_votes
    BY <1>2, Disjoint
  <1>4. Weight[K \cup W] < quorum_threshold
    BY <1>3, Thresholds, SMT
  <1> QED BY <1>1, <1>2, <1>4

\* The result of a call that ends, from the scores.
LEMMA OutcomeStep ==
    ASSUME ScoresInv, result = {}, stop \/ grace_period_over \/ time_out
    PROVE  ResultInv'
  <1>1. answer' = answer /\ \A a : Who(a)' = Who(a)
    BY DEF stop, grace_period_over, time_out, Who
  <1>2. PICK r \in Outcome : result' = {r}
    BY DEF stop, grace_period_over, time_out
  <1>3. /\ \A k \in Keys : value_scores[k].score = Weight[Who(k)] /\ Weight[Who(k)] \in Nat
        /\ remaining_votes = Weight[Who(Waiting)] /\ remaining_votes \in Nat
        /\ highest_key_score \in Nat
        /\ \A k \in Keys : value_scores[k].score <= highest_key_score
    <2>1. \A a : Weight[Who(a)] \in Nat
      BY VotesAssumption DEF Who
    <2> QED BY <2>1 DEF ScoresInv, TypeOK
  <1>4. quorum_threshold \in Nat /\ quorum_threshold > 0
    BY Thresholds
  <1>5. CASE \E k \in Keys : value_scores[k].score >= quorum_threshold
    <2>1. PICK k \in Keys : /\ value_scores[k].score >= quorum_threshold
                            /\ r = [ok |-> k, values |-> value_scores[k].values]
      BY <1>5 DEF Outcome
    <2> DEFINE s == value_scores[k].values
    <2>2. /\ s \in Seq(Asked) /\ {s[i] : i \in DOMAIN s} = Who(k)
          /\ \A i, j \in DOMAIN s : s[i] = s[j] => i = j
      BY DEF ScoresInv
    <2>3. DOMAIN r = {"ok", "values"} /\ r.values = s
      BY <2>1
    <2>4. Weight[{s[i] : i \in DOMAIN s}] >= quorum_threshold
      BY <2>1, <2>2, <1>3
    <2> HIDE DEF s
    <2>5. \A i \in DOMAIN s : weight(s[i]) > 0
      BY <2>2 DEF Asked
    <2>6. check_signatures(s)
      BY <2>2, <2>4, <2>5, Zenon DEF check_signatures
    <2>7. "error" \notin DOMAIN r /\ "ok" \in DOMAIN r
      BY <2>3
    <2> QED BY <1>2, <2>3, <2>6, <2>7
            DEF ResultInv, CertificateIsValid, TrustedErrorIsHonest, FailsOnlyWithoutQuorum
  <1>6. CASE \A k \in Keys : ~ (value_scores[k].score >= quorum_threshold)
    <2>1. r \in {[err |-> "NoConsensus"], [err |-> "Sample"]}
      BY <1>6 DEF Outcome
    <2>2. "ok" \notin DOMAIN r /\ "error" \notin DOMAIN r
      BY <2>1
    <2>3. CertificateIsValid' /\ TrustedErrorIsHonest'
      BY <1>2, <2>2 DEF CertificateIsValid, TrustedErrorIsHonest
    <2>4. ASSUME ~timed_out', NEW k \in Keys
          PROVE  Weight[Who(k) \cup Who(Waiting)] < quorum_threshold
      <3>1. Weight[Who(k) \cup Who(Waiting)] = Weight[Who(k)] + remaining_votes
        <4>1. /\ Who(k) \in SUBSET Validators /\ Who(Waiting) \in SUBSET Validators
              /\ Who(k) \cap Who(Waiting) = {}
          BY WhoSets
        <4> QED BY <4>1, <1>3, Disjoint
      <3>2. CASE stop
        <4>1. \A v \in Who(Waiting) : Votes[v] = 0
          <5>1. Votes \in [Validators -> Nat]
            BY VotesAssumption
          <5> QED BY <3>2, <5>1 DEF stop, Who, Asked, weight
        <4>2. Who(Waiting) \in SUBSET Validators
          BY DEF Who
        <4>3. Weight[Who(Waiting)] = 0
          BY <4>1, <4>2, VotesAssumption
        <4> QED BY <3>1, <4>3, <1>3, <1>4, <1>6
      <3>3. CASE grace_period_over
        <4>1. end_time
          BY <3>3 DEF grace_period_over
        <4>2. stops(highest_key_score, remaining_votes)
          BY <4>1 DEF ScoresInv
        <4>3. highest_key_score < quorum_threshold
          <5>1. highest_key_score = 0 \/ \E j \in Keys : highest_key_score = value_scores[j].score
            BY DEF ScoresInv
          <5> QED BY <5>1, <1>3, <1>4, <1>6
        <4> QED BY <3>1, <4>2, <4>3, <1>3, <1>4 DEF stops
      <3>4. CASE time_out
        BY <2>4, <3>4 DEF time_out
      <3> QED BY <3>2, <3>3, <3>4
    <2>5. FailsOnlyWithoutQuorum'
      BY <1>1, <2>4 DEF FailsOnlyWithoutQuorum
    <2> QED BY <2>3, <2>5 DEF ResultInv
  <1> QED BY <1>5, <1>6

LEMMA ResultStep == ScoresInv /\ ResultInv /\ [Next]_vars => ResultInv'
  <1> SUFFICES ASSUME ScoresInv, ResultInv, [Next]_vars PROVE ResultInv'
    OBVIOUS
  <1>1. CASE result' = {}
    BY <1>1 DEF ResultInv, CertificateIsValid, TrustedErrorIsHonest, FailsOnlyWithoutQuorum
  <1>2. ASSUME NEW v \in Validators, NEW k \in Keys, receive_value(v, k) PROVE ResultInv'
    BY <1>1, <1>2 DEF receive_value
  <1>3. ASSUME NEW v \in Validators, NEW e \in Errors, receive_error(v, e), result' # {}
        PROVE  ResultInv'
    <2>1. error_scores'[e] >= validity_threshold /\ result' = {[err |-> "Trusted", error |-> e]}
      BY <1>3 DEF receive_error
    <2>2. ScoresInv'
      BY <1>3, ErrorStep
    <2>3. (Weight[Who(e)] >= validity_threshold)'
      BY <2>1, <2>2 DEF ScoresInv, TypeOK
    <2>4. /\ (Who(e) \cap Honest # {})'
          /\ \A k \in Keys : /\ (Weight[Who(k)] + Weight[Who(Waiting)] < quorum_threshold)'
                             /\ (Weight[Who(k) \cup Who(Waiting)] < quorum_threshold)'
      <3>1. \A k \in Keys : /\ Who(k)' \in SUBSET Validators /\ Who(Waiting)' \in SUBSET Validators
                            /\ Who(k)' \cap Who(Waiting)' = {}
                            /\ Who(e)' \in SUBSET Validators
                            /\ Who(e)' \cap (Who(k)' \cup Who(Waiting)') = {}
        BY AnswersAssumption DEF Who
      <3>2. \A k \in Keys : /\ (Weight[Who(k)] + Weight[Who(Waiting)] < quorum_threshold)'
                            /\ (Weight[Who(k) \cup Who(Waiting)] < quorum_threshold)'
        BY <2>3, <3>1, TrustedStep
      <3>3. Who(e)' \in SUBSET Validators /\ {} \in SUBSET Validators
        BY DEF Who
      <3>4. Who(e)' \cap Honest # {}
        BY <2>3, <3>3, TrustedStep
      <3> QED BY <3>2, <3>4
    <2> DEFINE r == [err |-> "Trusted", error |-> e]
    <2>5. "ok" \notin DOMAIN r /\ r.error = e
      OBVIOUS
    <2> HIDE DEF r
    <2>6. result' = {r}
      BY <2>1 DEF r
    <2> QED BY <2>4, <2>5, <2>6
            DEF ResultInv, CertificateIsValid, TrustedErrorIsHonest, FailsOnlyWithoutQuorum
  <1>4. CASE stop \/ grace_period_over \/ time_out
    BY <1>4, OutcomeStep DEF stop, grace_period_over, time_out
  <1>5. CASE UNCHANGED vars
    <2>1. result' = result /\ timed_out' = timed_out /\ \A a : Who(a)' = Who(a)
      BY <1>5 DEF vars, Who
    <2> QED BY <2>1 DEF ResultInv, CertificateIsValid, TrustedErrorIsHonest, FailsOnlyWithoutQuorum
  <1> QED BY <1>1, <1>2, <1>3, <1>4, <1>5 DEF Next

LEMMA ResultInit == Init => ResultInv
  BY DEF Init, ResultInv, CertificateIsValid, TrustedErrorIsHonest, FailsOnlyWithoutQuorum

\* Whatever the committee, its votes and the order of the answers: certificates are
\* valid, trusted errors come from an honest validator and exclude a quorum, and
\* without a time-out the client fails only if there is no quorum to wait for.
THEOREM CollectionIsSound == Spec => [](CertificateIsValid /\ TrustedErrorIsHonest /\ FailsOnlyWithoutQuorum)
  <1>1. Spec => [](ScoresInv /\ ResultInv)
    BY ScoresInit, ResultInit, ScoresStep, ResultStep, PTL DEF Spec
  <1> QED BY <1>1, PTL DEF ResultInv
=============================================================================
