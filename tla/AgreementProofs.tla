-------------------------- MODULE AgreementProofs ---------------------------
(***************************************************************************)
(* The safety of the consensus: SafetyInv is inductive, and it implies     *)
(* that no two certificates of a height confirm different blocks.          *)
(***************************************************************************)
EXTENDS ConsensusProofs

\* The rounds a manager holds are rounds.
LEMMA ManagerRounds ==
    ASSUME NEW m \in Manager
    PROVE  /\ m.current_round \in Round
           /\ \A q \in m.proposed : q.round \in Round
           /\ \A l \in m.locked : l \in Certificate /\ l.round \in Round
BY DEF Manager, ProposalContent, Certificate

\* Votes are never withdrawn, so certificates stay certificates.
LEMMA CertMonotone ==
    ASSUME NEW c, validated \subseteq validated', ValidatedCert(c)
    PROVE  ValidatedCert(c)'
BY DEF ValidatedCert, HasQuorum

\* A certificate has been signed by an honest validator.
LEMMA CertSigner ==
    ASSUME NEW c \in Certificate
    PROVE  /\ ValidatedCert(c) => /\ c \in Certs(validated)
                                  /\ \E v \in Honest : [validator |-> v, value |-> c.value,
                                                        round |-> c.round] \in validated
           /\ ConfirmedCert(c) => \E v \in Honest : [validator |-> v, value |-> c.value,
                                                     round |-> c.round] \in confirmed
<1>1. c = [value |-> c.value, round |-> c.round]
  BY DEF Certificate
<1>2. ASSUME ValidatedCert(c)
      PROVE  \E v \in Honest : [validator |-> v, value |-> c.value, round |-> c.round] \in validated
  BY <1>2, CommitteeAssumption DEF ValidatedCert, HasQuorum
<1>3. ASSUME ConfirmedCert(c)
      PROVE  \E v \in Honest : [validator |-> v, value |-> c.value, round |-> c.round] \in confirmed
  BY <1>3, CommitteeAssumption DEF ConfirmedCert, HasQuorum
<1>4. ASSUME NEW v \in Honest, [validator |-> v, value |-> c.value, round |-> c.round] \in validated
      PROVE  c \in Certs(validated)
  BY <1>1, <1>4 DEF Certs
<1> QED
  BY <1>2, <1>3, <1>4

\* Steps that cast no vote for a block, keep the tips, and only raise current
\* rounds preserve the invariant.
LEMMA SafetyFrame ==
    ASSUME TypeOK, TypeOK', SafetyInv,
           UNCHANGED <<chain, validated, confirmed>>,
           \A v \in Honest : /\ manager'[v].proposed = manager[v].proposed
                             /\ manager'[v].locked = manager[v].locked
                             /\ manager[v].current_round <= manager'[v].current_round
    PROVE  SafetyInv'
<1>1. \A v \in Honest : VotesFor(validated, v)' = VotesFor(validated, v)
                        /\ VotesFor(confirmed, v)' = VotesFor(confirmed, v)
  BY DEF VotesFor, next_block_height
<1>2. VotesNotAhead'
  BY DEF SafetyInv, VotesNotAhead, next_block_height
<1>3. ProposedNotBelowVotes' /\ LockedNotBelowVotes'
  BY <1>1 DEF SafetyInv, ProposedNotBelowVotes, LockedNotBelowVotes
<1>4. CurrentRoundNotBelowProposed'
  <2> SUFFICES ASSUME NEW v \in Honest, NEW q \in manager[v].proposed
               PROVE  q.round <= manager'[v].current_round
    BY DEF CurrentRoundNotBelowProposed
  <2>1. q.round \in Round /\ manager[v].current_round \in Round /\ manager'[v].current_round \in Round
    <3>1. manager[v] \in Manager /\ manager'[v] \in Manager
      BY DEF TypeOK, IsManager, Nodes
    <3> QED
      BY <3>1, ManagerRounds
  <2> QED
    BY <2>1 DEF SafetyInv, CurrentRoundNotBelowProposed, Round
<1>5. OneValidatedPerRound'
  BY DEF SafetyInv, OneValidatedPerRound
<1>6. ConfirmedWasValidated' /\ LockedBlockRule'
  BY DEF SafetyInv, ConfirmedWasValidated, LockedBlockRule, ValidatedCert, Certs, HasQuorum
<1> QED
  BY <1>2, <1>3, <1>4, <1>5, <1>6 DEF SafetyInv

\* A confirmed block raises the tip to a height no vote has been cast for.
LEMMA SafetyConfirmed ==
    ASSUME TypeOK, SafetyInv, NEW n \in Nodes, NEW c \in Certs(confirmed),
           process_confirmed_block(n, c)
    PROVE  SafetyInv'
<1>1. c \in Certificate /\ chain[n] \in Seq(Payload \X OutcomeSet)
  BY CertTypes DEF TypeOK, CryptoHash
<1>2. /\ chain' = [chain EXCEPT ![n] = Append(chain[n], <<c.value.block.payload, c.value.outcome>>)]
      /\ manager' = [manager EXCEPT ![n] = ChainManager_new]
      /\ UNCHANGED <<validated, confirmed>>
  BY DEF process_confirmed_block, hash
<1>3. <<c.value.block.payload, c.value.outcome>> \in Payload \X OutcomeSet
  BY <1>1 DEF Certificate, ExecutedBlock, Block
<1>4. /\ Len(chain'[n]) = Len(chain[n]) + 1 /\ Len(chain[n]) \in Nat
      /\ \A m \in Nodes \ {n} : chain'[m] = chain[m] /\ manager'[m] = manager[m]
      /\ manager'[n] = ChainManager_new
  BY <1>1, <1>2, <1>3 DEF TypeOK
<1>5. \A m \in Nodes : Len(chain[m]) \in Nat
  BY DEF TypeOK, CryptoHash
<1>6. \A x \in validated \cup confirmed : x.validator \in Nodes /\ height(x.value.block) \in Nat
  BY DEF TypeOK, BlockVote, ExecutedBlock, Block, CryptoHash, height, Nodes
<1>7. \A x \in validated \cup confirmed :
         /\ height(x.value.block) <= Len(chain[x.validator])
         /\ height(x.value.block) <= Len(chain'[x.validator])
         /\ x.validator = n => height(x.value.block) # Len(chain'[n])
  BY <1>4, <1>5, <1>6 DEF SafetyInv, VotesNotAhead, next_block_height
<1>8. VotesNotAhead'
  BY <1>2, <1>7 DEF VotesNotAhead, next_block_height
<1>9. \A v \in Honest \ {n} : /\ VotesFor(validated, v)' = VotesFor(validated, v)
                              /\ VotesFor(confirmed, v)' = VotesFor(confirmed, v)
                              /\ manager'[v] = manager[v]
  BY <1>2, <1>4 DEF VotesFor, next_block_height, Nodes
<1>10. VotesFor(validated, n)' = {} /\ VotesFor(confirmed, n)' = {}
  BY <1>2, <1>7 DEF VotesFor, next_block_height
<1>11. ProposedNotBelowVotes' /\ LockedNotBelowVotes'
  BY <1>9, <1>10 DEF SafetyInv, ProposedNotBelowVotes, LockedNotBelowVotes
<1>12. CurrentRoundNotBelowProposed'
  BY <1>4, <1>9 DEF SafetyInv, CurrentRoundNotBelowProposed, ChainManager_new
<1>13. OneValidatedPerRound'
  BY <1>2 DEF SafetyInv, OneValidatedPerRound
<1>14. ConfirmedWasValidated' /\ LockedBlockRule'
  BY <1>2 DEF SafetyInv, ConfirmedWasValidated, LockedBlockRule, ValidatedCert, Certs, HasQuorum
<1> QED
  BY <1>8, <1>11, <1>12, <1>13, <1>14 DEF SafetyInv

\* A vote to confirm is for a round not below that of any vote to validate, and
\* is remembered in the lock.
LEMMA SafetyValidated ==
    ASSUME TypeOK, TypeOK', SafetyInv, NEW n \in Nodes, NEW c \in Certs(validated),
           process_validated_block(n, c)
    PROVE  SafetyInv'
<1> DEFINE m == manager[n]
           u == create_final_vote(m, c, has_key(n))
           y == [validator |-> n, value |-> c.value, round |-> c.round]
<1>1. c \in Certificate /\ c.round \in Round /\ m \in Manager /\ has_key(n) \in BOOLEAN
  BY CertTypes DEF TypeOK, Certificate, IsManager, has_key
<1>2. /\ u \in Manager /\ u.proposed = m.proposed /\ m.current_round <= u.current_round
      /\ has_key(n) /\ c.round < m.current_round => u.locked = m.locked
      /\ ~(has_key(n) /\ c.round < m.current_round) => u.locked = {c}
  BY <1>1, CreateFinalVote
<1>3. manager' = [manager EXCEPT ![n] = u] /\ UNCHANGED <<chain, validated>>
  BY DEF process_validated_block, TypeOK
<1> HIDE DEF u
<1>4. \A k \in Nodes : manager'[k] = IF k = n THEN u ELSE manager[k]
  BY <1>3 DEF TypeOK
<1>5. \A k \in Nodes : manager[k] \in Manager /\ manager[k].current_round <= manager[k].current_round
  BY ManagerRounds DEF TypeOK, IsManager, Round
<1>6. CASE ~ (n \in Honest /\ m.current_round <= c.round)
  <2>1. confirmed' = confirmed
    BY <1>1, <1>6, ManagerRounds DEF process_validated_block, Cast, has_key, Round
  <2>2. \A v \in Honest : /\ manager'[v].proposed = manager[v].proposed
                          /\ manager'[v].locked = manager[v].locked
                          /\ manager[v].current_round <= manager'[v].current_round
    BY <1>1, <1>2, <1>4, <1>5, <1>6, ManagerRounds DEF has_key, Round, Nodes
  <2> QED
    BY <1>3, <2>1, <2>2, SafetyFrame
<1>7. CASE n \in Honest /\ m.current_round <= c.round
  <2>1. /\ confirmed' = confirmed \cup {y}
        /\ u.locked = {c}
        /\ height(c.value.block) = Len(chain[n]) /\ ValidatedCert(c)
        /\ \A l \in m.locked : c.round > l.round
    BY <1>1, <1>2, <1>7, ManagerRounds
    DEF process_validated_block, Cast, has_key, Round, check_validated_block, next_block_height
  <2>2. \A v \in Honest : /\ VotesFor(validated, v)' = VotesFor(validated, v)
                          /\ manager'[v].proposed = manager[v].proposed
                          /\ manager[v].current_round <= manager'[v].current_round
    BY <1>2, <1>3, <1>4, <1>5 DEF VotesFor, next_block_height, Nodes
  <2>3. VotesNotAhead'
    <3>1. Len(chain[n]) \in Nat
      BY DEF TypeOK, CryptoHash
    <3> QED
      BY <1>3, <2>1, <3>1 DEF SafetyInv, VotesNotAhead, next_block_height
  <2>4. ProposedNotBelowVotes'
    BY <2>2 DEF SafetyInv, ProposedNotBelowVotes
  <2>5. CurrentRoundNotBelowProposed'
    <3> SUFFICES ASSUME NEW v \in Honest, NEW q \in manager[v].proposed
                 PROVE  q.round <= manager'[v].current_round
      BY <2>2 DEF CurrentRoundNotBelowProposed
    <3>1. v \in Nodes /\ manager'[v] \in Manager
      BY <1>2, <1>4, <1>5 DEF Nodes
    <3>2. q.round \in Round /\ manager[v].current_round \in Round /\ manager'[v].current_round \in Round
      BY <1>5, <3>1, ManagerRounds
    <3> QED
      BY <2>2, <3>2 DEF SafetyInv, CurrentRoundNotBelowProposed, Round
  <2>6. OneValidatedPerRound'
    BY <1>3 DEF SafetyInv, OneValidatedPerRound
  <2>7. LockedNotBelowVotes'
    <3> SUFFICES ASSUME NEW v \in Honest, NEW z \in VotesFor(confirmed, v)', ~is_fast(z.round)
                 PROVE  \E l \in manager'[v].locked : z.round <= l.round
      BY DEF LockedNotBelowVotes
    <3>1. CASE z = y
      <4>1. v = n
        BY <3>1 DEF VotesFor
      <4> QED
        BY <1>1, <1>4, <2>1, <3>1, <4>1 DEF Round
    <3>2. CASE z # y
      <4>1. z \in VotesFor(confirmed, v)
        BY <1>3, <2>1, <3>2 DEF VotesFor, next_block_height
      <4>2. PICK l \in manager[v].locked : z.round <= l.round
        BY <4>1 DEF SafetyInv, LockedNotBelowVotes
      <4>3. CASE v # n
        BY <1>4, <4>2, <4>3 DEF Nodes
      <4>4. CASE v = n
        <5>1. l.round \in Round /\ z.round \in Round
          BY <1>1, <4>1, <4>2, <4>4, ManagerRounds DEF VotesFor, TypeOK, BlockVote
        <5> QED
          BY <1>1, <1>4, <2>1, <4>2, <4>4, <5>1 DEF Round
      <4> QED
        BY <4>3, <4>4
    <3> QED
      BY <3>1, <3>2
  <2>8. \A d : ValidatedCert(d)' <=> ValidatedCert(d)
    BY <1>3 DEF ValidatedCert, HasQuorum
  <2>9. ConfirmedWasValidated'
    <3>1. c = [value |-> c.value, round |-> c.round]
      BY <1>1 DEF Certificate
    <3> QED
      BY <2>1, <2>8, <3>1 DEF SafetyInv, ConfirmedWasValidated
  <2>10. ASSUME NEW x \in validated, x.validator = n, height(x.value.block) = Len(chain[n])
         PROVE  x.round <= c.round
    <3>1. PICK q \in m.proposed : x.round <= q.round
      BY <1>7, <2>10 DEF SafetyInv, ProposedNotBelowVotes, VotesFor, next_block_height
    <3>2. q.round <= m.current_round
      BY <1>7, <3>1 DEF SafetyInv, CurrentRoundNotBelowProposed
    <3>3. q.round \in Round /\ m.current_round \in Round /\ x.round \in Round
      BY <1>1, <3>1, ManagerRounds DEF TypeOK, BlockVote
    <3> QED
      BY <1>1, <1>7, <3>1, <3>2, <3>3 DEF Round
  <2>11. LockedBlockRule'
    <3> SUFFICES ASSUME NEW x \in validated, NEW z \in confirmed \cup {y},
                        x.validator = z.validator, SameHeight(x.value, z.value),
                        x.value # z.value, z.round < x.round, ~is_fast(z.round)
                 PROVE  \E d \in Certs(validated) :
                           /\ ValidatedCert(d) /\ d.value = x.value
                           /\ z.round <= d.round /\ d.round < x.round
      BY <1>3, <2>1, <2>8 DEF LockedBlockRule, Certs
    <3>1. CASE z \in confirmed
      BY <3>1 DEF SafetyInv, LockedBlockRule
    <3>2. CASE z = y
      <4>1. x.round <= c.round
        BY <2>1, <2>10, <3>2 DEF SameHeight
      <4>2. x.round \in Round
        BY DEF TypeOK, BlockVote
      <4> QED
        BY <1>1, <3>2, <4>1, <4>2 DEF Round
    <3> QED
      BY <3>1, <3>2
  <2> QED
    BY <2>3, <2>4, <2>5, <2>6, <2>7, <2>9, <2>11 DEF SafetyInv
<1> QED
  BY <1>6, <1>7

\* A vote to validate is for a round above all earlier proposals, and respects
\* the lock.
LEMMA SafetyProposal ==
    ASSUME TypeOK, TypeOK', SafetyInv, NEW n \in Nodes, NEW p \in BlockProposal,
           AtMostOne(p.cert), handle_block_proposal(n, p)
    PROVE  SafetyInv'
<1> DEFINE m == manager[n]
<1>1. PICK value \in ExecutedBlock, u \in Manager :
         /\ value.block = p.block
         /\ \A c \in p.cert : value = c.value
         /\ u = create_vote(m, p, value, has_key(n))
         /\ manager' = [manager EXCEPT ![n] = u]
         /\ validated' = IF is_fast(p.round) THEN validated
                         ELSE Cast(n, validated, value, p.round)
         /\ confirmed' = IF is_fast(p.round) THEN Cast(n, confirmed, value, p.round)
                         ELSE confirmed
  BY ProposalStep
<1> DEFINE x0 == [validator |-> n, value |-> value, round |-> p.round]
<1>2. m \in Manager /\ has_key(n) \in BOOLEAN /\ p.round \in Round /\ p.cert \subseteq Certificate
  BY DEF TypeOK, IsManager, has_key, BlockProposal
<1>3. /\ \E q \in ProposalContent : u.proposed = {q} /\ q.round = p.round
      /\ p.round <= u.current_round
      /\ m.current_round <= u.current_round
      /\ u.locked = m.locked
           \/ /\ u.locked # {} /\ u.locked \subseteq p.cert
              /\ \A c \in u.locked, l \in m.locked : l.round < c.round
  BY <1>1, <1>2, CreateVote
<1>4. /\ \A c \in p.cert : c.round < p.round /\ ValidatedCert(c)
      /\ \A q \in m.proposed : q.round < p.round
      /\ \A l \in m.locked : \E c \in p.cert : l.round <= c.round
  BY <1>2, AcceptedProposal DEF handle_block_proposal
<1>5. chain' = chain /\ p.block.previous_block_hash = chain[n] /\ height(p.block) = Len(chain[n])
  BY DEF handle_block_proposal, height
<1>6. \A k \in Nodes : manager'[k] = IF k = n THEN u ELSE manager[k]
  BY <1>1 DEF TypeOK
<1>7. \A k \in Nodes : manager[k] \in Manager /\ manager[k].current_round <= manager[k].current_round
  BY ManagerRounds DEF TypeOK, IsManager, Round
<1>8. CASE n \notin Honest
  <2>1. validated' = validated /\ confirmed' = confirmed
    BY <1>1, <1>8 DEF Cast, has_key
  <2>2. \A v \in Honest : /\ manager'[v].proposed = manager[v].proposed
                          /\ manager'[v].locked = manager[v].locked
                          /\ manager[v].current_round <= manager'[v].current_round
    BY <1>6, <1>7, <1>8 DEF Nodes
  <2> QED
    BY <1>5, <2>1, <2>2, SafetyFrame
<1>9. CASE n \in Honest
  <2>1. /\ validated' = IF is_fast(p.round) THEN validated ELSE validated \cup {x0}
        /\ confirmed' = IF is_fast(p.round) THEN confirmed \cup {x0} ELSE confirmed
    BY <1>1, <1>9 DEF Cast, has_key
  <2>2. height(x0.value.block) = Len(chain[n]) /\ Len(chain[n]) \in Nat
    BY <1>1, <1>5 DEF TypeOK, CryptoHash
  <2>3. \A x \in validated \cup confirmed : x.round \in Round
    BY DEF TypeOK, BlockVote
  <2>4. ASSUME NEW x \in validated, x.validator = n, height(x.value.block) = Len(chain[n])
        PROVE  x.round < p.round
    <3>1. PICK q \in m.proposed : x.round <= q.round
      BY <1>9, <2>4 DEF SafetyInv, ProposedNotBelowVotes, VotesFor, next_block_height
    <3>2. q.round \in Round /\ q.round < p.round
      BY <1>2, <1>4, <3>1, ManagerRounds
    <3> QED
      BY <1>2, <2>3, <3>1, <3>2 DEF Round
  <2>5. ASSUME NEW d, ValidatedCert(d) PROVE ValidatedCert(d)'
    BY <2>1, <2>5, CertMonotone
  <2>6. VotesNotAhead'
    BY <1>5, <2>1, <2>2 DEF SafetyInv, VotesNotAhead, next_block_height
  <2>7. ProposedNotBelowVotes'
    <3> SUFFICES ASSUME NEW v \in Honest, NEW x \in VotesFor(validated, v)'
                 PROVE  \E q \in manager'[v].proposed : x.round <= q.round
      BY DEF ProposedNotBelowVotes
    <3>1. CASE v # n
      <4>1. x \in VotesFor(validated, v)
        BY <1>5, <2>1, <3>1 DEF VotesFor, next_block_height
      <4> QED
        BY <1>6, <3>1, <4>1 DEF SafetyInv, ProposedNotBelowVotes, Nodes
    <3>2. CASE v = n
      <4>1. x.validator = n /\ height(x.value.block) = Len(chain[n]) /\ x \in validated \cup {x0}
        BY <1>5, <2>1, <3>2 DEF VotesFor, next_block_height
      <4>2. x.round <= p.round
        BY <1>2, <2>3, <2>4, <4>1 DEF Round
      <4> QED
        BY <1>3, <1>6, <3>2, <4>2 DEF Nodes
    <3> QED
      BY <3>1, <3>2
  <2>8. CurrentRoundNotBelowProposed'
    BY <1>3, <1>6 DEF SafetyInv, CurrentRoundNotBelowProposed, Nodes
  <2>9. OneValidatedPerRound'
    <3> SUFFICES ASSUME NEW x \in validated \cup {x0}, NEW y \in validated \cup {x0},
                        x.validator = y.validator, x.round = y.round, SameHeight(x.value, y.value)
                 PROVE  x.value = y.value
      BY <2>1 DEF OneValidatedPerRound
    <3>1. ASSUME NEW z \in validated, z.validator = n, z.round = p.round,
                 height(z.value.block) = Len(chain[n])
          PROVE  FALSE
      BY <1>2, <2>3, <2>4, <3>1 DEF Round
    <3> QED
      BY <2>2, <3>1 DEF SafetyInv, OneValidatedPerRound, SameHeight
  <2>10. LockedNotBelowVotes'
    <3> SUFFICES ASSUME NEW v \in Honest, NEW y \in VotesFor(confirmed, v)', ~is_fast(y.round)
                 PROVE  \E l \in manager'[v].locked : y.round <= l.round
      BY DEF LockedNotBelowVotes
    <3>1. y \in VotesFor(confirmed, v)
      BY <1>5, <2>1 DEF VotesFor, next_block_height
    <3>2. PICK l \in manager[v].locked : y.round <= l.round
      BY <3>1 DEF SafetyInv, LockedNotBelowVotes
    <3>3. y.round \in Round /\ l.round \in Round
      BY <1>7, <2>3, <3>1, <3>2, ManagerRounds DEF VotesFor, Nodes
    <3>4. CASE v # n
      BY <1>6, <3>2, <3>4 DEF Nodes
    <3>5. CASE v = n
      <4>1. CASE u.locked = m.locked
        BY <1>6, <3>2, <3>5, <4>1 DEF Nodes
      <4>2. ASSUME NEW c \in u.locked, c \in p.cert, l.round < c.round
            PROVE  y.round <= c.round
        BY <1>2, <3>2, <3>3, <4>2 DEF Certificate, Round
      <4> QED
        BY <1>3, <1>6, <3>2, <3>5, <4>1, <4>2 DEF Nodes
    <3> QED
      BY <3>4, <3>5
  <2>11. ConfirmedWasValidated'
    BY <2>1, <2>5 DEF SafetyInv, ConfirmedWasValidated
  <2>12. LockedBlockRule'
    <3> SUFFICES ASSUME NEW x \in validated', NEW y \in confirmed',
                        x.validator = y.validator, SameHeight(x.value, y.value),
                        x.value # y.value, y.round < x.round, ~is_fast(y.round)
                 PROVE  \E d \in Certs(validated) :
                           /\ ValidatedCert(d) /\ d.value = x.value
                           /\ y.round <= d.round /\ d.round < x.round
      BY <2>1, <2>5 DEF LockedBlockRule, Certs
    <3>1. y \in confirmed
      BY <2>1
    <3>2. CASE x \in validated
      BY <3>1, <3>2 DEF SafetyInv, LockedBlockRule
    <3>3. CASE x \notin validated
      <4>1. x = x0
        BY <2>1, <3>3
      <4>2. y \in VotesFor(confirmed, n)
        BY <2>2, <3>1, <4>1 DEF VotesFor, SameHeight, next_block_height
      <4>3. PICK l \in m.locked : y.round <= l.round
        BY <1>9, <4>2 DEF SafetyInv, LockedNotBelowVotes
      <4>4. PICK c \in p.cert : l.round <= c.round
        BY <1>4, <4>3
      <4>5. c \in Certificate /\ ValidatedCert(c) /\ c.round < p.round /\ c.value = value
        BY <1>1, <1>2, <1>4, <4>4
      <4>6. c \in Certs(validated)
        BY <4>5, CertSigner
      <4>7. y.round <= c.round
        BY <1>2, <2>3, <3>1, <4>3, <4>4, <4>5, ManagerRounds DEF Certificate, Round
      <4> QED
        BY <4>1, <4>5, <4>6, <4>7
    <3> QED
      BY <3>2, <3>3
  <2> QED
    BY <2>6, <2>7, <2>8, <2>9, <2>10, <2>11, <2>12 DEF SafetyInv
<1> QED
  BY <1>8, <1>9

LEMMA SafetyInit == Init => SafetyInv
BY DEF Init, SafetyInv, VotesNotAhead, ProposedNotBelowVotes, CurrentRoundNotBelowProposed,
       OneValidatedPerRound, LockedNotBelowVotes, ConfirmedWasValidated, LockedBlockRule,
       VotesFor, ChainManager_new, Nodes

\* Steps of one node that only raise its current round.
LEMMA SafetyOther ==
    ASSUME TypeOK, TypeOK', SafetyInv, NEW n \in Nodes, NEW u \in Manager,
           UNCHANGED <<chain, validated, confirmed>>,
           manager' = [manager EXCEPT ![n] = u],
           u.proposed = manager[n].proposed, u.locked = manager[n].locked,
           manager[n].current_round <= u.current_round
    PROVE  SafetyInv'
<1>1. \A v \in Nodes : manager[v].current_round <= manager[v].current_round
  BY ManagerRounds DEF TypeOK, IsManager, Round
<1>2. \A v \in Honest : /\ manager'[v].proposed = manager[v].proposed
                        /\ manager'[v].locked = manager[v].locked
                        /\ manager[v].current_round <= manager'[v].current_round
  BY <1>1 DEF TypeOK, Nodes
<1> QED
  BY <1>2, SafetyFrame

LEMMA SafetyStep == TypeOK /\ SafetyInv /\ [Next]_vars => SafetyInv'
<1> SUFFICES ASSUME TypeOK, SafetyInv, [Next]_vars PROVE SafetyInv'
  OBVIOUS
<1>0. TypeOK'
  BY TypeStep
<1>1. CASE UNCHANGED vars
  <2>1. ASSUME NEW v \in Honest PROVE manager[v].current_round <= manager[v].current_round
    <3>1. manager[v] \in Manager
      BY DEF TypeOK, IsManager, Nodes
    <3> QED
      BY <3>1, ManagerRounds DEF Round
  <2> QED
    BY <1>0, <1>1, <2>1, SafetyFrame DEF vars
<1>2. ASSUME NEW n \in Nodes, NEW payload \in Payload, NEW r \in Explored, NEW o \in AllOwners,
             handle_block_proposal(n, new_initial(r, [previous_block_hash |-> chain[n],
                                                      payload |-> payload], o))
      PROVE  SafetyInv'
  BY <1>0, <1>2, ProposalTypes, SafetyProposal, Zenon
<1>3. ASSUME NEW n \in Nodes, NEW c \in Certs(validated), NEW r \in Explored, NEW o \in AllOwners,
             handle_block_proposal(n, new_retry(r, c, o))
      PROVE  SafetyInv'
  BY <1>0, <1>3, ProposalTypes, SafetyProposal, Zenon
<1>4. ASSUME NEW n \in Nodes, NEW c \in Certs(validated), process_validated_block(n, c)
      PROVE  SafetyInv'
  BY <1>0, <1>4, SafetyValidated
<1>5. ASSUME NEW n \in Nodes, NEW c \in Certs(confirmed), process_confirmed_block(n, c)
      PROVE  SafetyInv'
  BY <1>5, SafetyConfirmed
<1>6. ASSUME NEW n \in Nodes, NEW t \in timeouts, process_timeout(n, t.round)
      PROVE  SafetyInv'
  <2> DEFINE u == handle_timeout_certificate(manager[n], t.round)
  <2>1. t.round \in Round /\ manager[n] \in Manager
    BY DEF TypeOK, TimeoutVote, IsManager
  <2>2. /\ u \in Manager /\ u.proposed = manager[n].proposed /\ u.locked = manager[n].locked
        /\ manager[n].current_round <= u.current_round
    BY <2>1, HandleTimeoutCertificate
  <2>3. manager' = [manager EXCEPT ![n] = u] /\ UNCHANGED <<chain, validated, confirmed>>
    BY <1>6 DEF process_timeout, TypeOK
  <2> HIDE DEF u
  <2> QED
    BY <1>0, <2>2, <2>3, SafetyOther
<1>7. ASSUME NEW n \in Nodes, vote_for_leader_timeout(n) \/ vote_for_fallback(n)
      PROVE  SafetyInv'
  <2>1. PICK u : /\ u = vote_timeout(manager[n]) \/ u = vote_fallback(manager[n])
                 /\ manager' = [manager EXCEPT ![n] = u]
                 /\ UNCHANGED <<chain, validated, confirmed>>
    BY <1>7 DEF vote_for_leader_timeout, vote_for_fallback, TypeOK
  <2>2. manager[n] \in Manager /\ manager[n].current_round \in Round
    BY ManagerRounds DEF TypeOK, IsManager
  <2>3. u \in Manager
    BY <1>0, <2>1 DEF TypeOK, IsManager
  <2>4. /\ u.proposed = manager[n].proposed /\ u.locked = manager[n].locked
        /\ u.current_round = manager[n].current_round
    BY <2>1, <2>2 DEF vote_timeout, vote_fallback, Manager
  <2>5. manager[n].current_round <= u.current_round
    BY <2>2, <2>4 DEF Round
  <2> QED
    BY <1>0, <2>1, <2>3, <2>4, <2>5, SafetyOther
<1> QED
  BY <1>1, <1>2, <1>3, <1>4, <1>5, <1>6, <1>7 DEF Next

-----------------------------------------------------------------------------
(***************************************************************************)
(* What the invariant implies.                                             *)
(***************************************************************************)

\* Two certificates have a common honest signer.
LEMMA CommonSigner ==
    ASSUME NEW S, NEW T, HasQuorum(S), HasQuorum(T)
    PROVE  \E v \in Honest : v \in S /\ v \in T
BY CommitteeAssumption DEF HasQuorum

\* Two blocks validated at the same height and in the same round are equal.
LEMMA SameRound ==
    ASSUME TypeOK, SafetyInv, NEW c \in Certificate, NEW d \in Certificate,
           ValidatedCert(c), ValidatedCert(d), c.round = d.round, SameHeight(c.value, d.value)
    PROVE  c.value = d.value
<1>1. PICK v \in Honest :
         /\ [validator |-> v, value |-> c.value, round |-> c.round] \in validated
         /\ [validator |-> v, value |-> d.value, round |-> d.round] \in validated
  BY CommonSigner DEF ValidatedCert
<1> QED
  BY <1>1 DEF SafetyInv, OneValidatedPerRound

\* The certificate of the lowest round that contradicts ConfirmedIsFinal leads to
\* one of a lower round, by the lock of a validator that signed both.
LEMMA FinalLemma == TypeOK /\ SafetyInv => ConfirmedIsFinal
<1> SUFFICES ASSUME TypeOK, SafetyInv, NEW c \in Certs(confirmed), ConfirmedCert(c),
                    ~is_fast(c.round)
             PROVE  \A d \in Certs(validated) :
                       ValidatedCert(d) /\ SameHeight(c.value, d.value) /\ c.round <= d.round
                          => c.value = d.value
  BY DEF ConfirmedIsFinal
<1>1. c \in Certificate /\ c.round \in Round
  BY CertTypes DEF TypeOK, Certificate
<1>2. c = [value |-> c.value, round |-> c.round]
  BY <1>1 DEF Certificate
<1>3. ValidatedCert(c)
  <2>1. PICK v \in Honest : [validator |-> v, value |-> c.value, round |-> c.round] \in confirmed
    BY <1>1, CertSigner
  <2> QED
    BY <1>2, <2>1 DEF SafetyInv, ConfirmedWasValidated
<1> DEFINE Bad(d) == /\ d \in Certificate /\ ValidatedCert(d) /\ SameHeight(c.value, d.value)
                     /\ c.round <= d.round /\ c.value # d.value
           B == {r \in Round : \E d \in Certificate : Bad(d) /\ d.round = r}
<1>4. ASSUME B # {} PROVE FALSE
  <2>1. B \subseteq Nat
    BY OwnershipAssumption DEF Round, Fast, Validator
  <2>2. PICK r \in B : \A s \in B : r <= s
    BY <1>4, <2>1, LeastElement
  <2>3. PICK d \in Certificate : Bad(d) /\ d.round = r
    BY <2>2
  <2>4. d.round \in Round
    BY <2>3 DEF Certificate
  <2>5. PICK v \in Honest :
           /\ [validator |-> v, value |-> c.value, round |-> c.round] \in confirmed
           /\ [validator |-> v, value |-> d.value, round |-> d.round] \in validated
    BY <2>3, CommonSigner DEF ConfirmedCert, ValidatedCert
  <2>6. CASE c.round = d.round
    BY <1>1, <1>3, <2>3, <2>6, SameRound
  <2>7. CASE c.round < d.round
    <3>1. PICK e \in Certs(validated) : /\ ValidatedCert(e) /\ e.value = d.value
                                        /\ c.round <= e.round /\ e.round < d.round
      BY <2>3, <2>5, <2>7 DEF SafetyInv, LockedBlockRule, SameHeight
    <3>2. e \in Certificate /\ e.round \in Round
      BY CertTypes DEF TypeOK, Certificate
    <3>3. e.round \in B
      BY <2>3, <3>1, <3>2
    <3>4. r <= e.round
      BY <2>2, <3>3
    <3> QED
      BY <2>3, <2>4, <3>1, <3>2, <3>4 DEF Round
  <2> QED
    BY <1>1, <2>3, <2>4, <2>6, <2>7 DEF Round
<1>5. ASSUME NEW d \in Certs(validated), ValidatedCert(d), SameHeight(c.value, d.value),
             c.round <= d.round
      PROVE  c.value = d.value
  <2>1. d \in Certificate /\ d.round \in Round
    BY CertTypes DEF TypeOK, Certificate
  <2> QED
    BY <1>4, <1>5, <2>1
<1> QED
  BY <1>5

LEMMA SlowLemma == TypeOK /\ SafetyInv => SlowAgreement
<1> SUFFICES ASSUME TypeOK, SafetyInv, NEW c \in Certs(confirmed), NEW d \in Certs(confirmed),
                    ConfirmedCert(c), ~is_fast(c.round), ConfirmedCert(d), ~is_fast(d.round),
                    SameHeight(c.value, d.value)
             PROVE  c.value = d.value
  BY DEF SlowAgreement
<1>1. c \in Certificate /\ d \in Certificate /\ c.round \in Round /\ d.round \in Round
  BY CertTypes DEF TypeOK, Certificate
<1>2. ASSUME NEW e \in Certificate, ConfirmedCert(e), ~is_fast(e.round)
      PROVE  ValidatedCert(e) /\ e \in Certs(validated)
  <2>1. e = [value |-> e.value, round |-> e.round]
    BY DEF Certificate
  <2>2. PICK v \in Honest : [validator |-> v, value |-> e.value, round |-> e.round] \in confirmed
    BY <1>2, CertSigner
  <2>3. ValidatedCert(e)
    BY <1>2, <2>1, <2>2 DEF SafetyInv, ConfirmedWasValidated
  <2> QED
    BY <2>3, CertSigner
<1>3. CASE c.round <= d.round
  BY <1>1, <1>2, <1>3, FinalLemma DEF ConfirmedIsFinal
<1>4. CASE d.round <= c.round
  BY <1>1, <1>2, <1>4, FinalLemma DEF ConfirmedIsFinal, SameHeight
<1> QED
  BY <1>1, <1>3, <1>4 DEF Round

LEMMA SafetyAlways == Spec => [](TypeOK /\ SafetyInv)
BY InitType, TypeStep, SafetyInit, SafetyStep, PTL DEF Spec

\* The proposal and the lock in a validator's manager bound the votes it has cast, and
\* it respects its lock.
THEOREM ManagersRememberVotes == Spec => []SafetyInv
BY SafetyAlways, PTL

\* Once a quorum has voted to confirm a block in a round with two votes, no other
\* block of its height is validated in that or a later round.
THEOREM Finality == Spec => []ConfirmedIsFinal
BY SafetyAlways, FinalLemma, PTL

\* No two certificates of the rounds with two votes confirm different blocks at
\* the same height, whatever the ownership of the chain.
THEOREM AgreementOfSlowRounds == Spec => []SlowAgreement
BY SafetyAlways, SlowLemma, PTL

-----------------------------------------------------------------------------
(***************************************************************************)
(* The answer to a repeated proposal.                                      *)
(***************************************************************************)

\* RepeatedProposalIsAnswered, of one manager.
IsAnswered(m) ==
    \A q \in m.proposed : \E x \in m.pending :
        \/ /\ x.value.block = q.block /\ x.round = q.round
           /\ x.kind = IF is_fast(q.round) THEN "confirmed" ELSE "validated"
        \/ /\ x.kind = "confirmed" /\ q.round <= x.round
           /\ [value |-> x.value, round |-> x.round] \in m.locked

\* Steps of one node n: it is enough to look at its manager.
LEMMA AnsweredOne ==
    ASSUME TypeOK, RepeatedProposalIsAnswered, NEW n \in Nodes, NEW u,
           manager' = [manager EXCEPT ![n] = u], n \in Honest => IsAnswered(u)
    PROVE  RepeatedProposalIsAnswered'
<1>1. \A v \in Nodes : manager'[v] = IF v = n THEN u ELSE manager[v]
  BY DEF TypeOK
<1>2. ASSUME NEW v \in Honest PROVE IsAnswered(manager'[v])
  <2>1. CASE v = n
    BY <1>1, <2>1
  <2>2. CASE v # n
    BY <1>1, <2>2, Zenon DEF Nodes, IsAnswered, RepeatedProposalIsAnswered
  <2> QED
    BY <2>1, <2>2
<1> QED
  BY <1>2, Zenon DEF IsAnswered, RepeatedProposalIsAnswered

\* A validator that accepts a proposal votes for it.
LEMMA AnsweredProposal ==
    ASSUME TypeOK, RepeatedProposalIsAnswered, NEW n \in Nodes, NEW p \in BlockProposal,
           AtMostOne(p.cert), handle_block_proposal(n, p)
    PROVE  RepeatedProposalIsAnswered'
<1>1. PICK value \in ExecutedBlock, u \in Manager :
         /\ value.block = p.block
         /\ u = create_vote(manager[n], p, value, has_key(n))
         /\ manager' = [manager EXCEPT ![n] = u]
  BY ProposalStep
<1>2. manager[n] \in Manager /\ has_key(n) \in BOOLEAN
  BY DEF TypeOK, IsManager, has_key
<1> DEFINE x == [kind |-> IF is_fast(p.round) THEN "confirmed" ELSE "validated",
                 value |-> value, round |-> p.round]
<1>3. /\ \E q \in ProposalContent : u.proposed = {q} /\ q.round = p.round /\ q.block = p.block
      /\ has_key(n) => u.pending = {x}
  BY <1>1, <1>2, CreateVote
<1>4. x.value.block = p.block /\ x.round = p.round
      /\ x.kind = IF is_fast(p.round) THEN "confirmed" ELSE "validated"
  BY <1>1
<1> HIDE DEF x
<1>5. n \in Honest => IsAnswered(u)
  BY <1>3, <1>4, Zenon DEF IsAnswered, has_key
<1> QED
  BY <1>1, <1>5, AnsweredOne

\* A vote to confirm replaces the pending one only in the current round or later,
\* and thus not before that of the proposal.
LEMMA AnsweredValidated ==
    ASSUME TypeOK, SafetyInv, RepeatedProposalIsAnswered, NEW n \in Nodes,
           NEW c \in Certs(validated), process_validated_block(n, c)
    PROVE  RepeatedProposalIsAnswered'
<1> DEFINE m == manager[n]
           u == create_final_vote(m, c, has_key(n))
           y == [kind |-> "confirmed", value |-> c.value, round |-> c.round]
<1>1. c \in Certificate /\ c.round \in Round /\ m \in Manager /\ has_key(n) \in BOOLEAN
  BY CertTypes DEF TypeOK, Certificate, IsManager, has_key
<1>2. manager' = [manager EXCEPT ![n] = u]
  BY DEF process_validated_block, TypeOK
<1>3. ASSUME n \in Honest PROVE IsAnswered(u)
  <2>1. IsAnswered(m)
    BY <1>3, Zenon DEF RepeatedProposalIsAnswered, IsAnswered
  <2>2. CASE c.round < m.current_round
    BY <1>3, <2>1, <2>2 DEF create_final_vote, has_key
  <2>3. CASE ~(c.round < m.current_round)
    <3>1. u.proposed = m.proposed /\ u.locked = {c} /\ u.pending = {y}
      BY <1>1, <1>3, <2>3, CreateFinalVote DEF has_key
    <3>2. ASSUME NEW q \in m.proposed PROVE q.round <= c.round
      <4>1. q.round <= m.current_round
        BY <1>3 DEF SafetyInv, CurrentRoundNotBelowProposed
      <4> QED
        BY <1>1, <2>3, <4>1, ManagerRounds DEF Round
    <3>3. [value |-> y.value, round |-> y.round] = c
      BY <1>1 DEF Certificate
    <3> HIDE DEF u
    <3> QED
      BY <3>1, <3>2, <3>3 DEF IsAnswered
  <2> QED
    BY <2>2, <2>3
<1> HIDE DEF u
<1> QED
  BY <1>2, <1>3, AnsweredOne

LEMMA AnsweredStep ==
    TypeOK /\ SafetyInv /\ RepeatedProposalIsAnswered /\ [Next]_vars => RepeatedProposalIsAnswered'
<1> SUFFICES ASSUME TypeOK, SafetyInv, RepeatedProposalIsAnswered, [Next]_vars
             PROVE  RepeatedProposalIsAnswered'
  OBVIOUS
<1>1. CASE UNCHANGED vars
  BY <1>1 DEF vars, RepeatedProposalIsAnswered
<1>2. ASSUME NEW n \in Nodes, NEW payload \in Payload, NEW r \in Explored, NEW o \in AllOwners,
             handle_block_proposal(n, new_initial(r, [previous_block_hash |-> chain[n],
                                                      payload |-> payload], o))
      PROVE  RepeatedProposalIsAnswered'
  BY <1>2, ProposalTypes, AnsweredProposal, Zenon
<1>3. ASSUME NEW n \in Nodes, NEW c \in Certs(validated), NEW r \in Explored, NEW o \in AllOwners,
             handle_block_proposal(n, new_retry(r, c, o))
      PROVE  RepeatedProposalIsAnswered'
  BY <1>3, ProposalTypes, AnsweredProposal, Zenon
<1>4. ASSUME NEW n \in Nodes, NEW c \in Certs(validated), process_validated_block(n, c)
      PROVE  RepeatedProposalIsAnswered'
  BY <1>4, AnsweredValidated
<1>5. ASSUME NEW n \in Nodes, NEW c \in Certs(confirmed), process_confirmed_block(n, c)
      PROVE  RepeatedProposalIsAnswered'
  <2>1. IsAnswered(ChainManager_new)
    BY DEF IsAnswered, ChainManager_new
  <2> QED
    BY <1>5, <2>1, AnsweredOne DEF process_confirmed_block
<1>6. ASSUME NEW n \in Nodes, NEW u, manager' = [manager EXCEPT ![n] = u],
             u.proposed = manager[n].proposed, u.locked = manager[n].locked,
             u.pending = manager[n].pending
      PROVE  RepeatedProposalIsAnswered'
  <2>1. n \in Honest => IsAnswered(u)
    BY <1>6, Zenon DEF RepeatedProposalIsAnswered, IsAnswered
  <2> QED
    BY <1>6, <2>1, AnsweredOne
<1>7. ASSUME NEW n \in Nodes, NEW t \in timeouts, process_timeout(n, t.round)
      PROVE  RepeatedProposalIsAnswered'
  <2>1. t.round \in Round /\ manager[n] \in Manager
    BY DEF TypeOK, TimeoutVote, IsManager
  <2>2. manager' = [manager EXCEPT ![n] = handle_timeout_certificate(manager[n], t.round)]
    BY <1>7 DEF process_timeout, TypeOK
  <2> QED
    BY <1>6, <2>1, <2>2, HandleTimeoutCertificate
<1>8. ASSUME NEW n \in Nodes, vote_for_leader_timeout(n) \/ vote_for_fallback(n)
      PROVE  RepeatedProposalIsAnswered'
  <2>1. PICK u : /\ u = vote_timeout(manager[n]) \/ u = vote_fallback(manager[n])
                 /\ manager' = [manager EXCEPT ![n] = u]
    BY <1>8 DEF vote_for_leader_timeout, vote_for_fallback, TypeOK
  <2>2. manager[n] \in Manager
    BY DEF TypeOK, IsManager
  <2>3. /\ u.proposed = manager[n].proposed /\ u.locked = manager[n].locked
        /\ u.pending = manager[n].pending
    BY <2>1, <2>2 DEF vote_timeout, vote_fallback, Manager
  <2> QED
    BY <1>6, <2>1, <2>3
<1> QED
  BY <1>1, <1>2, <1>3, <1>4, <1>5, <1>7, <1>8 DEF Next

LEMMA AnsweredInit == Init => RepeatedProposalIsAnswered
BY DEF Init, RepeatedProposalIsAnswered, ChainManager_new, Nodes

\* A validator that has accepted a proposal always has a vote to answer it with when
\* it is sent again: the vote for it, or one that confirms what is locked since.
THEOREM RepeatedProposals == Spec => []RepeatedProposalIsAnswered
BY SafetyAlways, AnsweredInit, AnsweredStep, PTL DEF Spec

-----------------------------------------------------------------------------
(***************************************************************************)
(* Chains without super owners, and the chains of the nodes.               *)
(***************************************************************************)

LEMMA NoFastStep == TypeOK /\ NoFastRound /\ [Next]_vars => NoFastRound'
<1> SUFFICES ASSUME TypeOK, NoFastRound, [Next]_vars, SuperOwners = {} PROVE NoFastRound'
  BY DEF NoFastRound
<1>0. \A n \in Nodes : manager[n] \in Manager /\ manager[n].current_round \in Round
                       /\ manager[n].current_round # Fast
  BY ManagerRounds DEF TypeOK, IsManager, NoFastRound, is_fast
<1>1. CASE UNCHANGED vars
  BY <1>1 DEF vars, NoFastRound
<1>2. ASSUME NEW n \in Nodes, NEW p \in BlockProposal, AtMostOne(p.cert),
             handle_block_proposal(n, p)
      PROVE  NoFastRound'
  <2>1. PICK value \in ExecutedBlock, u \in Manager :
           /\ u = create_vote(manager[n], p, value, has_key(n))
           /\ manager' = [manager EXCEPT ![n] = u]
           /\ validated' = IF is_fast(p.round) THEN validated
                           ELSE Cast(n, validated, value, p.round)
           /\ confirmed' = IF is_fast(p.round) THEN Cast(n, confirmed, value, p.round)
                           ELSE confirmed
    BY <1>2, ProposalStep
  <2>2. manager[n].current_round <= p.round /\ p.round \in Round
    BY <1>0, <1>2, AcceptedProposal DEF handle_block_proposal, BlockProposal
  <2>3. p.round # Fast
    BY <1>0, <2>2 DEF Round, Fast
  <2>4. has_key(n) \in BOOLEAN
    BY DEF has_key
  <2>5. manager[n].current_round <= u.current_round /\ u.current_round \in Round
    BY <1>0, <2>1, <2>4, CreateVote, ManagerRounds
  <2>6. u.current_round # Fast
    BY <1>0, <2>5 DEF Round, Fast
  <2>7. \A k \in Nodes : manager'[k].current_round # Fast
    BY <1>0, <2>1, <2>6 DEF TypeOK
  <2>8. \A x \in validated' \cup confirmed' : x.round # Fast
    BY <2>1, <2>3 DEF Cast, NoFastRound, is_fast
  <2> QED
    BY <2>7, <2>8 DEF NoFastRound, is_fast
<1>3. ASSUME NEW n \in Nodes, NEW c \in Certs(validated), process_validated_block(n, c)
      PROVE  NoFastRound'
  <2> DEFINE u == create_final_vote(manager[n], c, has_key(n))
  <2>1. c \in Certificate /\ has_key(n) \in BOOLEAN /\ c.round # Fast
    BY CertTypes DEF TypeOK, has_key, Certs, NoFastRound, is_fast
  <2>2. manager[n].current_round <= u.current_round /\ u.current_round \in Round
    BY <1>0, <2>1, CreateFinalVote, ManagerRounds
  <2>3. manager' = [manager EXCEPT ![n] = u] /\ validated' = validated
    BY <1>3 DEF process_validated_block, TypeOK
  <2> HIDE DEF u
  <2>4. \A k \in Nodes : manager'[k].current_round # Fast
    BY <1>0, <2>2, <2>3 DEF TypeOK, Round, Fast
  <2>5. \A x \in validated' \cup confirmed' : x.round # Fast
    BY <1>3, <2>1, <2>3 DEF process_validated_block, Cast, NoFastRound, is_fast
  <2> QED
    BY <2>4, <2>5 DEF NoFastRound, is_fast
<1>4. ASSUME NEW n \in Nodes, NEW c \in Certs(confirmed), process_confirmed_block(n, c)
      PROVE  NoFastRound'
  <2>1. first_round # Fast
    BY OwnershipAssumption DEF first_round, Fast, MultiLeader, SingleLeader, Validator
  <2> QED
    BY <1>4, <2>1 DEF process_confirmed_block, NoFastRound, TypeOK, ChainManager_new, is_fast
<1>5. ASSUME NEW n \in Nodes, NEW t \in timeouts, process_timeout(n, t.round)
      PROVE  NoFastRound'
  <2> DEFINE u == handle_timeout_certificate(manager[n], t.round)
  <2>1. t.round \in Round
    BY DEF TypeOK, TimeoutVote
  <2>2. manager[n].current_round <= u.current_round /\ u.current_round \in Round
    BY <1>0, <2>1, HandleTimeoutCertificate, ManagerRounds
  <2>3. manager' = [manager EXCEPT ![n] = u] /\ UNCHANGED <<validated, confirmed>>
    BY <1>5 DEF process_timeout, TypeOK
  <2> HIDE DEF u
  <2>4. \A k \in Nodes : manager'[k].current_round # Fast
    BY <1>0, <2>2, <2>3 DEF TypeOK, Round, Fast
  <2> QED
    BY <2>3, <2>4 DEF NoFastRound, is_fast
<1>6. ASSUME NEW n \in Nodes, vote_for_leader_timeout(n) \/ vote_for_fallback(n)
      PROVE  NoFastRound'
  <2>1. PICK u : /\ u = vote_timeout(manager[n]) \/ u = vote_fallback(manager[n])
                 /\ manager' = [manager EXCEPT ![n] = u]
                 /\ UNCHANGED <<validated, confirmed>>
    BY <1>6 DEF vote_for_leader_timeout, vote_for_fallback, TypeOK
  <2>2. u.current_round = manager[n].current_round
    BY <1>0, <2>1 DEF vote_timeout, vote_fallback, Manager
  <2> QED
    BY <2>1, <2>2 DEF NoFastRound, is_fast, TypeOK
<1>7. ASSUME NEW n \in Nodes, NEW payload \in Payload, NEW r \in Explored, NEW o \in AllOwners,
             handle_block_proposal(n, new_initial(r, [previous_block_hash |-> chain[n],
                                                      payload |-> payload], o))
      PROVE  NoFastRound'
  BY <1>2, <1>7, ProposalTypes, Zenon
<1>8. ASSUME NEW n \in Nodes, NEW c \in Certs(validated), NEW r \in Explored, NEW o \in AllOwners,
             handle_block_proposal(n, new_retry(r, c, o))
      PROVE  NoFastRound'
  BY <1>2, <1>8, ProposalTypes, Zenon
<1> QED
  BY <1>1, <1>3, <1>4, <1>5, <1>6, <1>7, <1>8 DEF Next

LEMMA NoFastInit == Init => NoFastRound
BY OwnershipAssumption
DEF Init, NoFastRound, ChainManager_new, is_fast, first_round, Fast, MultiLeader, SingleLeader,
    Validator

\* At most one block is ever confirmed at a height, if the chain has no super
\* owners, for any committee in which two quorums share an honest validator.
THEOREM AgreementWithoutSuperOwners == SuperOwners = {} => (Spec => []Agreement)
<1> SUFFICES ASSUME SuperOwners = {} PROVE Spec => []Agreement
  OBVIOUS
<1>1. SlowAgreement /\ NoFastRound => Agreement
  BY DEF SlowAgreement, NoFastRound, Agreement, Certs
<1>2. Spec => []NoFastRound
  BY InitType, TypeStep, NoFastInit, NoFastStep, PTL DEF Spec
<1> QED
  BY <1>1, <1>2, AgreementOfSlowRounds, PTL

\* Votes are only added, and only a confirmed block changes a tip.
LEMMA ConfirmedGrows ==
    ASSUME [Next]_vars
    PROVE  /\ confirmed \subseteq confirmed'
           /\ chain' = chain \/ \E n \in Nodes, c \in Certs(confirmed) : process_confirmed_block(n, c)
<1>1. ASSUME NEW n \in Nodes, NEW p, handle_block_proposal(n, p)
      PROVE  confirmed \subseteq confirmed' /\ chain' = chain
  BY <1>1 DEF handle_block_proposal, Cast
<1>2. ASSUME NEW n \in Nodes, NEW c, process_validated_block(n, c)
      PROVE  confirmed \subseteq confirmed' /\ chain' = chain
  BY <1>2 DEF process_validated_block, Cast
<1>3. ASSUME NEW n \in Nodes, NEW r, process_timeout(n, r) \/ vote_for_leader_timeout(n)
                                      \/ vote_for_fallback(n)
      PROVE  confirmed \subseteq confirmed' /\ chain' = chain
  BY <1>3 DEF process_timeout, vote_for_leader_timeout, vote_for_fallback
<1>4. ASSUME NEW n \in Nodes, NEW c, process_confirmed_block(n, c)
      PROVE  confirmed' = confirmed
  BY <1>4 DEF process_confirmed_block
<1>5. CASE UNCHANGED vars
  BY <1>5 DEF vars
<1> QED
  BY <1>1, <1>2, <1>3, <1>4, <1>5 DEF Next

LEMMA ChainCertifiedStep == TypeOK /\ ChainCertified /\ [Next]_vars => ChainCertified'
<1> SUFFICES ASSUME TypeOK, ChainCertified, [Next]_vars,
                    NEW n \in Nodes, NEW i \in DOMAIN chain'[n]
             PROVE  \E c \in Certs(confirmed)' :
                       /\ ConfirmedCert(c)'
                       /\ height(c.value.block) + 1 = i
                       /\ chain'[n][i] = <<c.value.block.payload, c.value.outcome>>
  BY DEF ChainCertified
<1>1. confirmed \subseteq confirmed'
  BY ConfirmedGrows
<1>2. Certs(confirmed) \subseteq Certs(confirmed)'
      /\ \A c : ConfirmedCert(c) => ConfirmedCert(c)'
  BY <1>1 DEF Certs, ConfirmedCert, HasQuorum
<1>3. ASSUME i \in DOMAIN chain[n], chain'[n][i] = chain[n][i]
      PROVE  \E c \in Certs(confirmed)' :
                       /\ ConfirmedCert(c)'
                       /\ height(c.value.block) + 1 = i
                       /\ chain'[n][i] = <<c.value.block.payload, c.value.outcome>>
  BY <1>2, <1>3 DEF ChainCertified
<1>4. CASE chain' = chain
  BY <1>3, <1>4
<1>5. ASSUME NEW k \in Nodes, NEW c \in Certs(confirmed), process_confirmed_block(k, c)
      PROVE  \E d \in Certs(confirmed)' :
                       /\ ConfirmedCert(d)'
                       /\ height(d.value.block) + 1 = i
                       /\ chain'[n][i] = <<d.value.block.payload, d.value.outcome>>
  <2> DEFINE b == <<c.value.block.payload, c.value.outcome>>
  <2>1. c \in Certificate /\ chain[k] \in Seq(Payload \X OutcomeSet)
    BY CertTypes DEF TypeOK, CryptoHash
  <2>2. b \in Payload \X OutcomeSet
    BY <2>1 DEF Certificate, ExecutedBlock, Block
  <2>3. /\ chain' = [chain EXCEPT ![k] = Append(chain[k], b)] /\ ConfirmedCert(c)
        /\ height(c.value.block) = Len(chain[k])
    BY <1>5 DEF process_confirmed_block, hash, height
  <2>4. CASE n # k
    BY <1>3, <2>3, <2>4 DEF TypeOK
  <2>5. CASE n = k
    <3>1. chain'[n] = Append(chain[n], b)
      BY <2>3, <2>5 DEF TypeOK
    <3>2. CASE i = Len(chain[n]) + 1
      <4>1. chain'[n][i] = b
        BY <2>1, <2>2, <2>5, <3>1, <3>2
      <4>2. c \in Certs(confirmed)' /\ ConfirmedCert(c)'
        BY <1>2, <2>3
      <4> QED
        BY <2>3, <2>5, <3>2, <4>1, <4>2
    <3>3. CASE i # Len(chain[n]) + 1
      <4>1. i \in DOMAIN chain[n] /\ chain'[n][i] = chain[n][i]
        BY <2>1, <2>2, <2>5, <3>1, <3>3
      <4> QED
        BY <1>3, <4>1
    <3> QED
      BY <3>2, <3>3
  <2> QED
    BY <2>4, <2>5
<1> QED
  BY <1>4, <1>5, ConfirmedGrows

\* The chains that the nodes have executed never diverge.
THEOREM ChainsOfNodesAgree == SuperOwners = {} => (Spec => []ChainsAgree)
<1> SUFFICES ASSUME SuperOwners = {} PROVE Spec => []ChainsAgree
  OBVIOUS
<1>1. Init => ChainCertified
  BY DEF Init, ChainCertified
<1>2. Spec => []ChainCertified
  BY <1>1, InitType, TypeStep, ChainCertifiedStep, PTL DEF Spec
<1>3. TypeOK /\ ChainCertified /\ Agreement => ChainsAgree
  <2> SUFFICES ASSUME TypeOK, ChainCertified, Agreement, NEW m \in Nodes, NEW n \in Nodes,
                      NEW i \in DOMAIN chain[m] \cap DOMAIN chain[n]
               PROVE  chain[m][i] = chain[n][i]
    BY DEF ChainsAgree
  <2>1. PICK c \in Certs(confirmed) :
           /\ ConfirmedCert(c) /\ height(c.value.block) + 1 = i
           /\ chain[m][i] = <<c.value.block.payload, c.value.outcome>>
    BY DEF ChainCertified
  <2>2. PICK d \in Certs(confirmed) :
           /\ ConfirmedCert(d) /\ height(d.value.block) + 1 = i
           /\ chain[n][i] = <<d.value.block.payload, d.value.outcome>>
    BY DEF ChainCertified
  <2>3. height(c.value.block) \in Nat /\ height(d.value.block) \in Nat
    <3>1. c \in Certificate /\ d \in Certificate
      BY CertTypes DEF TypeOK
    <3> QED
      BY <3>1 DEF Certificate, ExecutedBlock, Block, CryptoHash, height
  <2>4. SameHeight(c.value, d.value)
    BY <2>1, <2>2, <2>3 DEF SameHeight
  <2> QED
    BY <2>1, <2>2, <2>4 DEF Agreement
<1>4. Spec => []Agreement
  BY AgreementWithoutSuperOwners
<1> QED
  BY <1>2, <1>3, <1>4, TypeCorrect, PTL
=============================================================================
