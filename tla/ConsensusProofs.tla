-------------------------- MODULE ConsensusProofs ---------------------------
(***************************************************************************)
(* Proofs about Consensus, for every number of validators, rounds, heights *)
(* and payloads.                                                           *)
(***************************************************************************)
EXTENDS Consensus, TLAPS, WellFoundedInduction

\* A nonempty set of naturals has a least element.
LEMMA LeastElement ==
    ASSUME NEW T, T \subseteq Nat, T # {}
    PROVE  \E x \in T : \A y \in T : x <= y
<1>1. PICK x \in T : \A y \in T : ~ (<<y, x>> \in OpToRel(<, Nat))
  BY NatLessThanWellFounded, WFMin
<1>2. ASSUME NEW y \in T PROVE ~ (y < x)
  <2>1. <<y, x>> \in Nat \X Nat /\ <<y, x>>[1] = y /\ <<y, x>>[2] = x
    OBVIOUS
  <2>2. <<y, x>> \notin OpToRel(<, Nat)
    BY <1>1
  <2>3. ~ (<<y, x>>[1] < <<y, x>>[2])
    BY <2>1, <2>2, Zenon DEF OpToRel
  <2> QED
    BY <2>1, <2>3
<1> QED
  BY <1>2

\* Max is a maximum of every nonempty set of rounds.
LEMMA MaxRound ==
    ASSUME NEW S, S \subseteq Round, S # {}
    PROVE  Max(S) \in S /\ \A y \in S : y <= Max(S)
<1> DEFINE top == Validator(U32Max)
           T   == {top - x : x \in S}
<1>1. top \in Nat /\ \A x \in S : x \in Nat /\ x <= top
  BY OwnershipAssumption DEF Round, Fast, Validator
<1>2. T \subseteq Nat /\ T # {}
  BY <1>1
<1>3. PICK z \in T : \A y \in T : z <= y
  BY <1>2, LeastElement
<1>4. PICK x \in S : z = top - x
  BY <1>3
<1>5. \A y \in S : x >= y
  BY <1>1, <1>3, <1>4
<1>6. Max(S) \in S /\ \A y \in S : Max(S) >= y
  BY <1>5 DEF Max
<1> QED
  BY <1>1, <1>6

-----------------------------------------------------------------------------
(***************************************************************************)
(* The operators of the chain manager.                                     *)
(***************************************************************************)

\* next_round and the round entered after a timeout are rounds; the next
\* round is later than its argument.
LEMMA NextRound ==
    ASSUME NEW r \in Round
    PROVE  /\ r < successor(r)
           /\ next_round(r) # {} => successor(r) \in Round
           /\ round_after_timeout(r) \in Round
<1>1. r < successor(r) /\ (r # Validator(U32Max) => successor(r) \in Round)
  BY OwnershipAssumption
  DEF successor, Round, Fast, SingleLeader, MultiLeader, Validator
<1>2. Validator(U32Max) \in Round
  BY OwnershipAssumption DEF Round, Fast, Validator
<1> QED
  BY <1>1, <1>2 DEF round_after_timeout, next_round

LEMMA FirstRound == first_round \in Round
BY OwnershipAssumption
DEF first_round, Round, Fast, SingleLeader, MultiLeader, Validator

\* update_current_round only raises the current round, to no less than the round
\* of the proposal.
LEMMA UpdateCurrentRound ==
    ASSUME NEW m \in Manager
    PROVE  \E r \in Round :
              /\ update_current_round(m) = [m EXCEPT !.current_round = r]
              /\ m.current_round <= r
              /\ \A q \in m.proposed : q.round <= r
<1> DEFINE r == Max({m.current_round} \cup known_rounds(m))
<1>1. known_rounds(m) \subseteq Round
  <2>1. {round_after_timeout(t) : t \in m.timeout} \subseteq Round
    BY NextRound DEF Manager
  <2>2. {c.round : c \in m.locked} \subseteq Round
    BY DEF Manager, Certificate
  <2>3. {q.round : q \in m.proposed} \subseteq Round
    BY DEF Manager, ProposalContent
  <2> QED
    BY <2>1, <2>2, <2>3, FirstRound DEF known_rounds
<1>2. m.current_round \in Round
  BY DEF Manager
<1>3. \A q \in m.proposed : q.round \in known_rounds(m)
  BY DEF known_rounds
<1>4. r \in Round /\ \A x \in {m.current_round} \cup known_rounds(m) : x <= r
  BY <1>1, <1>2, MaxRound
<1>5. update_current_round(m) = [m EXCEPT !.current_round = r]
  BY DEF update_current_round
<1> QED
  BY <1>3, <1>4, <1>5

\* An accepted proposal is for a round after its certificate's, and not before
\* the current one.
LEMMA AcceptedProposal ==
    ASSUME NEW m \in Manager, NEW p \in BlockProposal, check_proposed_block(m, p)
    PROVE  /\ m.current_round <= p.round
           /\ \A c \in p.cert : c.round < p.round
           /\ \A q \in m.proposed : q.round < p.round
           /\ \A l \in m.locked : \E c \in p.cert : l.round <= c.round
<1> DEFINE S == {m.current_round} \cup {successor(c.round) : c \in p.cert}
<1>1. \A c \in p.cert : c \in Certificate /\ c.round \in Round
  BY DEF BlockProposal, Certificate
<1>2. m.current_round \in Round /\ p.round \in Round
  BY DEF Manager, BlockProposal
<1>3. S \subseteq Round
  BY <1>1, <1>2, NextRound DEF check_proposed_block, has_expected_round
<1>4. Max(S) \in Round /\ \A x \in S : x <= Max(S)
  BY <1>3, MaxRound
<1>5. Max(S) <= p.round
  BY <1>2, <1>4 DEF check_proposed_block, has_expected_round, expected_round, Round
<1>6. ASSUME NEW x \in S PROVE x <= p.round
  <2> HIDE DEF S
  <2>1. x \in Round /\ x <= Max(S)
    BY <1>3, <1>4
  <2> QED
    BY <1>2, <1>4, <1>5, <2>1 DEF Round
<1>7. \A c \in p.cert : c.round < successor(c.round) /\ successor(c.round) \in S
  BY <1>1, NextRound
<1>8. ASSUME NEW c \in p.cert PROVE c.round < p.round
  <2>1. successor(c.round) <= p.round /\ c.round < successor(c.round)
    BY <1>6, <1>7
  <2>2. successor(c.round) \in Round
    BY <1>3, <1>7
  <2> QED
    BY <1>1, <1>2, <2>1, <2>2 DEF Round
<1>9. \A q \in m.proposed : q.round \in Round
  BY DEF Manager, ProposalContent
<1> QED
  BY <1>2, <1>6, <1>8, <1>9 DEF check_proposed_block, follows_proposed, follows_lock, Round

\* create_vote records the proposal, enters its round and never lowers the lock.
LEMMA CreateVote ==
    ASSUME NEW m \in Manager, NEW p \in BlockProposal, NEW value \in ExecutedBlock,
           NEW key \in BOOLEAN
    PROVE  LET u == create_vote(m, p, value, key) IN
           /\ u \in Manager
           /\ \E q \in ProposalContent : u.proposed = {q} /\ q.round = p.round /\ q.block = p.block
           /\ p.round <= u.current_round
           /\ m.current_round <= u.current_round
           /\ u.locked = m.locked
                \/ /\ u.locked # {} /\ u.locked \subseteq p.cert
                   /\ \A c \in u.locked, l \in m.locked : l.round < c.round
           /\ u.pending = m.pending \/ \E x \in Vote : u.pending = {x}
           /\ key => u.pending = {[kind |-> IF is_fast(p.round) THEN "confirmed" ELSE "validated",
                                   value |-> value, round |-> p.round]}
           /\ u.timeout = m.timeout /\ u.timeout_vote = m.timeout_vote
<1> DEFINE content == [block |-> p.block, round |-> p.round,
                       forced |-> {c.value.outcome : c \in p.cert}]
           newer   == {c \in p.cert : \A l \in m.locked : l.round < c.round}
           m0      == [m EXCEPT !.proposed = {content}]
           u       == create_vote(m, p, value, key)
<1>1. content \in ProposalContent
  BY DEF BlockProposal, ProposalContent, Certificate, ExecutedBlock
<1>2. m0 \in Manager /\ m0.proposed = {content} /\ m0.locked = m.locked
      /\ m0.current_round = m.current_round /\ m0.pending = m.pending
      /\ m0.timeout = m.timeout /\ m0.timeout_vote = m.timeout_vote
  BY <1>1 DEF Manager
<1> HIDE DEF m0
<1>3. PICK r \in Round : /\ update_current_round(m0) = [m0 EXCEPT !.current_round = r]
                         /\ m0.current_round <= r
                         /\ \A q \in m0.proposed : q.round <= r
  BY <1>2, UpdateCurrentRound
<1> DEFINE m1   == [m0 EXCEPT !.current_round = r]
           kind == IF is_fast(p.round) THEN "confirmed" ELSE "validated"
           vote == [kind |-> kind, value |-> value, round |-> p.round]
<1>4. m1 \in Manager /\ m1.proposed = {content} /\ m1.locked = m.locked
      /\ m1.current_round = r /\ m1.pending = m.pending
      /\ m1.timeout = m.timeout /\ m1.timeout_vote = m.timeout_vote
  BY <1>2 DEF Manager
<1>5. u = [m1 EXCEPT !.locked  = IF newer = {} THEN m.locked ELSE newer,
                     !.pending = IF key THEN {vote} ELSE m.pending]
  BY <1>3, <1>4 DEF create_vote, m0, Manager
<1>6. vote \in Vote /\ newer \subseteq Certificate /\ newer \subseteq p.cert
  BY DEF Vote, BlockProposal
<1> HIDE DEF m1, newer, vote, u
<1>7. /\ u \in Manager /\ u.proposed = {content} /\ u.current_round = r
      /\ u.locked = IF newer = {} THEN m.locked ELSE newer
      /\ u.pending = IF key THEN {vote} ELSE m.pending
      /\ u.timeout = m.timeout /\ u.timeout_vote = m.timeout_vote
  BY <1>4, <1>5, <1>6 DEF Manager
<1>8. content.round = p.round /\ content.block = p.block /\ content.round <= r /\ m.current_round <= r
  BY <1>2, <1>3
<1>9. \A c \in newer, l \in m.locked : l.round < c.round
  BY DEF newer
<1> HIDE DEF content
<1> QED
  BY <1>1, <1>6, <1>7, <1>8, <1>9 DEF u, vote

\* create_final_vote changes nothing, or locks the certificate's block.
LEMMA CreateFinalVote ==
    ASSUME NEW m \in Manager, NEW c \in Certificate, NEW key \in BOOLEAN
    PROVE  LET u == create_final_vote(m, c, key) IN
           /\ u \in Manager
           /\ u.proposed = m.proposed
           /\ m.current_round <= u.current_round
           /\ key /\ c.round < m.current_round => u.locked = m.locked
           /\ ~(key /\ c.round < m.current_round) => u.locked = {c}
           /\ u.pending = m.pending \/ \E x \in Vote : u.pending = {x}
           /\ key /\ c.round < m.current_round => u.pending = m.pending
           /\ key /\ ~(c.round < m.current_round)
                 => u.pending = {[kind |-> "confirmed", value |-> c.value, round |-> c.round]}
           /\ u.timeout = m.timeout /\ u.timeout_vote = m.timeout_vote
<1> DEFINE m0 == [m EXCEPT !.locked = {c}]
           u  == create_final_vote(m, c, key)
<1>1. CASE key /\ c.round < m.current_round
  <2>1. u = m
    BY <1>1 DEF create_final_vote
  <2>2. m.current_round <= m.current_round
    BY DEF Manager, Round
  <2> QED
    BY <1>1, <2>1, <2>2
<1>2. CASE ~(key /\ c.round < m.current_round)
  <2>1. m0 \in Manager /\ m0.proposed = m.proposed /\ m0.locked = {c}
        /\ m0.current_round = m.current_round /\ m0.pending = m.pending
        /\ m0.timeout = m.timeout /\ m0.timeout_vote = m.timeout_vote
    BY DEF Manager
  <2> HIDE DEF m0
  <2>2. PICK r \in Round : /\ update_current_round(m0) = [m0 EXCEPT !.current_round = r]
                           /\ m0.current_round <= r
    BY <2>1, UpdateCurrentRound
  <2> DEFINE m1   == [m0 EXCEPT !.current_round = r]
             vote == [kind |-> "confirmed", value |-> c.value, round |-> c.round]
  <2>3. m1 \in Manager /\ m1.proposed = m.proposed /\ m1.locked = {c}
        /\ m1.current_round = r /\ m1.pending = m.pending
        /\ m1.timeout = m.timeout /\ m1.timeout_vote = m.timeout_vote
    BY <2>1 DEF Manager
  <2>4. u = [m1 EXCEPT !.pending = IF key THEN {vote} ELSE m.pending]
    BY <1>2, <2>2, <2>3 DEF create_final_vote, m0, Manager
  <2>5. vote \in Vote
    BY DEF Vote, Certificate
  <2> HIDE DEF m1, vote, u
  <2>6. /\ u \in Manager /\ u.proposed = m.proposed /\ u.current_round = r
        /\ u.locked = {c} /\ u.pending = IF key THEN {vote} ELSE m.pending
        /\ u.timeout = m.timeout /\ u.timeout_vote = m.timeout_vote
    BY <2>3, <2>4, <2>5 DEF Manager
  <2> QED
    BY <1>2, <2>1, <2>2, <2>5, <2>6 DEF u, vote
<1> QED
  BY <1>1, <1>2

\* handle_timeout_certificate changes the known timeout and the current round,
\* which it never lowers.
LEMMA HandleTimeoutCertificate ==
    ASSUME NEW m \in Manager, NEW t \in Round
    PROVE  LET u == handle_timeout_certificate(m, t) IN
           /\ u \in Manager
           /\ u.proposed = m.proposed /\ u.locked = m.locked /\ u.pending = m.pending
           /\ m.current_round <= u.current_round
           /\ u.timeout = m.timeout \/ u.timeout = {t}
           /\ u.timeout_vote = m.timeout_vote
<1> DEFINE m0 == [m EXCEPT !.timeout = {t}]
<1>1. CASE \E known \in m.timeout : known >= t
  <2>1. m.current_round <= m.current_round
    BY DEF Manager, Round
  <2> QED
    BY <1>1, <2>1 DEF handle_timeout_certificate
<1>2. CASE ~ \E known \in m.timeout : known >= t
  <2>1. m0 \in Manager /\ m0.proposed = m.proposed /\ m0.locked = m.locked
        /\ m0.current_round = m.current_round /\ m0.pending = m.pending
        /\ m0.timeout = {t} /\ m0.timeout_vote = m.timeout_vote
    BY DEF Manager
  <2>2. handle_timeout_certificate(m, t) = update_current_round(m0)
    BY <1>2 DEF handle_timeout_certificate
  <2> HIDE DEF m0
  <2>3. PICK r \in Round : /\ update_current_round(m0) = [m0 EXCEPT !.current_round = r]
                           /\ m0.current_round <= r
    BY <2>1, UpdateCurrentRound
  <2> QED
    BY <2>1, <2>2, <2>3 DEF Manager
<1> QED
  BY <1>1, <1>2

-----------------------------------------------------------------------------
(***************************************************************************)
(* The steps.                                                              *)
(***************************************************************************)

\* The proposals of Next are well formed.
LEMMA ProposalTypes ==
    ASSUME TypeOK, NEW n \in Nodes, NEW r \in Explored, NEW o \in AllOwners
    PROVE  /\ \A payload \in Payload :
                 LET block == [previous_block_hash |-> chain[n], payload |-> payload]
                     p     == new_initial(r, block, o)
                 IN  p \in BlockProposal /\ AtMostOne(p.cert)
           /\ \A c \in Certs(validated) :
                 LET p == new_retry(r, c, o)
                 IN  c \in Certificate /\ p \in BlockProposal /\ AtMostOne(p.cert)
<1>1. r \in Round /\ chain[n] \in CryptoHash
  BY BoundAssumption DEF TypeOK
<1>2. ASSUME NEW c \in Certs(validated) PROVE c \in Certificate
  BY DEF TypeOK, Certs, BlockVote, Certificate
<1>3. ASSUME NEW payload \in Payload
      PROVE  [previous_block_hash |-> chain[n], payload |-> payload] \in Block
  BY <1>1 DEF Block
<1>4. \A c \in Certificate : c.value.block \in Block
  BY DEF Certificate, ExecutedBlock
<1> QED
  BY <1>1, <1>2, <1>3, <1>4 DEF new_initial, new_retry, BlockProposal, AtMostOne

\* What handling a proposal does to the state.
LEMMA ProposalStep ==
    ASSUME TypeOK, NEW n \in Nodes, NEW p \in BlockProposal, AtMostOne(p.cert),
           handle_block_proposal(n, p)
    PROVE  \E value \in ExecutedBlock, u \in Manager :
              /\ value.block = p.block
              /\ \A c \in p.cert : value = c.value
              /\ u = create_vote(manager[n], p, value, has_key(n))
              /\ manager' = [manager EXCEPT ![n] = u]
              /\ validated' = IF is_fast(p.round) THEN validated
                              ELSE Cast(n, validated, value, p.round)
              /\ confirmed' = IF is_fast(p.round) THEN Cast(n, confirmed, value, p.round)
                              ELSE confirmed
<1>1. PICK outcome \in execute_block(p) :
         LET value == [block |-> p.block, outcome |-> outcome]
         IN  /\ manager' = [manager EXCEPT ![n] = create_vote(@, p, value, has_key(n))]
             /\ IF is_fast(p.round)
                THEN /\ confirmed' = Cast(n, confirmed, value, p.round)
                     /\ UNCHANGED validated
                ELSE /\ validated' = Cast(n, validated, value, p.round)
                     /\ UNCHANGED confirmed
  BY Zenon DEF handle_block_proposal
<1> DEFINE value == [block |-> p.block, outcome |-> outcome]
           u     == create_vote(manager[n], p, value, has_key(n))
<1>2. p.block \in Block /\ p.block.payload \in Payload /\ p.cert \subseteq Certificate
  BY DEF BlockProposal, Block
<1>3. outcome \in OutcomeSet
  BY <1>2, ExecutionAssumption DEF execute_block, Certificate, ExecutedBlock
<1>4. value \in ExecutedBlock
  BY <1>2, <1>3 DEF ExecutedBlock
<1>5. ASSUME NEW c \in p.cert PROVE value = c.value
  <2>1. PICK d \in p.cert : d.value.block = p.block /\ outcome = d.value.outcome
    BY <1>1 DEF execute_block
  <2>2. c = d
    BY DEF AtMostOne
  <2> QED
    BY <1>2, <2>1, <2>2 DEF Certificate, ExecutedBlock
<1>6. manager[n] \in Manager /\ DOMAIN manager = Nodes
  BY DEF TypeOK, IsManager
<1>7. u \in Manager
  <2>1. has_key(n) \in BOOLEAN
    BY DEF has_key
  <2> HIDE DEF value
  <2> QED
    BY <1>4, <1>6, <2>1, CreateVote
<1>8. manager' = [manager EXCEPT ![n] = u]
  BY <1>1, <1>6
<1> HIDE DEF u
<1> QED
  BY <1>1, <1>4, <1>5, <1>7, <1>8 DEF u

LEMMA CastType ==
    ASSUME NEW n \in Nodes, NEW votes \in SUBSET BlockVote, NEW value \in ExecutedBlock,
           NEW r \in Round
    PROVE  Cast(n, votes, value, r) \subseteq BlockVote
BY DEF Cast, has_key, BlockVote

LEMMA NewManager == IsManager(ChainManager_new)
BY FirstRound DEF ChainManager_new, IsManager, Manager, AtMostOne

LEMMA CertTypes ==
    ASSUME NEW votes \in SUBSET BlockVote, NEW c \in Certs(votes)
    PROVE  c \in Certificate
BY DEF Certs, BlockVote, Certificate

LEMMA InitType == Init => TypeOK
BY NewManager DEF Init, TypeOK, CryptoHash

LEMMA ProposalType ==
    ASSUME TypeOK, NEW n \in Nodes, NEW p \in BlockProposal, AtMostOne(p.cert),
           handle_block_proposal(n, p)
    PROVE  TypeOK'
<1>1. PICK value \in ExecutedBlock, u \in Manager :
         /\ u = create_vote(manager[n], p, value, has_key(n))
         /\ manager' = [manager EXCEPT ![n] = u]
         /\ validated' = IF is_fast(p.round) THEN validated
                         ELSE Cast(n, validated, value, p.round)
         /\ confirmed' = IF is_fast(p.round) THEN Cast(n, confirmed, value, p.round)
                         ELSE confirmed
  BY ProposalStep
<1>2. p.round \in Round
  BY DEF BlockProposal
<1>3. validated' \subseteq BlockVote /\ confirmed' \subseteq BlockVote
  BY <1>1, <1>2, CastType DEF TypeOK
<1>4. manager[n] \in Manager /\ IsManager(manager[n]) /\ has_key(n) \in BOOLEAN
  BY DEF TypeOK, IsManager, has_key
<1>5. /\ \E q \in ProposalContent : u.proposed = {q}
      /\ u.locked = manager[n].locked \/ u.locked \subseteq p.cert
      /\ u.pending = manager[n].pending \/ \E x \in Vote : u.pending = {x}
      /\ u.timeout = manager[n].timeout /\ u.timeout_vote = manager[n].timeout_vote
  BY <1>1, <1>4, CreateVote
<1>6. IsManager(u)
  BY <1>4, <1>5 DEF IsManager, AtMostOne
<1> QED
  BY <1>1, <1>3, <1>6 DEF TypeOK, handle_block_proposal

LEMMA TypeStep == TypeOK /\ [Next]_vars => TypeOK'
<1> SUFFICES ASSUME TypeOK, [Next]_vars PROVE TypeOK'
  OBVIOUS
<1>1. CASE UNCHANGED vars
  BY <1>1 DEF vars, TypeOK
<1>2. ASSUME NEW n \in Nodes, NEW payload \in Payload, NEW r \in Explored, NEW o \in AllOwners,
             handle_block_proposal(n, new_initial(r, [previous_block_hash |-> chain[n],
                                                      payload |-> payload], o))
      PROVE  TypeOK'
  BY <1>2, ProposalTypes, ProposalType, Zenon
<1>3. ASSUME NEW n \in Nodes, NEW c \in Certs(validated), NEW r \in Explored, NEW o \in AllOwners,
             handle_block_proposal(n, new_retry(r, c, o))
      PROVE  TypeOK'
  BY <1>3, ProposalTypes, ProposalType, Zenon
<1>4. ASSUME NEW n \in Nodes, NEW c \in Certs(validated), process_validated_block(n, c)
      PROVE  TypeOK'
  <2> DEFINE u == create_final_vote(manager[n], c, has_key(n))
  <2>1. c \in Certificate /\ c.value \in ExecutedBlock /\ c.round \in Round
    BY CertTypes DEF TypeOK, Certificate
  <2>2. manager[n] \in Manager /\ IsManager(manager[n]) /\ has_key(n) \in BOOLEAN
    BY DEF TypeOK, IsManager, has_key
  <2>3. /\ u \in Manager /\ u.proposed = manager[n].proposed
        /\ u.locked = manager[n].locked \/ u.locked = {c}
        /\ u.pending = manager[n].pending \/ \E x \in Vote : u.pending = {x}
        /\ u.timeout = manager[n].timeout /\ u.timeout_vote = manager[n].timeout_vote
    BY <2>1, <2>2, CreateFinalVote
  <2>4. manager' = [manager EXCEPT ![n] = u]
    BY <1>4 DEF process_validated_block, TypeOK
  <2> HIDE DEF u
  <2>5. IsManager(u)
    BY <2>2, <2>3 DEF IsManager, AtMostOne
  <2>6. confirmed' \subseteq BlockVote
    BY <1>4, <2>1, CastType DEF process_validated_block, TypeOK
  <2> QED
    BY <1>4, <2>4, <2>5, <2>6 DEF TypeOK, process_validated_block
<1>5. ASSUME NEW n \in Nodes, NEW c \in Certs(confirmed), process_confirmed_block(n, c)
      PROVE  TypeOK'
  <2>1. c \in Certificate
    BY CertTypes DEF TypeOK
  <2>2. hash(c.value) \in CryptoHash
    BY <2>1 DEF hash, Certificate, ExecutedBlock, Block, CryptoHash
  <2> QED
    BY <1>5, <2>2, NewManager DEF TypeOK, process_confirmed_block
<1>6. ASSUME NEW n \in Nodes, NEW t \in timeouts, process_timeout(n, t.round)
      PROVE  TypeOK'
  <2> DEFINE u == handle_timeout_certificate(manager[n], t.round)
  <2>1. t.round \in Round /\ manager[n] \in Manager /\ IsManager(manager[n])
    BY DEF TypeOK, TimeoutVote, IsManager
  <2>2. /\ u \in Manager
        /\ u.proposed = manager[n].proposed /\ u.locked = manager[n].locked
        /\ u.pending = manager[n].pending /\ u.timeout_vote = manager[n].timeout_vote
        /\ u.timeout = manager[n].timeout \/ u.timeout = {t.round}
    BY <2>1, HandleTimeoutCertificate
  <2>3. manager' = [manager EXCEPT ![n] = u]
    BY <1>6 DEF process_timeout, TypeOK
  <2> HIDE DEF u
  <2>4. IsManager(u)
    BY <2>1, <2>2 DEF IsManager, AtMostOne
  <2> QED
    BY <1>6, <2>3, <2>4 DEF TypeOK, process_timeout
<1>7. ASSUME NEW n \in Nodes, vote_for_leader_timeout(n)
      PROVE  TypeOK'
  <2>1. n \in Honest /\ manager[n].current_round \in Round /\ chain[n] \in Seq(Payload \X OutcomeSet)
    BY <1>7 DEF TypeOK, vote_for_leader_timeout, has_key, IsManager, Manager, CryptoHash
  <2>2. IsManager(vote_timeout(manager[n]))
    BY <2>1 DEF TypeOK, IsManager, Manager, AtMostOne, vote_timeout
  <2>3. timeouts' \subseteq TimeoutVote
    BY <1>7, <2>1 DEF vote_for_leader_timeout, TypeOK, TimeoutVote, next_block_height
  <2> QED
    BY <1>7, <2>2, <2>3 DEF TypeOK, vote_for_leader_timeout
<1>8. ASSUME NEW n \in Nodes, vote_for_fallback(n)
      PROVE  TypeOK'
  <2>1. n \in Honest /\ chain[n] \in Seq(Payload \X OutcomeSet)
    BY <1>8 DEF TypeOK, vote_for_fallback, has_key, CryptoHash
  <2>2. IsManager(vote_fallback(manager[n]))
    <3> DEFINE m == manager[n]
               u == [m EXCEPT !.fallback_vote = TRUE]
    <3>1. m \in Manager /\ IsManager(m)
      BY DEF TypeOK, IsManager
    <3> HIDE DEF m
    <3>2. /\ u \in Manager
          /\ u.proposed = m.proposed /\ u.locked = m.locked /\ u.pending = m.pending
          /\ u.timeout = m.timeout /\ u.timeout_vote = m.timeout_vote
      BY <3>1 DEF Manager
    <3> HIDE DEF u
    <3>3. IsManager(u)
      BY <3>1, <3>2 DEF IsManager
    <3> QED
      BY <3>3 DEF vote_fallback, u, m
  <2>3. SingleLeader(U32Max) \in Round
    BY OwnershipAssumption DEF Round, Fast, SingleLeader, Validator
  <2>4. timeouts' \subseteq TimeoutVote
    BY <1>8, <2>1, <2>3 DEF vote_for_fallback, TypeOK, TimeoutVote, next_block_height
  <2> QED
    BY <1>8, <2>2, <2>4 DEF TypeOK, vote_for_fallback
<1> QED
  BY <1>1, <1>2, <1>3, <1>4, <1>5, <1>6, <1>7, <1>8 DEF Next

\* Type correctness: the manager of every node keeps its fields well formed, for
\* any committee, any ownership and any bounds.
THEOREM TypeCorrect == Spec => []TypeOK
<1> QED
  BY InitType, TypeStep, PTL DEF Spec
=============================================================================
