-------------------------- MODULE QuorumCollection --------------------------
(***************************************************************************)
(* How a client collects votes: communicate_with_quorum                    *)
(* (linera-core/src/updater.rs) asks every validator in parallel and       *)
(* handles their answers as they come, until it knows that there is or can *)
(* be no quorum and a grace period has passed; the votes then make the     *)
(* certificate (communicate_chain_action, linera-core/src/client/mod.rs).  *)
(* Answers are grouped by key, e.g. the hash and round of the vote.  A     *)
(* validator may answer with any value or error, or not at all.            *)
(***************************************************************************)
EXTENDS Committee, Sequences, FiniteSetsExt

CONSTANTS Keys,     \* what answers are grouped by
          Errors,   \* the errors validators return
          Waiting   \* no answer yet

ASSUME AnswersAssumption == Keys \cap Errors = {} /\ Waiting \notin Keys \cup Errors

VARIABLES answer,             \* answer[v]: what v has answered, a history variable
          remaining_votes,    \* the weight of the validators that have not answered
          highest_key_score,  \* the highest weight of one key
          value_scores,       \* value_scores[k]: the weight of key k and who answered it
          error_scores,       \* error_scores[e]: the weight of error e
          end_time,           \* whether the grace period has begun
          timed_out,          \* whether the loop ended at MAX_TIMEOUT
          result              \* {} while running, else the one result

vars == <<answer, remaining_votes, highest_key_score, value_scores, error_scores,
          end_time, timed_out, result>>

\* The validators without votes are never asked.
Asked == {v \in Validators : weight(v) > 0}

Init ==
    /\ answer = [v \in Validators |-> Waiting]
    /\ remaining_votes = total_votes
    /\ highest_key_score = 0
    /\ value_scores = [k \in Keys |-> [score |-> 0, values |-> <<>>]]
    /\ error_scores = [e \in Errors |-> 0]
    /\ end_time = FALSE
    /\ timed_out = FALSE
    /\ result = {}

\* A mutant of stops: only the highest key counts, not the votes still to come.
stops_early(highest, remaining) ==
    highest >= quorum_threshold \/ remaining < quorum_threshold

\* A mutant of stops: a quorum that cannot be reached any more is waited for.
stops_at_quorum(highest, remaining) == highest >= quorum_threshold

\* A mutant of stops: a quorum that is reached does not end the loop.
stops_without_quorum(highest, remaining) == highest + remaining < quorum_threshold

\* A key has a quorum, or no key can get one any more.
stops(highest, remaining) ==
    highest >= quorum_threshold \/ highest + remaining < quorum_threshold

\* A mutant of receive_value: an answer is counted each time it arrives.
receive_value_again(v, k) ==
    /\ result = {} /\ v \in Asked /\ answer[v] \in {Waiting, k} /\ remaining_votes > 0
    /\ answer' = [answer EXCEPT ![v] = k]
    /\ remaining_votes' = remaining_votes - weight(v)
    /\ value_scores' = [value_scores EXCEPT ![k].score = @ + weight(v), ![k].values = Append(@, v)]
    /\ highest_key_score' = Max({highest_key_score, value_scores'[k].score})
    /\ end_time' = (end_time \/ stops(highest_key_score', remaining_votes'))
    /\ UNCHANGED <<error_scores, timed_out, result>>

receive_value(v, k) ==
    /\ result = {} /\ v \in Asked /\ answer[v] = Waiting
    /\ answer' = [answer EXCEPT ![v] = k]
    /\ remaining_votes' = remaining_votes - weight(v)
    /\ value_scores' = [value_scores EXCEPT ![k].score = @ + weight(v), ![k].values = Append(@, v)]
    /\ highest_key_score' = Max({highest_key_score, value_scores'[k].score})
    /\ end_time' = (end_time \/ stops(highest_key_score', remaining_votes'))
    /\ UNCHANGED <<error_scores, timed_out, result>>

receive_error(v, e) ==
    /\ result = {} /\ v \in Asked /\ answer[v] = Waiting
    /\ answer' = [answer EXCEPT ![v] = e]
    /\ remaining_votes' = remaining_votes - weight(v)
    /\ error_scores' = [error_scores EXCEPT ![e] = @ + weight(v)]
    /\ IF error_scores'[e] >= validity_threshold
       THEN result' = {[err |-> "Trusted", error |-> e]} /\ UNCHANGED end_time
       ELSE /\ end_time' = (end_time \/ stops(highest_key_score, remaining_votes'))
            /\ UNCHANGED result
    /\ UNCHANGED <<value_scores, highest_key_score, timed_out>>

\* A mutant of Outcome: the key with the most votes wins.
OutcomeOfHighest ==
    LET winners == {k \in Keys : value_scores[k].score >= highest_key_score}
    IN  {[ok |-> k, values |-> value_scores[k].values] : k \in winners}

\* What is returned after the loop.  An error has been received if any score is
\* not zero.
Outcome ==
    LET winners == {k \in Keys : value_scores[k].score >= quorum_threshold}
    IN  IF winners # {} THEN {[ok |-> k, values |-> value_scores[k].values] : k \in winners}
        ELSE IF \A e \in Errors : error_scores[e] = 0 THEN {[err |-> "NoConsensus"]}
        ELSE {[err |-> "Sample"]}

\* The loop ends with the last answer, or with the grace period; or, if the grace
\* period has not begun, after MAX_TIMEOUT without an answer.
stop ==
    /\ result = {}
    /\ \A v \in Asked : answer[v] # Waiting
    /\ result' \in {{r} : r \in Outcome}
    /\ UNCHANGED <<answer, remaining_votes, highest_key_score, value_scores, error_scores,
                   end_time, timed_out>>

grace_period_over ==
    /\ result = {} /\ end_time
    /\ result' \in {{r} : r \in Outcome}
    /\ UNCHANGED <<answer, remaining_votes, highest_key_score, value_scores, error_scores,
                   end_time, timed_out>>

time_out ==
    /\ result = {} /\ ~end_time
    /\ result' \in {{r} : r \in Outcome}
    /\ timed_out' = TRUE
    /\ UNCHANGED <<answer, remaining_votes, highest_key_score, value_scores, error_scores, end_time>>

Next ==
    \/ \E v \in Validators, k \in Keys : receive_value(v, k)
    \/ \E v \in Validators, e \in Errors : receive_error(v, e)
    \/ stop
    \/ grace_period_over
    \/ time_out

\* The grace period ends: the timer of the loop fires.  Nothing is assumed of
\* validators, nor of MAX_TIMEOUT, which is a day.
Spec == Init /\ [][Next]_vars /\ WF_vars(grace_period_over)

-----------------------------------------------------------------------------
Who(a) == {v \in Validators : answer[v] = a}

\* The counters are the weights of the answers they count.
TypeOK ==
    /\ answer \in [Validators -> Keys \cup Errors \cup {Waiting}]
    /\ remaining_votes = Weight[Who(Waiting)]
    /\ highest_key_score \in Nat
    /\ \A k \in Keys : /\ value_scores[k].score = Weight[Who(k)]
                       /\ value_scores[k].score <= highest_key_score
    /\ \A e \in Errors : error_scores[e] = Weight[Who(e)]
    /\ end_time \in BOOLEAN /\ timed_out \in BOOLEAN

\* A certificate made of the votes that communicate_with_quorum returns is valid
\* (the comment in communicate_chain_action).
CertificateIsValid ==
    \A r \in result : "ok" \in DOMAIN r => check_signatures(r.values)

\* An error is trusted only if an honest validator returned it, and then no value
\* can get a quorum any more (the comments in communicate_with_quorum).
TrustedErrorIsHonest ==
    \A r \in result : "error" \in DOMAIN r =>
        /\ Who(r.error) \cap Honest # {}
        /\ \A k \in Keys : Weight[Who(k)] + Weight[Who(Waiting)] < quorum_threshold

\* Without a time-out, the client fails to find a quorum only if there is none to
\* find: the answers still missing could not make one.
FailsOnlyWithoutQuorum ==
    ~timed_out => \A r \in result : "ok" \notin DOMAIN r =>
        \A k \in Keys : Weight[Who(k) \cup Who(Waiting)] < quorum_threshold

\* The inductive invariant: the votes of a key are those of distinct validators,
\* the highest score is that of some key, and the grace period begins only when
\* there is, or can be no, quorum.
ScoresInv ==
    /\ TypeOK
    /\ value_scores \in [Keys -> [score : Nat, values : Seq(Asked)]]
    /\ error_scores \in [Errors -> Nat]
    /\ \A k \in Keys :
          LET s == value_scores[k].values
          IN  /\ {s[i] : i \in DOMAIN s} = Who(k)
              /\ \A i, j \in DOMAIN s : s[i] = s[j] => i = j
    /\ highest_key_score = 0 \/ \E k \in Keys : highest_key_score = value_scores[k].score
    /\ end_time => stops(highest_key_score, remaining_votes)

ResultInv == CertificateIsValid /\ TrustedErrorIsHonest /\ FailsOnlyWithoutQuorum

\* Once all honest validators have voted for the same value, the client gets the
\* certificate for it, whatever the others answer and however long they take.
HonestVotesSuffice ==
    \A k \in Keys :
        Honest \cap Asked \subseteq Who(k) ~> \E r \in result : "ok" \in DOMAIN r /\ r.ok = k

\* "If a key reaches a quorum or it becomes clear that no key can, wait for the grace
\* period": once no value can get a quorum, the client does not wait for those who
\* have not answered.
GivesUpWithoutQuorum ==
    (\A k \in Keys : Weight[Who(k) \cup Who(Waiting)] < quorum_threshold) ~> result # {}
=============================================================================
