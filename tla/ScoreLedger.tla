---------------------------- MODULE ScoreLedger -----------------------------
(***************************************************************************)
(* What scoring a job promises, whatever workers, retries, result files    *)
(* and crashes do: a score on the board is an answer some verification     *)
(* gave about exactly that key (or is the evaluation's own, or is marked   *)
(* missing), and while one run lasts each key has at most one answer,      *)
(* shown for every stage that has the key.                                 *)
(***************************************************************************)
EXTENDS Naturals, Sequences

CONSTANTS Trials, Keys, Answers

VARIABLES
    given,    \* the answers of verifications: a set of [key, answer]
    chosen,   \* the answer each key has in the run in progress
    board     \* board[t]: what is published of trial t

Answered(key, answer) == [key |-> key, answer |-> answer] \in given

LedgerInit ==
    /\ given = {}
    /\ chosen = [k \in {} |-> {}]
    /\ board = [t \in Trials |-> <<>>]

\* A run starts with answers given before.
Open ==
    /\ DOMAIN chosen = {}
    /\ \A k \in DOMAIN chosen' : Answered(k, chosen'[k])
    /\ UNCHANGED <<given, board>>

\* A verification answers; the answer may settle its key, once.
Give ==
    \E k \in Keys, a \in Answers :
        /\ given' = given \union {[key |-> k, answer |-> a]}
        /\ \/ UNCHANGED chosen
           \/ /\ k \notin DOMAIN chosen
              /\ chosen' = [j \in DOMAIN chosen \union {k} |->
                                IF j = k THEN a ELSE chosen[j]]
        /\ UNCHANGED board

\* A row of the board agrees with the run.
Honest(row) ==
    \/ row.score.source = "eval"
    \/ row.score.status = "missing" /\ row.key \notin DOMAIN chosen
    \/ /\ row.key \in DOMAIN chosen
       /\ [status |-> row.score.status, reward |-> row.score.reward] = chosen[row.key]

Publish ==
    \E t \in Trials :
        /\ \A u \in Trials \ {t} : board'[u] = board[u]
        /\ DOMAIN board' = Trials
        /\ \A i \in DOMAIN board'[t] : Honest(board'[t][i])
        /\ UNCHANGED <<given, chosen>>

\* A run ends or dies.
Close ==
    /\ DOMAIN chosen' = {}
    /\ UNCHANGED <<given, board>>

LedgerNext == Open \/ Give \/ Publish \/ Close

LedgerSpec == LedgerInit /\ [][LedgerNext]_<<given, chosen, board>>

=============================================================================
