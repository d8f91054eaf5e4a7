------------------------------ MODULE Delivery ------------------------------
(***************************************************************************)
(* What the review loop promises the rest of the trial, without turns,     *)
(* retries, rollbacks or time: there is one trusted commit; a verdict is   *)
(* about the trusted commit; the trusted commit is replaced only before    *)
(* the first review or in answer to a blocking verdict on it; and what is  *)
(* shipped is the trusted commit, approved only with a clean verdict.      *)
(* Breakdown is the one exception: an infrastructure failure ships HEAD,   *)
(* whatever that is.                                                       *)
(***************************************************************************)
EXTENDS Naturals

CONSTANTS Commits, NoCommit, RootCommit, MaxReviews

VARIABLES trusted, verdict, reviews, shipped

deliveryVars == <<trusted, verdict, reviews, shipped>>

Nothing == [how |-> "nothing", commit |-> NoCommit]
Open == shipped = Nothing

DeliveryInit ==
    /\ trusted = NoCommit
    /\ verdict = "none"
    /\ reviews = 0
    /\ shipped = Nothing

\* A commit becomes trusted, and no verdict is known about it.
Adopt ==
    /\ Open
    /\ reviews = 0 \/ verdict = "blocking"
    /\ trusted' \in Commits
    /\ verdict' = "none"
    /\ UNCHANGED <<reviews, shipped>>

Judge(v) ==
    /\ Open
    /\ verdict = "none"
    /\ reviews < MaxReviews
    /\ verdict' = v
    /\ reviews' = reviews + 1
    /\ UNCHANGED <<trusted, shipped>>

Ship(how) ==
    /\ Open
    /\ how = "approved" <=> verdict = "clean"
    /\ shipped' = [how |-> how, commit |-> trusted]
    /\ UNCHANGED <<trusted, verdict, reviews>>

Breakdown ==
    /\ Open
    /\ trusted \notin {NoCommit, RootCommit}
    /\ shipped' \in [how : {"infrastructure"}, commit : Commits]
    /\ UNCHANGED <<trusted, verdict, reviews>>

Withhold ==
    /\ Open
    /\ shipped' = [how |-> "withheld", commit |-> NoCommit]
    /\ UNCHANGED <<trusted, verdict, reviews>>

DeliveryNext ==
    \/ Adopt
    \/ \E v \in {"blocking", "clean"} : Judge(v)
    \/ \E how \in {"approved", "max_reviews_reached", "degraded"} : Ship(how)
    \/ Breakdown \/ Withhold

DeliverySpec == DeliveryInit /\ [][DeliveryNext]_deliveryVars
=============================================================================
