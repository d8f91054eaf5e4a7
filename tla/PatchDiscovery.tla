--------------------------- MODULE PatchDiscovery ---------------------------
(***************************************************************************)
(* discover_trial_patches of patch_discovery.py: what a trial directory    *)
(* says happened, checked against itself, and mapped to the stages whose   *)
(* patches are scored.  One function of one directory; the directories     *)
(* come from EngineDiscovery, where the review loop writes them.           *)
(*                                                                         *)
(* A directory is a record:                                                *)
(*   missing     the documents and fields that are absent or malformed     *)
(*   outcome, degraded, reviewCount, revisionCount, checkpoints            *)
(*               what summary.json says (checkpoints: how many it lists)   *)
(*   rounds      the round directories in the order of their numbers, each *)
(*               [number, kind, role, last, patch]: role and last are      *)
(*               "none" where there is no metadata.json; last is the       *)
(*               status of the last attempt; patch is a file               *)
(*   final, model   final/patch.diff and artifacts/model.patch, as files   *)
(* A file is {} where it does not exist and {content} where it does.       *)
(***************************************************************************)
EXTENDS Naturals, FiniteSets, Sequences

CONSTANT EmptyPatch   \* the content of an empty patch

Fields == {"result.json", "config", "collab plan", "task", "task checksum", "summary.json",
           "summary result", "base commit", "counts"}

DeliverableOutcomes == {"approved", "max_reviews_reached", "degraded"}
CompletedProtocolOutcomes == {"approved", "max_reviews_reached"}

IsEmpty(file) == file \in {{}, {EmptyPatch}}

\* The rounds of some kinds, by their position.
Of(t, kinds) == {i \in DOMAIN t.rounds : t.rounds[i].kind \in kinds}
Reviews(t) == Of(t, {"review"})
Revisions(t) == Of(t, {"revise", "final-revision"})
\* Review rounds with a patch to score.
Patched(t) == {i \in Reviews(t) : ~IsEmpty(t.rounds[i].patch)}

\* The n-th of some positions.
Nth(S, n) == CHOOSE i \in S : Cardinality({j \in S : j <= i}) = n

RoundSucceeded(r) == r.last = "success"

LastNumber(t) == t.rounds[Len(t.rounds)].number
Terminal(t, r) == r.number = LastNumber(t)

\* _round_entries: every directory is a known kind and the first is 00-modify.
RoundEntries(t) ==
    /\ \A i \in DOMAIN t.rounds : t.rounds[i].kind \in {"modify", "review", "revise", "final-revision"}
    /\ t.rounds # <<>> => t.rounds[1].number = 0 /\ t.rounds[1].kind = "modify"

\* No checkpoint was recorded: nothing to pair, and nothing may suggest otherwise.
NothingProducedMutant(t) == Reviews(t) = {} /\ Revisions(t) = {}
NothingProduced(t) ==
    /\ Reviews(t) = {} /\ Revisions(t) = {}
    /\ IsEmpty(t.final) /\ IsEmpty(t.model)

\* A review round has reviewer metadata, or none at all if it is where a degraded
\* trial stopped; and it has a patch.
ReviewRoundSound(t, r) ==
    /\ IF r.role = "none" THEN t.degraded /\ Terminal(t, r) ELSE r.role = "reviewer"
    /\ ~IsEmpty(r.patch)

\* A review may have been cut short after its patch was taken, never the reverse.
ReviewsCountedMutant(t) == Cardinality(Patched(t)) = t.reviewCount
ReviewsCounted(t) == Cardinality(Patched(t)) \in t.reviewCount .. t.reviewCount + 1

\* Revisions that succeeded are the ones counted; one that did not is the last round.
RevisionsCounted(t) ==
    LET interrupted == {i \in Revisions(t) : ~RoundSucceeded(t.rounds[i])} IN
    /\ Cardinality(Revisions(t) \ interrupted) = t.revisionCount
    /\ Cardinality(interrupted) <= 1
    /\ \A i \in interrupted : Terminal(t, t.rounds[i])

FinalIsGraded(t) == t.final = t.model

\* Everything a trial with a checkpoint must satisfy before its stages are mapped.
Consistent(t) ==
    /\ Reviews(t) # {}
    /\ t.final # {} /\ t.model # {}
    /\ \A i \in Reviews(t) : ReviewRoundSound(t, t.rounds[i])
    /\ \A i \in Revisions(t) : t.rounds[i].role = "modifier"
    /\ ReviewsCounted(t)
    /\ RevisionsCounted(t)
    /\ t.outcome \in DeliverableOutcomes
    /\ FinalIsGraded(t)
    /\ ~IsEmpty(t.final)

\* The first review's patch is the initial stage, each later one the revision before
\* it, and the final patch comes last.
StagePatches(t) ==
    [n \in 1..Cardinality(Patched(t)) |-> t.rounds[Nth(Patched(t), n)].patch] \o <<t.final>>

\* add_stage: the earliest stage with the same content scores for it.
AliasOf(p, i) == CHOOSE j \in 1..i : p[j] = p[i] /\ \A k \in 1..(j - 1) : p[k] # p[i]
Stages(t) ==
    LET p == StagePatches(t) IN
    [i \in DOMAIN p |-> [patch |-> p[i], parent |-> i - 1,
                         changed |-> i = 1 \/ p[i] # p[i - 1],
                         aliasOf |-> AliasOf(p, i)]]

ChangedAfterInitial(t) == Cardinality({i \in DOMAIN Stages(t) : i > 1 /\ Stages(t)[i].changed})

Completed(t) ==
    /\ t.outcome \in CompletedProtocolOutcomes
    /\ \A i \in Reviews(t) \union Revisions(t) : RoundSucceeded(t.rounds[i])

Refused == [verdict |-> "refused", stages |-> <<>>, completed |-> FALSE]

\* discover_trial_patches: a LayoutError, a trial with nothing to pair, or its stages.
Discover(t) ==
    CASE t.missing # {} \/ ~RoundEntries(t) -> Refused
      [] t.missing = {} /\ RoundEntries(t) /\ t.checkpoints = 0 ->
            IF NothingProduced(t)
              THEN [verdict |-> "ineligible", stages |-> <<>>, completed |-> FALSE]
              ELSE Refused
      [] OTHER ->
            IF Consistent(t) /\ ChangedAfterInitial(t) <= t.revisionCount
              THEN [verdict |-> "eligible", stages |-> Stages(t), completed |-> Completed(t)]
              ELSE Refused
=============================================================================
