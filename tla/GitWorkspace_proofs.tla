------------------------ MODULE GitWorkspace_proofs -------------------------
(***************************************************************************)
(* What the operators on the repository return, for every repository: the  *)
(* lemmas both engines lean on.                                            *)
(***************************************************************************)
EXTENDS GitWorkspace, TLAPS

(***************************************************************************)
(* The workspace operators return repositories.                            *)
(***************************************************************************)

LEMMA WorkspaceTypes ==
    ASSUME NEW r \in Repository, NEW c \in Commit, NEW t \in Nat
    PROVE  /\ StageAllExcept(r) \in Repository
           /\ CommitIndex(r, t) \in Repository
           /\ HardReset(r, c) \in Repository
           /\ RemoveFresh(r) \in Repository
           /\ StrayWrite(r, t) \in Repository
  BY DEF Repository, Commit, Tree, Item, StageAllExcept, CommitIndex, HardReset,
         RemoveFresh, StrayWrite

LEMMA RootCommitType == RootCommit \in Commit
  BY DEF RootCommit, Commit, Tree, Item

\* The case split of AgentEffects, in a form the provers can use: what each habit does.
LEMMA AgentEffectsCases ==
    ASSUME NEW r, NEW t, NEW q \in AgentEffects(r, t)
    PROVE  \E w \in {r.work, r.work \union {t}, {}} :
             \/ q = [r EXCEPT !.work = w]
             \/ q = [r EXCEPT !.index = w, !.work = w]
             \/ q = [head |-> [by |-> "modifier", turn |-> t, tree |-> w],
                     index |-> w, work |-> w]
             \/ q = [head |-> [by |-> "modifier", turn |-> t, tree |-> w \ {BaseFile}],
                     index |-> w \ {BaseFile}, work |-> w]
             \/ q = HardReset(r, RootCommit)
  BY HabitsAssumption DEF AgentEffects

LEMMA AgentEffectsType ==
    ASSUME NEW r \in Repository, NEW t \in Nat, NEW q \in AgentEffects(r, t)
    PROVE  q \in Repository
<1>1. PICK w \in {r.work, r.work \union {t}, {}} :
             \/ q = [r EXCEPT !.work = w]
             \/ q = [r EXCEPT !.index = w, !.work = w]
             \/ q = [head |-> [by |-> "modifier", turn |-> t, tree |-> w],
                     index |-> w, work |-> w]
             \/ q = [head |-> [by |-> "modifier", turn |-> t, tree |-> w \ {BaseFile}],
                     index |-> w \ {BaseFile}, work |-> w]
             \/ q = HardReset(r, RootCommit)
  BY AgentEffectsCases
<1>2. w \in Tree
  BY DEF Repository, Tree, Item
<1>3. HardReset(r, RootCommit) \in Repository
  BY WorkspaceTypes, RootCommitType
<1>4. /\ w \ {BaseFile} \in Tree
      /\ \A tree \in Tree : [by |-> "modifier", turn |-> t, tree |-> tree] \in Commit
  BY <1>2 DEF Tree, Commit
<1>5. \A h \in Commit, i \in Tree, d \in Tree :
         [head |-> h, index |-> i, work |-> d] \in Repository
  BY DEF Repository
<1>6. CASE q = [r EXCEPT !.work = w]
  BY <1>2, <1>6 DEF Repository
<1>7. CASE q = [r EXCEPT !.index = w, !.work = w]
  BY <1>2, <1>7 DEF Repository
<1>8. CASE q = [head |-> [by |-> "modifier", turn |-> t, tree |-> w], index |-> w, work |-> w]
  BY <1>2, <1>4, <1>5, <1>8
<1>9. CASE q = [head |-> [by |-> "modifier", turn |-> t, tree |-> w \ {BaseFile}],
                index |-> w \ {BaseFile}, work |-> w]
  BY <1>2, <1>4, <1>5, <1>9
<1>10. QED
  BY <1>1, <1>3, <1>6, <1>7, <1>8, <1>9

LEMMA CleanCheckoutsType ==
    CleanCheckouts \subseteq Repository
  BY RootCommitType DEF CleanCheckouts, Repository, Tree, Item

\* What one modifier turn can do to HEAD, and to the items anywhere in the repository.
LEMMA AgentTouches ==
    ASSUME NEW r \in Repository, NEW t \in Nat, NEW q \in AgentEffects(r, t)
    PROVE  /\ q.head \in {r.head, RootCommit} \/ (q.head.by = "modifier" /\ q.head.turn = t)
           /\ q.head.tree \union q.index \union q.work
                \subseteq r.head.tree \union r.index \union r.work \union {t}
<1>1. PICK w \in {r.work, r.work \union {t}, {}} :
             \/ q = [r EXCEPT !.work = w]
             \/ q = [r EXCEPT !.index = w, !.work = w]
             \/ q = [head |-> [by |-> "modifier", turn |-> t, tree |-> w],
                     index |-> w, work |-> w]
             \/ q = [head |-> [by |-> "modifier", turn |-> t, tree |-> w \ {BaseFile}],
                     index |-> w \ {BaseFile}, work |-> w]
             \/ q = HardReset(r, RootCommit)
  BY AgentEffectsCases
<1>2. w \subseteq r.work \union {t}
  OBVIOUS
<1>3. CASE q = [r EXCEPT !.work = w] \/ q = [r EXCEPT !.index = w, !.work = w]
  BY <1>2, <1>3 DEF Repository
<1>4. CASE q = [head |-> [by |-> "modifier", turn |-> t, tree |-> w], index |-> w, work |-> w]
  BY <1>2, <1>4
<1>5. CASE q = [head |-> [by |-> "modifier", turn |-> t, tree |-> w \ {BaseFile}],
                index |-> w \ {BaseFile}, work |-> w]
  BY <1>2, <1>5
<1>6. CASE q = HardReset(r, RootCommit)
  BY <1>6 DEF HardReset, RootCommit
<1> QED
  BY <1>1, <1>3, <1>4, <1>5, <1>6
=============================================================================
