------------------------------ MODULE GitopsSync ------------------------------
(***************************************************************************)
(* The Argo CD Applications of k8s/gitops and k8s/argocd, and what becomes *)
(* of the resources they stand for.                                        *)
(*                                                                         *)
(* A root Application applies the manifests of a directory, which are      *)
(* Applications again; these apply the workloads.  So there are two levels *)
(* of reconciliation: a child's own policy is a resource of its root.  One *)
(* tree is automated with prune and self-heal, the other is not, and one   *)
(* Application with a finalizer belongs to no tree.                        *)
(*                                                                         *)
(* Argo CD is not in the repository.  An operation works on the revision   *)
(* it was started with, wave by wave.  No Application has a retry policy:  *)
(* one whose operation failed is left alone, self-heal included, until     *)
(* there is another commit or somebody starts an operation by hand.        *)
(***************************************************************************)
EXTENDS Naturals

CONSTANTS
    Roots,     \* app-of-apps
    Children,  \* Applications in the roots' directories
    Lone,      \* Applications applied by hand
    Parent,    \* [Children -> Roots]
    Automated, \* the Applications with syncPolicy.automated, as committed
    Finalized, \* those with resources-finalizer.argocd.argoproj.io
    Late,      \* the children whose sync-wave is after the others'
    MaxActs    \* bound: what people do, and operations that fail

Apps == Roots \cup Children \cup Lone

Workloads == Children \cup Lone

ASSUME AppsAssumption ==
    /\ Roots \cap Workloads = {} /\ Children \cap Lone = {}
    /\ Parent \in [Children -> Roots]
    /\ Automated \subseteq Apps
    /\ Finalized \subseteq Apps /\ Finalized \cap Roots = {}
    /\ Late \subseteq Children

ASSUME ActsAssumption == MaxActs \in Nat

VARIABLES
    text,   \* the committed version of each workload
    listed, \* the children with a manifest on main
    policy, \* the Applications whose manifest says automated
    apps,   \* the Applications that exist
    auto,   \* those that are automated as they are now
    live,   \* what runs of each workload: a version, Gone, or Edited by hand
    op,     \* the operation of each Application
    stuck,  \* those whose last operation failed
    acts

vars == <<text, listed, policy, apps, auto, live, op, stuck, acts>>
main == <<text, listed, policy>>

Gone == 0
Versions == 1 .. MaxActs + 1
Edited == MaxActs + 2

Idle == [step |-> "idle", text |-> Gone, listed |-> {}, policy |-> {}]

Ops == [step : {"idle", "apply", "late", "prune"}, text : Versions \cup {Gone},
        listed : SUBSET Children, policy : SUBSET Apps]

TypeOK ==
    /\ text \in [Workloads -> Versions]
    /\ listed \in SUBSET Children
    /\ policy \in SUBSET Apps
    /\ apps \in SUBSET Apps
    /\ auto \in SUBSET apps
    /\ live \in [Workloads -> Versions \cup {Gone, Edited}]
    /\ op \in [Apps -> Ops]
    /\ stuck \in SUBSET apps
    /\ acts \in 0 .. MaxActs
    /\ \A a \in Apps :
          /\ op[a] # Idle => a \in apps
          /\ op[a].step \in {"late", "prune"} => a \in Roots
          /\ op[a].step # "idle" /\ a \in Workloads => op[a].text # Gone

\* kubectl apply of the roots and of the lone Applications, on a new cluster.
Init ==
    /\ text = [w \in Workloads |-> 1]
    /\ listed = Children
    /\ policy = Automated
    /\ apps = Roots \cup Lone
    /\ auto = (Roots \cup Lone) \cap Automated
    /\ live = [w \in Workloads |-> Gone]
    /\ op = [a \in Apps |-> Idle]
    /\ stuck = {}
    /\ acts = 0

-----------------------------------------------------------------------------
(* Comparing.                                                              *)

ChildrenOf(r) == {c \in Children : Parent[c] = r}

\* Fault: of a child, only whether it exists is compared.
RootDriftsByName(r) ==
    ChildrenOf(r) \cap apps # ChildrenOf(r) \cap listed

\* A child is missing, is to be pruned, or has another policy than committed.
RootDrifts(r) ==
    \/ ChildrenOf(r) \cap apps # ChildrenOf(r) \cap listed
    \/ \E c \in ChildrenOf(r) \cap apps : (c \in auto) # (c \in policy)

\* Fault: without selfHeal, what was changed by hand stays.
DriftsByCommit(a) ==
    IF a \in Roots THEN RootDrifts(a) ELSE live[a] \notin {text[a], Edited}

Drifts(a) == IF a \in Roots THEN RootDrifts(a) ELSE live[a] # text[a]

\* Argo CD does not prune everything an Application has (allowEmpty).
Prunable(a) == a \in Roots => ChildrenOf(a) \cap listed # {}

-----------------------------------------------------------------------------
(* Operations.                                                             *)

Begin(a) ==
    /\ a \in apps
    /\ op[a] = Idle
    /\ op' = [op EXCEPT ![a] =
          IF a \in Roots
          THEN [step |-> "apply", text |-> Gone, listed |-> listed, policy |-> policy]
          ELSE [step |-> "apply", text |-> text[a], listed |-> {}, policy |-> {}]]
    /\ UNCHANGED <<main, apps, auto, live, acts>>

\* syncPolicy.automated with selfHeal.
AutoSync(a) ==
    /\ a \in auto \ stuck
    /\ Drifts(a) /\ Prunable(a)
    /\ Begin(a)
    /\ UNCHANGED stuck

\* The button.
ManualSync(a) ==
    /\ Drifts(a)
    /\ Begin(a)
    /\ stuck' = stuck \ {a}

Step(a, s) == op' = [op EXCEPT ![a] = IF s = "idle" THEN Idle ELSE [@ EXCEPT !.step = s]]

ApplyWorkload(w) ==
    /\ op[w].step = "apply"
    /\ w \in Workloads
    /\ live' = [live EXCEPT ![w] = op[w].text]
    /\ Step(w, "idle")
    /\ UNCHANGED <<main, apps, auto, stuck, acts>>

\* One wave of the root's children.  The health of an Application is not
\* assessed, so that the next wave does not wait for anything.
ApplyChildren(r) ==
    /\ r \in Roots
    /\ op[r].step \in {"apply", "late"}
    /\ LET wave == {c \in ChildrenOf(r) \cap op[r].listed : (c \in Late) = (op[r].step = "late")}
       IN /\ apps' = apps \cup wave
          /\ auto' = (auto \ wave) \cup (wave \cap op[r].policy)
    /\ Step(r, IF op[r].step = "apply" THEN "late" ELSE "prune")
    /\ UNCHANGED <<main, live, stuck, acts>>

\* Fault: every Application has the finalizer.
RemoveAll(S) ==
    /\ apps' = apps \ S
    /\ auto' = auto \ S
    /\ stuck' = stuck \ S
    /\ live' = [w \in Workloads |-> IF w \in S THEN Gone ELSE live[w]]

\* An Application object that is deleted takes its resources along only when
\* it has the finalizer.
Remove(S) ==
    /\ apps' = apps \ S
    /\ auto' = auto \ S
    /\ stuck' = stuck \ S
    /\ live' = [w \in Workloads |-> IF w \in S \cap Finalized THEN Gone ELSE live[w]]

\* Fault: the operation of a child that goes is not ended.
PruneObjects(r) ==
    /\ r \in Roots
    /\ op[r].step = "prune"
    /\ Remove(ChildrenOf(r) \ op[r].listed)
    /\ Step(r, "idle")
    /\ UNCHANGED <<main, acts>>

\* prune comes last; an operation of a child that goes is over.
PruneChildren(r) ==
    /\ r \in Roots
    /\ op[r].step = "prune"
    /\ LET S == ChildrenOf(r) \ op[r].listed
       IN /\ Remove(S)
          /\ op' = [a \in Apps |-> IF a = r \/ a \in S THEN Idle ELSE op[a]]
    /\ UNCHANGED <<main, acts>>

-----------------------------------------------------------------------------
(* People, and what goes wrong.                                            *)

Act == acts < MaxActs /\ acts' = acts + 1

OpFails(a) ==
    /\ Act
    /\ op[a] # Idle
    /\ Step(a, "idle")
    /\ stuck' = stuck \cup {a}
    /\ UNCHANGED <<main, apps, auto, live>>

\* All manifests are in one repository: a commit is a new revision for every
\* Application.
Commit ==
    /\ Act
    /\ \/ \E w \in Workloads :
            text' = [text EXCEPT ![w] = @ + 1] /\ UNCHANGED <<listed, policy>>
       \/ \E c \in Children :
            listed' \in {listed \cup {c}, listed \ {c}} /\ UNCHANGED <<text, policy>>
       \/ \E c \in Children :
            policy' \in {policy \cup {c}, policy \ {c}} /\ UNCHANGED <<text, listed>>
    /\ stuck' = {}
    /\ UNCHANGED <<apps, auto, live, op>>

\* kubectl edit, or a script.
EditWorkload(w) ==
    /\ Act
    /\ live[w] # Gone
    /\ live' = [live EXCEPT ![w] = Edited]
    /\ UNCHANGED <<main, apps, auto, op, stuck>>

\* Automated sync is switched on or off for an Application as it is.
EditPolicy(a) ==
    /\ Act
    /\ a \in apps
    /\ auto' = IF a \in auto THEN auto \ {a} ELSE auto \cup {a}
    /\ UNCHANGED <<main, apps, live, op, stuck>>

\* kubectl delete of an Application.
DeleteApp(a) ==
    /\ Act
    /\ a \in apps
    /\ Remove({a})
    /\ op' = [op EXCEPT ![a] = Idle]
    /\ UNCHANGED main

\* kubectl apply of the manifest of a root or a lone Application.
ApplyApp(a) ==
    /\ Act
    /\ a \in Roots \cup Lone
    /\ apps' = apps \cup {a}
    /\ auto' = IF a \in policy THEN auto \cup {a} ELSE auto \ {a}
    /\ UNCHANGED <<main, live, op, stuck>>

-----------------------------------------------------------------------------

ArgoStep(a) ==
    \/ AutoSync(a)
    \/ a \in Workloads /\ ApplyWorkload(a)
    \/ ApplyChildren(a) \/ PruneChildren(a)

PeopleStep(a) ==
    \/ ManualSync(a) \/ OpFails(a) \/ EditPolicy(a) \/ DeleteApp(a) \/ ApplyApp(a)
    \/ a \in Workloads /\ EditWorkload(a)

Next ==
    \/ \E a \in Apps : ArgoStep(a) \/ PeopleStep(a)
    \/ Commit

Spec == Init /\ [][Next]_vars

\* The application controller goes on as long as there is something to do, in
\* any order. Nothing obliges anybody to synchronise by hand.
FairSpec == Spec /\ WF_vars(\E a \in Apps : ArgoStep(a))

-----------------------------------------------------------------------------
(* Properties.                                                             *)

\* The root reconciles its children: it is automated, and neither failed nor
\* about to prune all it has.
Reconciles(r) == r \in auto \ stuck /\ Prunable(r)

\* A root that reconciles has exactly the children that are committed, with the
\* policy that is committed, also the child of the last wave and one whose
\* self-heal somebody switched off for a repair; and each automated one that has
\* not failed itself runs what is committed.
Converged ==
    \A r \in Roots : Reconciles(r) =>
        /\ ChildrenOf(r) \cap apps = ChildrenOf(r) \cap listed
        /\ \A c \in ChildrenOf(r) \cap apps :
              /\ c \in auto <=> c \in policy
              /\ c \in auto \ stuck => live[c] = text[c]

\* When people stop, the cluster becomes and stays what git says.  What was
\* edited, deleted or committed before, and in the middle of which operations,
\* makes no difference.
Converges == <>[]Converged

\* The databases and queues stay: no manifest that is dropped from the
\* repository, no child that is deleted, no root that is deleted, and no
\* operation that fails half way removes the resources of a child.
ResourcesStay ==
    [][\A c \in Children : live[c] # Gone => live'[c] # Gone]_vars
=============================================================================
