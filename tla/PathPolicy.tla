----------------------------- MODULE PathPolicy -----------------------------
(***************************************************************************)
(* The rules of storage/policy.py: which canonical vault paths a policy    *)
(* lets a caller read, write and discover, and how the policy of a vault   *)
(* is merged with the override an identity has for it.                     *)
(*                                                                         *)
(* A path is the sequence of its components and the vault root is empty,   *)
(* so that a string prefix that ends in "/" is a proper prefix here.       *)
(***************************************************************************)
EXTENDS Naturals, Sequences

CONSTANTS
    Component,   \* names of files and folders
    Fold         \* str.casefold

ASSUME FoldAssumption ==
    /\ Fold \in [Component -> Component]
    /\ \A c \in Component : Fold[Fold[c]] = Fold[c]

Path == Seq(Component)
Root == << >>

(* A rule that ends in "/" is recursive; the others name one exact path. *)
Rule == [scope : Path \ {Root}, recursive : BOOLEAN]

(* The rule lists of one vault.  An empty read or write list is no          *)
(* restriction at all.  An override has the same fields: an empty one is a  *)
(* field that was left out and inherits the vault's.                        *)
Policy == [readOnly : BOOLEAN,
           read : SUBSET Rule, write : SUBSET Rule,
           denyRead : SUBSET Rule, denyWrite : SUBSET Rule]

Inherit == [readOnly |-> FALSE, read |-> {}, write |-> {},
            denyRead |-> {}, denyWrite |-> {}]

-----------------------------------------------------------------------------
(* Matching *)

CaseFold(p) == [i \in 1..Len(p) |-> Fold[p[i]]]

Below(p, scope) ==
    /\ Len(scope) < Len(p)
    /\ \A i \in 1..Len(scope) : p[i] = scope[i]

Matches(p, r) == p = r.scope \/ (r.recursive /\ Below(p, r.scope))

FoldedRule(r) == [scope |-> CaseFold(r.scope), recursive |-> r.recursive]

(* A mutant: the comparison of deny rules is case sensitive. *)
DeniedAsSpelt(p, rules) == \E r \in rules : Matches(p, r)

Denied(p, rules) == \E r \in rules : Matches(CaseFold(p), FoldedRule(r))

(* A mutant: an allowlist hides the folders on the way to its scopes. *)
InScopeOnly(p, rules, ancestor) == rules = {} \/ \E r \in rules : Matches(p, r)

(* _read_scope_allows: with ancestor set, a folder on the way to a scope    *)
(* passes too, so that discovery can reach the scope.                       *)
InReadScope(p, rules, ancestor) ==
    \/ rules = {}
    \/ \E r \in rules : Matches(p, r) \/ (ancestor /\ Below(r.scope, p))

PermitsRead(p, policy, ancestor) ==
    /\ InReadScope(p, policy.read, ancestor)
    /\ ~Denied(p, policy.denyRead)

PermitsWrite(p, policy) ==
    /\ ~policy.readOnly
    /\ policy.write = {} \/ \E r \in policy.write : Matches(p, r)
    /\ ~Denied(p, policy.denyWrite)

(* The walk of list_files from a folder yields file p: the folder itself    *)
(* may be listed and no folder on the way down is turned away.              *)
Discovers(folder, p, policy) ==
    /\ PermitsRead(folder, policy, TRUE)
    /\ Below(p, folder)
    /\ \A n \in (Len(folder) + 1)..(Len(p) - 1) :
          PermitsRead(SubSeq(p, 1, n), policy, TRUE)
    /\ PermitsRead(p, policy, FALSE)

-----------------------------------------------------------------------------
(* Merging *)

(* A mutant: only the scopes are compared, not what a rule reaches. *)
CoversScope(allowed, r) == Matches(r.scope, allowed)

Covers(allowed, r) ==
    /\ r.recursive => allowed.recursive
    /\ Matches(r.scope, allowed)

(* merge_allowlist raises PolicyMergeError: some rule of the override       *)
(* reaches outside every rule of the vault.                                 *)
WidensList(vault, override) ==
    /\ vault # {}
    /\ \E r \in override : \A allowed \in vault : ~Covers(allowed, r)

Widens(vault, override) ==
    \/ WidensList(vault.read, override.read)
    \/ WidensList(vault.write, override.write)

MergeAllowlist(vault, override) == IF override = {} THEN vault ELSE override

MergeDenylist(vault, override) == vault \cup override

MergedWith(vault, override) ==
    [readOnly  |-> vault.readOnly \/ override.readOnly,
     read      |-> MergeAllowlist(vault.read, override.read),
     write     |-> MergeAllowlist(vault.write, override.write),
     denyRead  |-> MergeDenylist(vault.denyRead, override.denyRead),
     denyWrite |-> MergeDenylist(vault.denyWrite, override.denyWrite)]
==============================================================================
