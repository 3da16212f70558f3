-------------------------- MODULE PathPolicy_proofs --------------------------
(***************************************************************************)
(* What the rules of PathPolicy promise, for all paths, rules and          *)
(* policies.                                                               *)
(***************************************************************************)
EXTENDS PathPolicy, TLAPS

(* Case folding keeps the length of a path and yields a path. *)
LEMMA CaseFoldPath ==
    ASSUME NEW p \in Path
    PROVE  CaseFold(p) \in Path /\ Len(CaseFold(p)) = Len(p)
           /\ \A i \in 1..Len(p) : CaseFold(p)[i] = Fold[p[i]]
  BY FoldAssumption DEF CaseFold, Path

(* Being below is transitive (str.startswith of a prefix). *)
LEMMA BelowTransitive ==
    ASSUME NEW p \in Path, NEW q \in Path, NEW s \in Path, Below(p, q), Below(q, s)
    PROVE  Below(p, s)
  BY DEF Below, Path

(* Paths of one length that agree below a third one are equal. *)
LEMMA PathEquality ==
    ASSUME NEW p \in Path, NEW q \in Path, Len(p) = Len(q),
           \A i \in 1..Len(p) : p[i] = q[i]
    PROVE  p = q
  BY DEF Path

(* rule_covers_rule: what a covered rule reaches, the covering one reaches. *)
LEMMA CoversReach ==
    ASSUME NEW p \in Path, NEW allowed \in Rule, NEW r \in Rule,
           Covers(allowed, r), Matches(p, r)
    PROVE  Matches(p, allowed)
<1>1. CASE p = r.scope
  BY <1>1 DEF Covers
<1>2. CASE r.recursive /\ Below(p, r.scope)
  <2>1. allowed.recursive /\ Matches(r.scope, allowed)
    BY <1>2 DEF Covers
  <2>2. CASE r.scope = allowed.scope
    BY <1>2, <2>1, <2>2 DEF Matches
  <2>3. CASE Below(r.scope, allowed.scope)
    <3>1. Below(p, allowed.scope)
      BY <1>2, <2>3, BelowTransitive DEF Rule
    <3> QED BY <2>1, <3>1 DEF Matches
  <2> QED BY <2>1, <2>2, <2>3 DEF Matches
<1> QED BY <1>1, <1>2 DEF Matches

(* merge_allowlist: an override that does not widen a list allows exactly   *)
(* what both lists allow.                                                   *)
LEMMA AllowlistIntersection ==
    ASSUME NEW vault \in SUBSET Rule, NEW override \in SUBSET Rule,
           ~WidensList(vault, override), NEW p \in Path
    PROVE  LET merged == MergeAllowlist(vault, override)
               Allows(rules) == rules = {} \/ \E r \in rules : Matches(p, r)
           IN  Allows(merged) <=> Allows(vault) /\ Allows(override)
<1>1. CASE override = {}
  BY <1>1 DEF MergeAllowlist
<1>2. CASE override # {} /\ vault = {}
  BY <1>2 DEF MergeAllowlist
<1>3. CASE override # {} /\ vault # {}
  <2>1. ASSUME NEW r \in override, Matches(p, r)
        PROVE  \E allowed \in vault : Matches(p, allowed)
    <3>1. PICK allowed \in vault : Covers(allowed, r)
      BY <1>3 DEF WidensList
    <3>2. Matches(p, allowed)
      BY <2>1, <3>1, CoversReach
    <3> QED BY <3>2
  <2> QED BY <1>3, <2>1 DEF MergeAllowlist
<1> QED BY <1>1, <1>2, <1>3

(* merge_denylist: the merged list denies what one of the lists denies. *)
LEMMA DenylistUnion ==
    ASSUME NEW vault, NEW override, NEW p
    PROVE  Denied(p, MergeDenylist(vault, override))
             <=> Denied(p, vault) \/ Denied(p, override)
  BY DEF Denied, MergeDenylist

(* Merged policies are policies. *)
LEMMA MergedIsPolicy ==
    ASSUME NEW vault \in Policy, NEW override \in Policy
    PROVE  MergedWith(vault, override) \in Policy
  BY DEF MergedWith, Policy, MergeAllowlist, MergeDenylist

(* An override that passes _validate_override lets its identity read        *)
(* exactly what the vault's policy and the override both let it read.       *)
THEOREM MergedRead ==
    ASSUME NEW vault \in Policy, NEW override \in Policy,
           ~Widens(vault, override), NEW p \in Path
    PROVE  PermitsRead(p, MergedWith(vault, override), FALSE)
             <=> PermitsRead(p, vault, FALSE) /\ PermitsRead(p, override, FALSE)
<1>1. vault.read \in SUBSET Rule /\ override.read \in SUBSET Rule
  BY DEF Policy
<1>2. ~WidensList(vault.read, override.read)
  BY DEF Widens
<1> DEFINE Allows(rules) == rules = {} \/ \E r \in rules : Matches(p, r)
<1>3. Allows(MergeAllowlist(vault.read, override.read))
        <=> Allows(vault.read) /\ Allows(override.read)
  BY <1>1, <1>2, AllowlistIntersection
<1>4. \A rules : InReadScope(p, rules, FALSE) <=> Allows(rules)
  BY DEF InReadScope
<1>5. MergedWith(vault, override).read = MergeAllowlist(vault.read, override.read)
      /\ MergedWith(vault, override).denyRead
           = MergeDenylist(vault.denyRead, override.denyRead)
  BY DEF MergedWith
<1>6. Denied(p, MergeDenylist(vault.denyRead, override.denyRead))
        <=> Denied(p, vault.denyRead) \/ Denied(p, override.denyRead)
  BY DenylistUnion
<1>7. \A policy : PermitsRead(p, policy, FALSE)
        <=> Allows(policy.read) /\ ~Denied(p, policy.denyRead)
  BY <1>4 DEF PermitsRead
<1> HIDE DEF Allows
<1> QED BY <1>3, <1>5, <1>6, <1>7

(* The same for writing (resolve_write). *)
THEOREM MergedWrite ==
    ASSUME NEW vault \in Policy, NEW override \in Policy,
           ~Widens(vault, override), NEW p \in Path
    PROVE  PermitsWrite(p, MergedWith(vault, override))
             <=> PermitsWrite(p, vault) /\ PermitsWrite(p, override)
<1>1. vault.write \in SUBSET Rule /\ override.write \in SUBSET Rule
  BY DEF Policy
<1>2. ~WidensList(vault.write, override.write)
  BY DEF Widens
<1> DEFINE Allows(rules) == rules = {} \/ \E r \in rules : Matches(p, r)
<1>3. Allows(MergeAllowlist(vault.write, override.write))
        <=> Allows(vault.write) /\ Allows(override.write)
  BY <1>1, <1>2, AllowlistIntersection
<1>4. \A policy : PermitsWrite(p, policy)
        <=> ~policy.readOnly /\ Allows(policy.write) /\ ~Denied(p, policy.denyWrite)
  BY DEF PermitsWrite
<1>5. /\ MergedWith(vault, override).write = MergeAllowlist(vault.write, override.write)
      /\ MergedWith(vault, override).denyWrite
           = MergeDenylist(vault.denyWrite, override.denyWrite)
      /\ MergedWith(vault, override).readOnly = (vault.readOnly \/ override.readOnly)
  BY DEF MergedWith
<1> HIDE DEF Allows
<1> QED BY <1>3, <1>4, <1>5, DenylistUnion

(* Folding both sides can only add matches (_denied). *)
LEMMA FoldedMatches ==
    ASSUME NEW p \in Path, NEW r \in Rule, Matches(p, r)
    PROVE  Matches(CaseFold(p), FoldedRule(r))
<1>1. r.scope \in Path
  BY DEF Rule
<1>2. CASE p = r.scope
  BY <1>2 DEF Matches, FoldedRule
<1>3. CASE r.recursive /\ Below(p, r.scope)
  <2>1. Below(CaseFold(p), CaseFold(r.scope))
    <3>1. Len(CaseFold(r.scope)) < Len(CaseFold(p))
      BY <1>1, <1>3, CaseFoldPath DEF Below
    <3>2. ASSUME NEW i \in 1..Len(CaseFold(r.scope))
          PROVE  CaseFold(p)[i] = CaseFold(r.scope)[i]
      <4>1. i \in 1..Len(r.scope) /\ i \in 1..Len(p)
        BY <1>1, <1>3, CaseFoldPath DEF Below, Path
      <4> QED BY <1>1, <1>3, <4>1, CaseFoldPath DEF Below
    <3> QED BY <3>1, <3>2 DEF Below
  <2> QED BY <1>3, <2>1 DEF Matches, FoldedRule
<1> QED BY <1>2, <1>3 DEF Matches

(* A path that is not denied has no spelling that a deny rule names. *)
THEOREM AliasesAreDenied ==
    ASSUME NEW p \in Path, NEW alias \in Path, NEW rules \in SUBSET Rule,
           CaseFold(alias) = CaseFold(p), ~Denied(p, rules), NEW r \in rules
    PROVE  ~Matches(alias, r)
  BY FoldedMatches DEF Denied

(* A deny rule on a folder that is recursive denies what is below it. *)
LEMMA DeniedBelow ==
    ASSUME NEW p \in Path, NEW q \in Path, NEW r \in Rule, r.recursive,
           Below(p, q), Matches(CaseFold(q), FoldedRule(r))
    PROVE  Matches(CaseFold(p), FoldedRule(r))
<1>1. r.scope \in Path /\ FoldedRule(r).recursive /\ FoldedRule(r).scope = CaseFold(r.scope)
  BY DEF Rule, FoldedRule
<1>2. /\ CaseFold(p) \in Path /\ CaseFold(q) \in Path /\ CaseFold(r.scope) \in Path
      /\ Len(CaseFold(p)) = Len(p) /\ Len(CaseFold(q)) = Len(q)
  BY <1>1, CaseFoldPath
<1>3. Below(CaseFold(p), CaseFold(q))
  <2>1. ASSUME NEW i \in 1..Len(CaseFold(q))
        PROVE  CaseFold(p)[i] = CaseFold(q)[i]
    <3>1. i \in 1..Len(q) /\ i \in 1..Len(p)
      BY <1>2 DEF Below, Path
    <3> QED BY <3>1, CaseFoldPath DEF Below
  <2> QED BY <1>2, <2>1 DEF Below
<1>4. CASE CaseFold(q) = CaseFold(r.scope)
  BY <1>1, <1>3, <1>4 DEF Matches
<1>5. CASE Below(CaseFold(q), CaseFold(r.scope))
  <2>1. Below(CaseFold(p), CaseFold(r.scope))
    BY <1>2, <1>3, <1>5, BelowTransitive
  <2> QED BY <1>1, <2>1 DEF Matches
<1> QED BY <1>1, <1>4, <1>5 DEF Matches

(* A folder above a path that a read list allows passes the list when       *)
(* ancestors may pass (_read_scope_allows).                                 *)
LEMMA AncestorInScope ==
    ASSUME NEW p \in Path, NEW q \in Path, NEW rules \in SUBSET Rule,
           Below(p, q), InReadScope(p, rules, FALSE)
    PROVE  InReadScope(q, rules, TRUE)
<1>1. CASE rules = {}
  BY <1>1 DEF InReadScope
<1>2. CASE rules # {}
  <2>1. PICK r \in rules : Matches(p, r)
    BY <1>2 DEF InReadScope
  <2>2. r \in Rule /\ r.scope \in Path
    BY DEF Rule
  <2>3. CASE p = r.scope
    BY <2>3 DEF InReadScope
  <2>4. CASE r.recursive /\ Below(p, r.scope)
    <3>1. Len(q) \in Nat /\ Len(r.scope) \in Nat /\ Len(p) \in Nat
      BY <2>2 DEF Path
    <3>2. CASE Len(q) < Len(r.scope)
      <4>1. Below(r.scope, q)
        BY <2>4, <3>1, <3>2 DEF Below
      <4> QED BY <4>1 DEF InReadScope
    <3>3. CASE Len(q) = Len(r.scope)
      <4>1. q = r.scope
        BY <2>2, <2>4, <3>3, PathEquality DEF Below
      <4> QED BY <4>1 DEF InReadScope, Matches
    <3>4. CASE Len(r.scope) < Len(q)
      <4>1. Below(q, r.scope)
        BY <2>4, <3>1, <3>4 DEF Below
      <4> QED BY <2>4, <4>1 DEF InReadScope, Matches
    <3>5. Len(q) < Len(r.scope) \/ Len(q) = Len(r.scope) \/ Len(r.scope) < Len(q)
      BY <3>1
    <3> QED BY <3>2, <3>3, <3>4, <3>5
  <2> QED BY <2>1, <2>3, <2>4 DEF Matches
<1> QED BY <1>1, <1>2

(* A folder above a readable path can be entered unless an exact deny rule  *)
(* names it.                                                                *)
LEMMA AncestorsReadable ==
    ASSUME NEW p \in Path, NEW q \in Path, NEW policy \in Policy, Below(p, q),
           PermitsRead(p, policy, FALSE),
           \A r \in policy.denyRead : r.recursive \/ CaseFold(r.scope) # CaseFold(q)
    PROVE  PermitsRead(q, policy, TRUE)
<1>1. policy.read \in SUBSET Rule /\ policy.denyRead \in SUBSET Rule
  BY DEF Policy
<1>2. InReadScope(q, policy.read, TRUE)
  BY <1>1, AncestorInScope DEF PermitsRead
<1>3. ASSUME NEW r \in policy.denyRead, Matches(CaseFold(q), FoldedRule(r))
      PROVE  FALSE
  <2>1. r \in Rule /\ r.scope \in Path
    BY <1>1 DEF Rule
  <2>2. CASE r.recursive
    BY <1>3, <2>1, <2>2, DeniedBelow DEF PermitsRead, Denied
  <2>3. CASE ~r.recursive
    BY <1>3, <2>3 DEF Matches, FoldedRule
  <2> QED BY <2>2, <2>3
<1> QED BY <1>2, <1>3 DEF PermitsRead, Denied

(* list_files yields every readable file below the folder, whatever the     *)
(* allowlist is, unless an exact deny rule names a folder on the way.       *)
THEOREM DiscoveryComplete ==
    ASSUME NEW folder \in Path, NEW p \in Path, NEW policy \in Policy, Below(p, folder),
           PermitsRead(p, policy, FALSE),
           \A k \in Len(folder)..(Len(p) - 1) : \A r \in policy.denyRead :
              r.recursive \/ CaseFold(r.scope) # CaseFold(SubSeq(p, 1, k))
    PROVE  Discovers(folder, p, policy)
<1>1. PermitsRead(folder, policy, TRUE)
  <2>1. Len(folder) \in Nat /\ Len(p) \in Nat /\ Len(folder) < Len(p)
    BY DEF Path, Below
  <2>2. Len(folder) \in Len(folder)..(Len(p) - 1)
    BY <2>1
  <2>3. SubSeq(p, 1, Len(folder)) \in Path /\ Len(SubSeq(p, 1, Len(folder))) = Len(folder)
        /\ \A i \in 1..Len(folder) : SubSeq(p, 1, Len(folder))[i] = p[i]
    BY <2>1 DEF Path
  <2>4. SubSeq(p, 1, Len(folder)) = folder
    BY <2>3, PathEquality DEF Below
  <2> QED BY <2>2, <2>4, AncestorsReadable
<1>2. ASSUME NEW k \in (Len(folder) + 1)..(Len(p) - 1)
      PROVE  PermitsRead(SubSeq(p, 1, k), policy, TRUE)
  <2>1. Len(p) \in Nat /\ Len(folder) \in Nat /\ k \in Nat /\ k < Len(p)
    BY DEF Path
  <2>2. SubSeq(p, 1, k) \in Path /\ Len(SubSeq(p, 1, k)) = k
        /\ \A i \in 1..k : SubSeq(p, 1, k)[i] = p[i]
    BY <2>1 DEF Path
  <2>3. Below(p, SubSeq(p, 1, k))
    BY <2>1, <2>2 DEF Below
  <2>4. k \in Len(folder)..(Len(p) - 1)
    BY <2>1
  <2> QED BY <2>2, <2>3, <2>4, AncestorsReadable
<1> QED BY <1>1, <1>2 DEF Discovers
==============================================================================
