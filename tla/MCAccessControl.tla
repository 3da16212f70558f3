--------------------------- MODULE MCAccessControl ---------------------------
(***************************************************************************)
(* Small instances of AccessControl.  "a" is a folder with two files and a *)
(* folder "b", upper is "a" in another case, and dot names a hidden file.  *)
(* The file in "b" links to the one in the root over the file in "a", by   *)
(* path and by stem, and all three of them have the stem.                  *)
(***************************************************************************)
EXTENDS AccessControl, TLC

CONSTANTS a, upper, b, n, stem, dot, v1, v2, key1, login, c1, c2

MCComponent == {a, upper, b, n, stem, dot}
MCFold == [c \in Component |-> IF c = upper THEN a ELSE c]
MCFiles == {<<n>>, <<a, n>>, <<a, dot>>, <<a, b, n>>}
MCBase == [c \in Component |-> IF c = n THEN stem ELSE c]
MCLinkTargets == [f \in Files |-> IF f = <<a, b, n>> THEN {<<a, stem>>}
                                  ELSE IF f = <<a, n>> THEN {<<stem>>} ELSE {}]
MCAliases == [f \in Files |-> {}]
MCDepths == {1, 2}
NoDepths == {}
MCTargets == {<< >>, <<a>>, <<a, b>>, <<n>>, <<a, n>>, <<a, b, n>>,
              <<upper>>, <<upper, n>>, <<upper, b, n>>}
FewFiles == {<<a, n>>, <<a, b, n>>}
FewTargets == {<<a, n>>, <<a, b>>}
MCDotted == {dot}
MCApproved == {n}

OneVault == {v1}
TwoVaults == {v1, v2}
OneKey == {key1}
KeysAndLogin == {key1, login}
OneCall == {c1}
TwoCalls == {c1, c2}
MCTtls == {-1, 9}
OneTtl == {1}

Symmetry == Permutations(Call)

Tree(scope) == [scope |-> scope, recursive |-> TRUE]
Exact(scope) == [scope |-> scope, recursive |-> FALSE]

(* One vault and one identity: every pairing of a policy and an override in *)
(* which the same lists apply to reading and to writing.                    *)
AllowLists == {{}, {Tree(<<a>>)}, {Tree(<<a, b>>)}, {Exact(<<a, b>>)},
               {Exact(<<a, n>>), Tree(<<a, b>>)}}
DenyLists == {{}, {Tree(<<upper, b>>)}, {Exact(<<a, n>>), Exact(<<upper, b>>)}}

Lists(allow, deny, readOnly) ==
    [readOnly |-> readOnly, read |-> allow, write |-> allow,
     denyRead |-> deny, denyWrite |-> deny]

PairOf(base, override) ==
    [base |-> [v \in Vault |-> base], allowed |-> [i \in Identity |-> Vault],
     default |-> [i \in Identity |-> NoVault],
     override |-> [i \in Identity |-> [v \in Vault |-> override]],
     first |-> v1]

PolicyPairs ==
    {PairOf(Lists(ba, bd, FALSE), Lists(oa, od, ro)) :
        ba \in AllowLists, bd \in DenyLists,
        oa \in AllowLists, od \in DenyLists, ro \in BOOLEAN}

(* Two vaults.  From one start to the next the first identity may lose the  *)
(* second vault, be narrowed and get another default; the second one only   *)
(* ever has its own vault.                                                  *)
Narrowed == Lists({Tree(<<a, b>>)}, {}, FALSE)

TwoVaultConfig(vaults, override) ==
    [base |-> [v \in Vault |-> Lists(IF v = v1 THEN {} ELSE {Tree(<<a>>)}, {}, FALSE)],
     allowed |-> [i \in Identity |-> IF i = key1 THEN vaults ELSE {v2}],
     default |-> [i \in Identity |-> NoVault],
     override |-> [i \in Identity |-> [v \in Vault |->
                     IF i = key1 THEN override ELSE Inherit]],
     first |-> v1]

Restarts == {TwoVaultConfig({v1, v2}, Narrowed),
             TwoVaultConfig({v1}, Inherit)}
==============================================================================
