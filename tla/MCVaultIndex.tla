---------------------------- MODULE MCVaultIndex ----------------------------
(***************************************************************************)
(* Small instances of VaultIndex: two notes that share a stem, a content   *)
(* that links to that stem and has a tag, one that has an alias, and one   *)
(* that cannot be read.                                                    *)
(***************************************************************************)
EXTENDS VaultIndex, TLC

CONSTANTS n1, n2, plain, linked, locked, stem, other, tag, u1, u2

MCNotes == {n1, n2}
MCHidden == {n2}
MCContents == {plain, linked, locked}
MCTexts == {plain, linked}
MCUnreadable == {locked}
MCNames == {stem, other}
MCTags == {tag}
MCStemOf == [n \in Notes |-> stem]
MCLinksOf == [c \in Contents |-> IF c = linked THEN {stem, other} ELSE {other}]
MCTagsOf == [c \in Contents |-> IF c = linked THEN {tag} ELSE {}]
MCAliasesOf == [c \in Contents |-> IF c = plain THEN {other} ELSE {}]
MCUpdaters == {u1, u2}
OneUpdater == {u1}
OneNote == {n1}

Symmetry == Permutations(Updaters)
==============================================================================
