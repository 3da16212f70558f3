----------------------------- MODULE MCVaultTree -----------------------------
(* Instances of VaultTree for TLC. *)
EXTENDS VaultTree, TLC

CONSTANTS a, b, F, G, d1, d2, u1, n1, n2, n3, x, y

(* Two notes of the same name, a and F/a, which both link to that name. *)
EmptyDir == [n \in Name |-> Nothing]

NoteOf(i, link) == [id |-> i, edits |-> {}, link |-> link]

Vault(trash) ==
    (Top :> [EmptyDir EXCEPT ![a] = NoteOf(n1, <<a>>), ![F] = d1]) @@
    (Trash :> trash) @@
    (d1 :> [EmptyDir EXCEPT ![a] = NoteOf(n2, <<a>>)]) @@
    [f \in Folders |-> EmptyDir]

MCTrees == {Vault(EmptyDir)}

Delete(p, t) == [kind |-> "delete", from |-> p, to |-> <<>>, trash |-> t]
Restore(n, p) == [kind |-> "restore", from |-> <<Trash, n>>, to |-> p, trash |-> FALSE]
Two(k, p, q) == [kind |-> k, from |-> p, to |-> q, trash |-> FALSE]

(* Two calls of tools: every pair of these, and each with itself. *)
Everything ==
    <<Delete(<<a>>, TRUE), Delete(<<F>>, TRUE), Delete(<<F>>, FALSE),
      Delete(<<F, a>>, TRUE), Delete(<<F, a>>, FALSE),
      Restore(a, <<b>>), Restore(F, <<G>>),
      Two("move", <<a>>, <<G, b>>), Two("move", <<F, a>>, <<b>>),
      Two("rename", <<F>>, <<G>>), Two("replace", <<a>>, <<F, a>>)>>

Pairs ==
    {(x :> Everything[s[1]]) @@ (y :> Everything[s[2]]) :
        s \in {t \in (1..Len(Everything)) \X (1..Len(Everything)) : t[1] <= t[2]}}

Deletions == {(x :> Delete(<<a>>, TRUE)) @@ (y :> Delete(<<F, a>>, TRUE))}
=============================================================================
