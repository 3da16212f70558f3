---------------------------- MODULE MCAtomicWrite ----------------------------
(***************************************************************************)
(* Small instances of AtomicWrite for TLC: two callers, an edit to the     *)
(* body and one to the frontmatter.  The callers make every kind of call,  *)
(* with a revision that names one content or none.                         *)
(***************************************************************************)
EXTENDS AtomicWrite, TLC

CONSTANTS c1, c2, body, fm

MCClients == {c1, c2}
MCEdits == {body, fm}
MCFrontmatter == {fm}

(* The edit of a delete_note call is immaterial, and so is the pin of a    *)
(* preview.                                                                *)
Representative(r) ==
    /\ r.pin \in {NoPin, {body}}
    /\ r.kind = "delete" => r.edit = body
    /\ r.dry_run => r.pin = NoPin /\ ~r.create_only

CallsOf(kinds) == { r \in Request : r.kind \in kinds /\ Representative(r) }

ToolCalls == CallsOf(Tools)

(* Pins make no difference to what survives a power loss. *)
CrashCalls == { r \in CallsOf({"append", "delete", "attach"}) : r.pin = NoPin }

(* Every write that a revision is passed to, and the attachments, which    *)
(* take none.                                                              *)
PinnedWrites ==
    { r \in CallsOf(Tools \ {"delete"}) : r.kind = "attach" \/ r.pin # NoPin }

Symmetry == Permutations(MCClients)
==============================================================================
