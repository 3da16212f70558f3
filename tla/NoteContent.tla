----------------------------- MODULE NoteContent -----------------------------
(***************************************************************************)
(* What the single-file tools compute, without how they store it.          *)
(*                                                                         *)
(* The content of a note is the set of edits it holds: appending, patching *)
(* or tagging adds an edit to what was read, a full write replaces it.     *)
(* Some edits are YAML frontmatter.  A revision token is the SHA-256 of    *)
(* the bytes, so a token is modelled by the content it names and an absent *)
(* file has no token.                                                      *)
(***************************************************************************)
CONSTANTS
    Edits,        \* the edits a tool call can carry
    Frontmatter,  \* the edits that live in the YAML frontmatter
    Absent,       \* the file does not exist
    NoPin,        \* the caller passed no expected_revision
    Strict        \* REQUIRE_WRITE_PRECONDITIONS

ASSUME ContentAssumption ==
    /\ Frontmatter \subseteq Edits
    /\ \A content \in SUBSET Edits : content \notin {Absent, NoPin}
    /\ NoPin # Absent
    /\ Strict \in BOOLEAN

Content == SUBSET Edits

File == {Absent} \cup Content

(***************************************************************************)
(* write   write_note: create or overwrite, keeping the frontmatter        *)
(* append  append_to_note: add at the end, creating the note if needed     *)
(* patch   patch_note, patch_note_text, patch_frontmatter, manage_tags and *)
(*         the Kanban, canvas, Excalidraw and base edits of an existing    *)
(*         file                                                            *)
(* full    create_from_template and the other tools that write a whole     *)
(*         file after prepare_full_write                                   *)
(* delete  delete_note                                                     *)
(* attach  write_attachment_bytes                                          *)
(***************************************************************************)
Tools == {"write", "append", "patch", "full", "delete", "attach"}

LockingTools == Tools \ {"attach"}

(***************************************************************************)
(* A call: pin is expected_revision.  Only whole-file writes take          *)
(* create_only, only write_note and the patch tools take dry_run, and an   *)
(* attachment write takes none of the three.                               *)
(***************************************************************************)
Request ==
    { r \in [kind : Tools, edit : Edits, pin : {NoPin} \cup Content,
             create_only : BOOLEAN, dry_run : BOOLEAN] :
        /\ r.create_only => r.kind \in {"write", "full"}
        /\ r.dry_run => r.kind \in {"write", "patch"}
        /\ r.kind = "attach" => r.pin = NoPin }

(* Mutant: the body of a missing note is the text None. *)
BodyOrNone(raw) == IF raw = Absent THEN {raw} ELSE raw

Body(raw) == IF raw = Absent THEN {} ELSE raw

(* write_note carries the old frontmatter over to a new body without one. *)
Overwritten(edit, raw) ==
    {edit} \cup (IF edit \in Frontmatter THEN {} ELSE Body(raw) \cap Frontmatter)

(* The content a tool stores when it read raw. *)
Rendered(r, raw) ==
    CASE r.kind = "write" -> Overwritten(r.edit, raw)
      [] r.kind \in {"append", "patch"} -> Body(raw) \cup {r.edit}
      [] r.kind \in {"full", "attach"} -> {r.edit}
      [] r.kind = "delete" -> Absent

(* The tools that check REQUIRE_WRITE_PRECONDITIONS: on an existing file   *)
(* they refuse a call without a pin.  Attachments are not among them.      *)
NeedsPin(r) == r.kind \in {"write", "full", "delete"}

(***************************************************************************)
(* The promise made to the caller: the content a call may be carried out   *)
(* on.  Everything else must be refused.                                   *)
(***************************************************************************)
Accepts(r, f) ==
    /\ ~r.dry_run
    /\ r.pin # NoPin => r.pin = f
    /\ r.create_only => f = Absent
    /\ r.kind \in {"patch", "delete"} => f # Absent
    /\ Strict /\ NeedsPin(r) /\ f # Absent => r.pin # NoPin
==============================================================================
