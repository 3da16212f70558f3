--------------------------- MODULE ConditionalFile ---------------------------
(***************************************************************************)
(* What the write tools promise about one file, with no locks, temporary   *)
(* files or revision checks: a call is carried out in one step, on content *)
(* that satisfies its preconditions, or it is refused and changes nothing. *)
(***************************************************************************)
EXTENDS NoteContent

CONSTANTS
    Clients,   \* the concurrent tool calls' owners
    NoReq,     \* no call in progress
    Requests   \* the calls made on this file

VARIABLES
    file,      \* the content of the file
    phase,     \* per client: "idle", "pending" or "done"
    req        \* per client: the call in progress

absVars == <<file, phase, req>>

AbsInit ==
    /\ file \in File
    /\ phase = [c \in Clients |-> "idle"]
    /\ req = [c \in Clients |-> NoReq]

AbsCall(c) ==
    /\ phase[c] = "idle"
    /\ \E r \in Requests : req' = [req EXCEPT ![c] = r]
    /\ phase' = [phase EXCEPT ![c] = "pending"]
    /\ UNCHANGED file

(* The call takes effect at once, on content that it accepts. *)
AbsPerform(c) ==
    /\ phase[c] = "pending"
    /\ Accepts(req[c], file)
    /\ file' = Rendered(req[c], file)
    /\ phase' = [phase EXCEPT ![c] = "done"]
    /\ UNCHANGED req

(* From "pending" the call returns refused, from "done" carried out. *)
AbsReturn(c) ==
    /\ phase[c] # "idle"
    /\ phase' = [phase EXCEPT ![c] = "idle"]
    /\ req' = [req EXCEPT ![c] = NoReq]
    /\ UNCHANGED file

AbsNext == \E c \in Clients : AbsCall(c) \/ AbsPerform(c) \/ AbsReturn(c)

AbsSpec == AbsInit /\ [][AbsNext]_absVars
==============================================================================
