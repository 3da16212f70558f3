---------------------------- MODULE AccessControl ----------------------------
(***************************************************************************)
(* What a request to the multi-vault server reaches: vaults.json is        *)
(* checked at start-up (config.py), a request is tied to an identity and a *)
(* vault through context variables (VaultResolutionMiddleware and          *)
(* attachment_route in server.py), and every path is authorized against    *)
(* the vault's policy merged with the identity's override                  *)
(* (storage/policy.py).  Attachment tokens outlive the server that signed  *)
(* them, so a request can bring one to a server with another vaults.json.  *)
(*                                                                         *)
(* A request that is refused changes nothing and is not a step.            *)
(***************************************************************************)
EXTENDS PathPolicy, Integers, FiniteSets

CONSTANTS
    Vault, Identity,
    ApiKeys,                        \* the identities that are API keys
    Call,                           \* requests in progress at one time
    NoVault, NoIdentity, NoToken,   \* None
    Configs,                        \* the contents vaults.json may have
    Files,                          \* the files of every vault
    LinkTargets,                    \* per file: its link targets, in lower case
    Aliases,                        \* per file: the aliases of the note
    Base,                           \* a component without its suffix
    Depths,                         \* values of max_depth and of depth
    Targets,                        \* the paths requests name
    Dotted,                         \* components that start with a dot
    Approved,                       \* components with an attachment suffix
    Ttls,                           \* values of expires_in
    MaxTtl,                         \* _MAX_TOKEN_TTL
    MaxTime, MaxTokens, MaxStarts   \* bounds

(* vaults.json: the policy of each vault, the vaults of each identity (none *)
(* for an identity that is not listed), its default and its overrides, and  *)
(* the vault that is listed first.                                          *)
Config == [base : [Vault -> Policy],
           allowed : [Identity -> SUBSET Vault],
           default : [Identity -> Vault \cup {NoVault}],
           override : [Identity -> [Vault -> Policy]],
           first : Vault]

Methods == {"GET", "PUT"}

(* A token, with the time it was created, which nobody looks at. *)
Token == [identity : Identity, method : Methods, path : Path, vault : Vault,
          born : Nat, exp : Nat]

ASSUME ConfigAssumption == Configs \subseteq Config /\ Configs # {}

ASSUME NameAssumption ==
    /\ NoVault \notin Vault
    /\ NoIdentity \notin Identity
    /\ NoToken \notin Token
    /\ ApiKeys \subseteq Identity

ASSUME PathAssumption ==
    /\ Files \subseteq Path \ {Root}
    /\ Targets \subseteq Path
    /\ LinkTargets \in [Files -> SUBSET (Path \ {Root})]
    /\ Aliases \in [Files -> SUBSET Path]
    /\ Base \in [Component -> Component]
    /\ Depths \subseteq Nat

ASSUME TimeAssumption == Ttls \subseteq Int /\ MaxTtl \in Nat \ {0} /\ MaxTime \in Nat

VARIABLES
    running,
    config,    \* what the server loaded when it last started (any, before that)
    now,
    tokens,    \* attachment tokens in the hands of clients
    pc,        \* per call: "idle", or what it is
    who,       \* per call: the identity that authenticated
    want,      \* per call: its vault parameter
    via,       \* per call: the attachment token it came with
    since,     \* per call: when its token was accepted (0 without a token)
    target,    \* per call: the path of an attachment request
    context,   \* per call: the context variables of its task
    done,      \* per call: the last access it was granted
    starts

requestVars == <<who, want, via, since, target>>
vars == <<running, config, now, tokens, pc, who, want, via, since, target,
          context, done, starts>>

Context == [vault : Vault \cup {NoVault}, identity : Identity \cup {NoIdentity}]

Directions == {"outgoing", "incoming", "both"}

(* What a call was granted: a path and, for a move, where it goes, the depth *)
(* asked for and what the answer names: files, and in a link graph also     *)
(* link targets that are no note's.                                         *)
Access == [kind : {"none", "read", "write", "delete", "move", "list", "tree",
                   "query", "orphans"} \cup Directions,
           vault : Vault \cup {NoVault}, path : Path, to : Path, depth : Nat,
           shown : SUBSET Path]

NoContext == [vault |-> NoVault, identity |-> NoIdentity]
NoAccess == [kind |-> "none", vault |-> NoVault, path |-> Root, to |-> Root,
             depth |-> 0, shown |-> {}]

TypeOK ==
    /\ running \in BOOLEAN
    /\ config \in Config
    /\ now \in Nat
    /\ tokens \in SUBSET Token
    /\ pc \in [Call -> {"idle", "tool", "resource", "get", "put"}]
    /\ who \in [Call -> Identity \cup {NoIdentity}]
    /\ want \in [Call -> Vault \cup {NoVault}]
    /\ via \in [Call -> Token \cup {NoToken}]
    /\ since \in [Call -> Nat]
    /\ target \in [Call -> Path]
    /\ context \in [Call -> Context]
    /\ done \in [Call -> Access]

Init ==
    /\ running = FALSE
    /\ config = CHOOSE f \in Configs : TRUE
    /\ now = 0
    /\ tokens = {}
    /\ pc = [c \in Call |-> "idle"]
    /\ who = [c \in Call |-> NoIdentity]
    /\ want = [c \in Call |-> NoVault]
    /\ via = [c \in Call |-> NoToken]
    /\ since = [c \in Call |-> 0]
    /\ target = [c \in Call |-> Root]
    /\ context = [c \in Call |-> NoContext]
    /\ done = [c \in Call |-> NoAccess]
    /\ starts = 0

-----------------------------------------------------------------------------
(* Start and stop *)

(* load_vaults_file raises no ConfigError. *)
Acceptable(f) ==
    /\ \E i \in Identity : f.allowed[i] # {}
    /\ \A i \in Identity : f.default[i] = NoVault \/ f.default[i] \in f.allowed[i]
    /\ \A i \in Identity : \A v \in f.allowed[i] :
          ~Widens(f.base[v], f.override[i][v])

(* An identity with one vault has it as its default. *)
DefaultVault(f, i) ==
    IF f.default[i] = NoVault /\ \E v \in Vault : f.allowed[i] = {v}
    THEN CHOOSE v \in Vault : f.allowed[i] = {v}
    ELSE f.default[i]

Start ==
    /\ ~running
    /\ starts < MaxStarts
    /\ \E f \in Configs :
          /\ Acceptable(f)
          /\ config' = [f EXCEPT !.default = [i \in Identity |-> DefaultVault(f, i)]]
    /\ running' = TRUE
    /\ starts' = starts + 1
    /\ UNCHANGED <<now, tokens, pc, context, done, requestVars>>

Stop ==
    /\ running
    /\ running' = FALSE
    /\ pc' = [c \in Call |-> "idle"]
    /\ who' = [c \in Call |-> NoIdentity]
    /\ want' = [c \in Call |-> NoVault]
    /\ via' = [c \in Call |-> NoToken]
    /\ since' = [c \in Call |-> 0]
    /\ target' = [c \in Call |-> Root]
    /\ context' = [c \in Call |-> NoContext]
    /\ done' = [c \in Call |-> NoAccess]
    /\ UNCHANGED <<config, now, tokens, starts>>

Tick ==
    /\ now < MaxTime
    /\ now' = now + 1
    /\ UNCHANGED <<running, config, tokens, pc, context, done, starts, requestVars>>

-----------------------------------------------------------------------------
(* Admission *)

(* A mutant: with no default the first vault of the file is guessed. *)
SelectOrGuess(i, requested) ==
    IF requested = NoVault
    THEN IF config.default[i] = NoVault THEN config.first ELSE config.default[i]
    ELSE IF requested \in config.allowed[i] THEN requested ELSE NoVault

(* _select_vault; NoVault where it raises. *)
SelectVault(i, requested) ==
    IF requested = NoVault THEN config.default[i]
    ELSE IF requested \in config.allowed[i] THEN requested ELSE NoVault

(* VaultAccessPolicy.effective for one identity and vault. *)
EffectiveFor(v, i) ==
    MergedWith(config.base[v], IF i = NoIdentity THEN Inherit ELSE config.override[i][v])

(* A mutant: one pair of variables for all requests of the process. *)
SetSharedContext(c, v, i) ==
    context' = [x \in Call |-> [vault |-> v, identity |-> i]]

SetContext(c, v, i) ==
    context' = [context EXCEPT ![c] = [vault |-> v, identity |-> i]]

Admit(c, i, requested, v, step) ==
    /\ running
    /\ pc[c] = "idle"
    /\ v # NoVault
    /\ SetContext(c, v, i)
    /\ pc' = [pc EXCEPT ![c] = step]
    /\ who' = [who EXCEPT ![c] = i]
    /\ want' = [want EXCEPT ![c] = requested]
    /\ UNCHANGED <<running, config, now, tokens, done, starts>>

Authenticated(i) == config.allowed[i] # {}

OnCallTool(c) ==
    \E i \in Identity, requested \in Vault \cup {NoVault} :
        /\ Authenticated(i)
        /\ Admit(c, i, requested, SelectVault(i, requested), "tool")
        /\ via' = [via EXCEPT ![c] = NoToken]
        /\ UNCHANGED <<since, target>>

OnReadResource(c) ==
    \E i \in Identity :
        /\ Authenticated(i)
        /\ Admit(c, i, NoVault, SelectVault(i, NoVault), "resource")
        /\ via' = [via EXCEPT ![c] = NoToken]
        /\ UNCHANGED <<since, target>>

(* validate_attachment_path raises nothing. *)
AttachmentAllowed(method, p, policy) ==
    /\ p # Root
    /\ \A n \in 1..Len(p) : p[n] \notin Dotted
    /\ IF method = "GET" THEN PermitsRead(p, policy, FALSE)
       ELSE PermitsWrite(p, policy) /\ p[Len(p)] \in Approved

Attachment(c, i, requested, v, method, p, token) ==
    /\ v # NoVault
    /\ AttachmentAllowed(method, p, EffectiveFor(v, i))
    /\ Admit(c, i, requested, v, IF method = "GET" THEN "get" ELSE "put")
    /\ via' = [via EXCEPT ![c] = token]
    /\ since' = IF token = NoToken THEN since ELSE [since EXCEPT ![c] = now]
    /\ target' = [target EXCEPT ![c] = p]

AttachmentByBearer(c) ==
    \E i \in Identity, requested \in Vault \cup {NoVault},
       method \in Methods, p \in Targets :
        /\ Authenticated(i)
        /\ Attachment(c, i, requested, SelectVault(i, requested), method, p, NoToken)

(* A mutant: the vault is a parameter of the URL that is not signed. *)
SignedWithoutVault(method, p, v, exp) == <<method, p, exp>>

(* What _sign_attachment_token signs; HMAC is equality of keys and messages. *)
Signed(method, p, v, exp) == <<method, p, v, exp>>

(* A mutant: the clock is not looked at. *)
VerifySignature(t, method, p, v) ==
    Signed(method, p, v, t.exp) = Signed(t.method, t.path, t.vault, t.exp)

Verify(t, method, p, v) ==
    /\ now <= t.exp
    /\ Signed(method, p, v, t.exp) = Signed(t.method, t.path, t.vault, t.exp)

(* A mutant: whoever holds a valid signature is let in. *)
GrantBySignature(t, method, p, v) == t.identity \in ApiKeys /\ Verify(t, method, p, v)

(* _scoped_token_grant: the key that verifies belongs to an identity of the *)
(* running configuration, which has the vault.                              *)
ScopedTokenGrant(t, method, p, v) ==
    /\ t.identity \in ApiKeys
    /\ Verify(t, method, p, v)
    /\ v \in config.allowed[t.identity]

AttachmentByToken(c) ==
    \E t \in tokens, requested \in Vault \cup {NoVault}, method \in Methods, p \in Targets :
        LET v == IF requested = NoVault THEN config.first ELSE requested IN
        /\ ScopedTokenGrant(t, method, p, v)
        /\ Attachment(c, t.identity, requested, v, method, p, t)

-----------------------------------------------------------------------------
(* Accesses of an admitted request *)

(* Config.resolve_vault_name *)
CurrentVault(c) ==
    IF context[c].vault = NoVault THEN config.first ELSE context[c].vault

Effective(c) == EffectiveFor(CurrentVault(c), context[c].identity)

Grant(c, kind, p, to, depth, shown) ==
    /\ done' = [done EXCEPT ![c] =
                  [kind |-> kind, vault |-> CurrentVault(c), path |-> p, to |-> to,
                   depth |-> depth, shown |-> shown]]
    /\ UNCHANGED <<running, config, now, tokens, pc, context, starts, requestVars>>

GrantPath(c, kind, p) == Grant(c, kind, p, Root, 0, {})

Inside(c) == pc[c] \in {"tool", "resource"}

ResolveRead(c) ==
    /\ Inside(c)
    /\ \E p \in Targets \ {Root} :
          PermitsRead(p, Effective(c), FALSE) /\ GrantPath(c, "read", p)

ResolveWrite(c) ==
    /\ pc[c] = "tool"
    /\ \E p \in Targets \ {Root} :
          PermitsWrite(p, Effective(c)) /\ GrantPath(c, "write", p)

-----------------------------------------------------------------------------
(* Whole trees *)

(* The files of a vault and the folders that hold them. *)
Nodes == UNION {{SubSeq(f, 1, n) : n \in 1..Len(f)} : f \in Files}

IsFolder(p) == \E f \in Files : Below(f, p)

(* _tree_paths *)
TreePaths(p) == {q \in Nodes : q = p \/ Below(q, p)}

Mapped(q, from, to) == to \o SubSeq(q, Len(from) + 1, Len(q))

(* A folder that holds a name some deny rule protects is not touched, be    *)
(* there such a file or not; this comparison minds the case.                *)
CrossesProtected(p, policy) == \E r \in policy.denyWrite : Below(r.scope, p)

(* A mutant: the folder's own path is authorized, not what is in it. *)
AuthorizesRoot(from, to, policy) ==
    /\ from \in Nodes
    /\ PermitsWrite(from, policy)
    /\ PermitsWrite(to, policy)

(* authorize_tree raises nothing; to is from where nothing moves. *)
Authorizes(from, to, policy) ==
    /\ from \in Nodes
    /\ IsFolder(from) => ~CrossesProtected(from, policy) /\ ~CrossesProtected(to, policy)
    /\ \A q \in TreePaths(from) :
          PermitsWrite(q, policy) /\ PermitsWrite(Mapped(q, from, to), policy)

(* delete_note and delete_folder, into the trash or for good. *)
Delete(c) ==
    /\ pc[c] = "tool"
    /\ \E p \in Targets \ {Root} :
          Authorizes(p, p, Effective(c)) /\ Grant(c, "delete", p, p, 0, {})

(* move_note and rename_folder *)
Move(c) ==
    /\ pc[c] = "tool"
    /\ \E from, to \in Targets \ {Root} :
          /\ to \notin Nodes /\ ~Below(to, from)
          /\ Authorizes(from, to, Effective(c))
          /\ Grant(c, "move", from, to, 0, {})

-----------------------------------------------------------------------------
(* Listings.  One that is refused shows nothing. *)

Undotted(p, n) == \A k \in n..Len(p) : p[k] \notin Dotted

FilesIn(folder, policy) ==
    {f \in Files : Discovers(folder, f, policy) /\ Undotted(f, 1)}

TreeOf(folder, depth, policy) ==
    {f \in Files : /\ Discovers(folder, f, policy)
                   /\ Undotted(f, Len(folder) + 1)
                   /\ Len(f) <= Len(folder) + depth}

(* The listed folder exists and, unless it is the vault itself, may be read  *)
(* by its own path: exists and stat have no eye for a scope further down.   *)
Listable(folder, policy) ==
    folder = Root \/ (IsFolder(folder) /\ PermitsRead(folder, policy, FALSE))

ListFiles(c) ==
    /\ pc[c] = "tool"
    /\ \E folder \in Targets :
          /\ Listable(folder, Effective(c))
          /\ Grant(c, "list", folder, Root, 0, FilesIn(folder, Effective(c)))

(* list_folder, one level of it or max_depth levels (_build_tree). *)
ListFolder(c) ==
    /\ pc[c] = "tool"
    /\ \E folder \in Targets, depth \in Depths :
          /\ Listable(folder, Effective(c))
          /\ Grant(c, "tree", folder, Root, depth, TreeOf(folder, depth, Effective(c)))

-----------------------------------------------------------------------------
(* Queries *)

(* The index of a vault holds what list_files finds without an identity. *)
Indexed(v) == {f \in Files : Discovers(Root, f, config.base[v])}

(* A mutant: only a read allowlist turns the filter on. *)
AllowsUnlessScoped(f, policy) == policy.read = {} \/ PermitsRead(f, policy, FALSE)

(* ReadScope: no filter when the policy restricts no read. *)
ScopeAllows(f, policy) ==
    \/ policy.read = {} /\ policy.denyRead = {}
    \/ PermitsRead(f, policy, FALSE)

(* What a query can name: files, and link targets as they are written. *)
Nameable == Files \cup UNION {LinkTargets[f] : f \in Files}

ReadScope(policy) == {p \in Nameable : ScopeAllows(p, policy)}

QueryIndex(c) ==
    /\ Inside(c)
    /\ Grant(c, "query", Root, Root, 0, Indexed(CurrentVault(c)) \cap ReadScope(Effective(c)))

(* Path(p).stem, and the keys under which links to p are found. *)
Stem(p) == CaseFold(<<Base[p[Len(p)]]>>)

OwnNames(p) ==
    {CaseFold(p), CaseFold([p EXCEPT ![Len(p)] = Base[p[Len(p)]]]), Stem(p)}

(* The names a note is registered under in the alias map. *)
Called(f) == {Stem(f)} \cup Aliases[f]

Names == UNION {Called(f) : f \in Files}

(* The indexes of a vault: who of several notes with one name has it is a   *)
(* matter of order, and a name can be lost (see VaultIndex).                *)
Indexes(notes) ==
    {[notes |-> notes, alias |-> alias] :
        alias \in {m \in [Names -> notes \cup {Root}] :
                     \A k \in Names : m[k] # Root => k \in Called(m[k])}}

(* resolve_alias(target) or target *)
Resolved(link, index) ==
    IF Stem(link) \in Names /\ index.alias[Stem(link)] # Root
    THEN index.alias[Stem(link)] ELSE link

(* index.get_outlinks, resolved *)
Outlinks(p, index) ==
    IF p \in index.notes THEN {Resolved(link, index) : link \in LinkTargets[p]} ELSE {}

(* index.get_backlinks *)
Backlinks(p, index) ==
    {g \in index.notes : \E link \in LinkTargets[g] :
        \/ link \in OwnNames(p)
        \/ link \in Names /\ index.alias[link] = p}

(* A mutant: a link from any note counts. *)
OrphansOfAll(index, scope) == {f \in index.notes \cap scope : Backlinks(f, index) = {}}

(* get_orphans, for a caller that excludes no folder *)
Orphans(index, scope) == {f \in index.notes \cap scope : Backlinks(f, index) \cap scope = {}}

QueryOrphans(c) ==
    /\ pc[c] = "tool"
    /\ \E index \in Indexes(Indexed(CurrentVault(c))) :
          Grant(c, "orphans", Root, Root, 0, Orphans(index, ReadScope(Effective(c))))

Neighbours(p, index, scope, direction) ==
    scope \cap ((IF direction # "incoming" THEN Outlinks(p, index) ELSE {})
                  \cup (IF direction # "outgoing" THEN Backlinks(p, index) ELSE {}))

(* A mutant: the walk passes through any note, and the answer is filtered. *)
WalkThenFilter(root, depth, index, scope, direction) ==
    LET Reached[n \in Nat] ==
          IF n = 0 THEN {root}
          ELSE LET before == Reached[n - 1] IN
               before \cup UNION {Neighbours(p, index, Nameable, direction) : p \in before}
    IN  scope \cap Reached[depth + 1]

(* get_link_graph names what at most depth steps lead to, and the other     *)
(* ends of the links there.                                                 *)
Walk(root, depth, index, scope, direction) ==
    LET Reached[n \in Nat] ==
          IF n = 0 THEN {root} \cap scope
          ELSE LET before == Reached[n - 1] IN
               before \cup UNION {Neighbours(p, index, scope, direction) : p \in before}
    IN  scope \cap Reached[depth + 1]

QueryGraph(c) ==
    /\ pc[c] = "tool"
    /\ \E root \in Files, depth \in Depths, direction \in Directions,
          index \in Indexes(Indexed(CurrentVault(c))) :
          Grant(c, direction, root, Root, depth,
                Walk(root, depth, index, ReadScope(Effective(c)), direction))

-----------------------------------------------------------------------------
(* Attachments *)

(* A mutant: the upper bound alone. *)
NoLowerClamp(ttl) == IF ttl > MaxTtl THEN MaxTtl ELSE ttl

Clamp(ttl) == IF ttl < 1 THEN 1 ELSE IF ttl > MaxTtl THEN MaxTtl ELSE ttl

CreateAttachmentToken(c) ==
    /\ pc[c] = "tool"
    /\ Cardinality(tokens) < MaxTokens
    /\ who[c] \in ApiKeys
    /\ \E method \in Methods, p \in Targets, ttl \in Ttls :
          /\ AttachmentAllowed(method, p, Effective(c))
          /\ tokens' = tokens \cup
                {[identity |-> who[c], method |-> method, path |-> p,
                  vault |-> CurrentVault(c), born |-> now, exp |-> now + Clamp(ttl)]}
    /\ UNCHANGED <<running, config, now, pc, context, done, starts, requestVars>>

Download(c) ==
    /\ pc[c] = "get"
    /\ PermitsRead(target[c], Effective(c), FALSE)
    /\ GrantPath(c, "read", target[c])

(* write_attachment_bytes checks again, after the body has been received. *)
Upload(c) ==
    /\ pc[c] = "put"
    /\ AttachmentAllowed("PUT", target[c], Effective(c))
    /\ GrantPath(c, "write", target[c])

(* The finally blocks reset both variables. *)
Return(c) ==
    /\ pc[c] # "idle"
    /\ pc' = [pc EXCEPT ![c] = "idle"]
    /\ who' = [who EXCEPT ![c] = NoIdentity]
    /\ want' = [want EXCEPT ![c] = NoVault]
    /\ via' = [via EXCEPT ![c] = NoToken]
    /\ since' = [since EXCEPT ![c] = 0]
    /\ target' = [target EXCEPT ![c] = Root]
    /\ context' = [context EXCEPT ![c] = NoContext]
    /\ done' = [done EXCEPT ![c] = NoAccess]
    /\ UNCHANGED <<running, config, now, tokens, starts>>

Next ==
    \/ Start \/ Stop \/ Tick
    \/ \E c \in Call :
          \/ OnCallTool(c) \/ OnReadResource(c)
          \/ AttachmentByBearer(c) \/ AttachmentByToken(c)
          \/ ResolveRead(c) \/ ResolveWrite(c) \/ Delete(c) \/ Move(c)
          \/ ListFiles(c) \/ ListFolder(c)
          \/ QueryIndex(c) \/ QueryOrphans(c) \/ QueryGraph(c)
          \/ CreateAttachmentToken(c) \/ Download(c) \/ Upload(c) \/ Return(c)

Spec == Init /\ [][Next]_vars

-----------------------------------------------------------------------------
(* Properties.  A grant is judged by the identity that authenticated and by *)
(* the vault's policy and the identity's override taken one by one, never   *)
(* by the context variables and the merged policy the server decided with.  *)

BothRead(c, v, p) ==
    /\ PermitsRead(p, config.base[v], FALSE)
    /\ PermitsRead(p, config.override[who[c]][v], FALSE)

BothWrite(c, v, p) ==
    /\ PermitsWrite(p, config.base[v])
    /\ PermitsWrite(p, config.override[who[c]][v])

(* An identity only ever reaches vaults it is listed for, and in them only  *)
(* what both the vault's own policy and its override permit: an override    *)
(* restricts and never widens (merge_allowlist, load_vaults_file), whatever *)
(* other requests are in progress and whenever a token was signed.          *)
OverridesOnlyRestrict ==
    \A c \in Call : LET d == done[c] IN
        d.kind # "none" =>
            /\ d.vault \in config.allowed[who[c]]
            /\ d.kind = "read" => BothRead(c, d.vault, d.path)
            /\ d.kind = "write" => BothWrite(c, d.vault, d.path)
            /\ \A f \in d.shown : BothRead(c, d.vault, f)

(* A request works in the vault it named, or in the identity's default if   *)
(* it named none; an attachment token works in the vault it was signed for  *)
(* (_select_vault, _scoped_token_grant).                                    *)
RequestKeepsItsVault ==
    \A c \in Call :
        done[c].kind # "none" =>
            done[c].vault = IF via[c] # NoToken THEN via[c].vault
                            ELSE IF want[c] # NoVault THEN want[c]
                            ELSE config.default[who[c]]

(* What a token is used for is what it was created for: this path, this     *)
(* method, admitted before it expires, and it expires at most MaxTtl after  *)
(* it was created (create_attachment_token, verify_attachment_token).       *)
TokenIsBound ==
    \A c \in Call :
        done[c].kind # "none" /\ via[c] # NoToken =>
            LET t == via[c] IN
            /\ done[c].path = t.path
            /\ done[c].kind = IF t.method = "GET" THEN "read" ELSE "write"
            /\ t.born <= since[c] /\ since[c] <= t.exp
            /\ t.exp - t.born <= MaxTtl

(* No spelling of a denied path gets through: a path that is granted has no *)
(* case variant that a deny rule of the vault or of the override names      *)
(* (_denied compares case-folded).                                          *)
DenyCoversAliases ==
    \A c \in Call : LET d == done[c] IN
        d.kind \in {"read", "write"} =>
            \A policy \in {config.base[d.vault], config.override[who[c]][d.vault]} :
                LET rules == IF d.kind = "read" THEN policy.denyRead ELSE policy.denyWrite
                IN  \A alias \in Targets :
                        CaseFold(alias) = CaseFold(d.path) =>
                            \A r \in rules : ~Matches(alias, r)

(* Some note may be what a link target means, by one of its own names or by *)
(* a name of the alias map.                                                 *)
MayName(link, p) ==
    \/ link \in {p} \cup OwnNames(p)
    \/ p \in Files /\ {link, Stem(link)} \cap Called(p) # {}

MayLink(g, p) == \E link \in LinkTargets[g] : MayName(link, p)

(* A query over the vault-wide index shows an identity exactly the indexed  *)
(* notes that it could read one by one.  A note that no note it can read    *)
(* links to is an orphan to it, however many others do, and one that such a *)
(* note links to by path or stem is none (ReadScope, get_orphans).          *)
QueryShowsWhatCanBeRead ==
    \A c \in Call : LET d == done[c]
                        readable == {f \in Indexed(d.vault) : BothRead(c, d.vault, f)} IN
        /\ d.kind = "query" => d.shown = readable
        /\ d.kind = "orphans" =>
             /\ {f \in readable : \A g \in readable : ~MayLink(g, f)} \subseteq d.shown
             /\ d.shown \subseteq {f \in readable :
                                    \A g \in readable : LinkTargets[g] \cap OwnNames(f) = {}}

(* Whatever the link graph names is at the end of a chain of links of at    *)
(* most depth + 1 steps from the root, and the identity can read all that   *)
(* is on the chain: what it cannot read neither shows nor connects others,  *)
(* whichever note a name resolves to (get_link_graph).                      *)
GraphStaysInSight ==
    \A c \in Call : LET d == done[c]
                        notes == Indexed(d.vault)
                        Step(p, q) ==
                          \/ d.kind # "incoming" /\ p \in notes /\ MayLink(p, q)
                          \/ d.kind # "outgoing" /\ q \in notes /\ MayLink(q, p)
                    IN
        d.kind \in Directions =>
            \A p \in d.shown : \E n \in 1..(d.depth + 2) : \E chain \in [1..n -> Nameable] :
                /\ chain[1] = d.path /\ chain[n] = p
                /\ \A k \in 1..n : BothRead(c, d.vault, chain[k])
                /\ \A k \in 1..(n - 1) : Step(chain[k], chain[k + 1])

(* A whole folder is removed or moved only if the identity could write each *)
(* file and folder in it and each place they get to, and if no deny rule of *)
(* the vault or of the override names something in it or in its new place   *)
(* (_authorize_resolved_tree).                                              *)
FolderOperationsAreAuthorized ==
    \A c \in Call : LET d == done[c] IN
        d.kind \in {"delete", "move"} =>
            /\ \A q \in TreePaths(d.path) :
                  /\ BothWrite(c, d.vault, q)
                  /\ BothWrite(c, d.vault, Mapped(q, d.path, d.to))
            /\ IsFolder(d.path) =>
                  \A policy \in {config.base[d.vault], config.override[who[c]][d.vault]} :
                      ~CrossesProtected(d.path, policy) /\ ~CrossesProtected(d.to, policy)

(* A folder on the way from the listed one down to a file is named by an    *)
(* exact deny rule, in whatever case, of the vault or of the override.      *)
DeniedOnTheWay(c, f) ==
    LET d == done[c] IN
    \E k \in Len(d.path)..(Len(f) - 1) :
    \E r \in config.base[d.vault].denyRead \cup config.override[who[c]][d.vault].denyRead :
        ~r.recursive /\ CaseFold(r.scope) = CaseFold(SubSeq(f, 1, k))

(* A listing that is granted omits no file below the folder that the        *)
(* identity can read, but for those under names with a dot, those deeper    *)
(* than was asked, and those below a folder that an exact deny rule names   *)
(* (which can still be read by their paths): the walk gets through every    *)
(* other folder on the way to a read scope, be it readable itself or not    *)
(* (_read_scope_allows with allow_ancestor).                                *)
ListingComplete ==
    \A c \in Call : LET d == done[c] IN
        \A f \in Files :
            /\ d.kind \in {"list", "tree"}
            /\ Below(f, d.path) /\ Undotted(f, 1) /\ BothRead(c, d.vault, f)
            /\ d.kind = "tree" => Len(f) <= Len(d.path) + d.depth
            /\ ~DeniedOnTheWay(c, f)
            => f \in d.shown
==============================================================================
