------------------------- MODULE AccessControl_proofs -------------------------
(***************************************************************************)
(* Theorems about AccessControl, for any vaults, identities, requests and  *)
(* contents of vaults.json, and without bounds.  The invariant says that   *)
(* the context variables of a request in progress are those of the         *)
(* identity that authenticated and of the vault it is entitled to, and     *)
(* that its last grant is what the merged policy of the two permits; that  *)
(* merging only restricts is PathPolicy_proofs.                            *)
(***************************************************************************)
EXTENDS AccessControl, PathPolicy_proofs, Induction_proofs

VaultOf(c) ==
    IF via[c] # NoToken THEN via[c].vault
    ELSE IF want[c] # NoVault THEN want[c] ELSE config.default[who[c]]

TokenFresh(t) == t.born <= t.exp /\ t.exp - t.born <= MaxTtl

FitsToken(c) ==
    LET t == via[c] IN
    /\ t.born <= since[c] /\ since[c] <= t.exp /\ t.exp - t.born <= MaxTtl
    /\ target[c] = t.path
    /\ pc[c] = IF t.method = "GET" THEN "get" ELSE "put"

(* What an access is over the notes of a vault under policy e. *)
Rightful(d, notes, e) ==
    /\ d.kind = "read" => PermitsRead(d.path, e, FALSE)
    /\ d.kind = "write" => PermitsWrite(d.path, e)
    /\ d.kind \in {"delete", "move"} => Authorizes(d.path, d.to, e)
    /\ d.kind = "list" => d.shown = FilesIn(d.path, e)
    /\ d.kind = "tree" => d.shown = TreeOf(d.path, d.depth, e)
    /\ d.kind = "query" => d.shown = notes \cap ReadScope(e)
    /\ d.kind = "orphans" =>
         \E index \in Indexes(notes) : d.shown = Orphans(index, ReadScope(e))
    /\ d.kind \in Directions =>
         /\ d.path \in Files
         /\ \E index \in Indexes(notes) :
               d.shown = Walk(d.path, d.depth, index, ReadScope(e), d.kind)
    /\ d.kind \in {"read", "write", "delete", "move"} => d.shown = {}

FitsGrant(c) ==
    LET d == done[c] IN
    /\ d.kind # "none" => 
         d.vault = CurrentVault(c) /\ Rightful(d, Indexed(d.vault), Effective(c))
    /\ d.kind = "none" => d.shown = {}
    /\ pc[c] = "get" => d.kind \in {"none", "read"}
    /\ pc[c] = "put" => d.kind \in {"none", "write"}
    /\ pc[c] \in {"get", "put"} /\ d.kind # "none" => d.path = target[c]

Entitled(c) ==
    /\ running
    /\ who[c] \in Identity
    /\ VaultOf(c) \in config.allowed[who[c]]
    /\ context[c] = [vault |-> VaultOf(c), identity |-> who[c]]
    /\ via[c] # NoToken => FitsToken(c)

IInv ==
    /\ TypeOK
    /\ running => Acceptable(config)
    /\ \A t \in tokens : t.born <= now /\ TokenFresh(t)
    /\ \A c \in Call : pc[c] = "idle" => done[c] = NoAccess
    /\ \A c \in Call : pc[c] # "idle" => Entitled(c) /\ FitsGrant(c)

-----------------------------------------------------------------------------
(* Start-up *)

(* The default vault of an identity is one that it may use. *)
LEMMA DefaultIsAllowed ==
    ASSUME NEW f \in Config, Acceptable(f), NEW i \in Identity
    PROVE  DefaultVault(f, i) \in Vault \cup {NoVault}
           /\ (DefaultVault(f, i) = NoVault \/ DefaultVault(f, i) \in f.allowed[i])
<1>1. f.default[i] \in Vault \cup {NoVault}
      /\ (f.default[i] = NoVault \/ f.default[i] \in f.allowed[i])
  BY DEF Acceptable, Config
<1>2. CASE f.default[i] = NoVault /\ \E v \in Vault : f.allowed[i] = {v}
  <2>1. (CHOOSE v \in Vault : f.allowed[i] = {v}) \in Vault
        /\ f.allowed[i] = {CHOOSE v \in Vault : f.allowed[i] = {v}}
    BY <1>2
  <2> QED BY <1>2, <2>1 DEF DefaultVault
<1>3. CASE ~(f.default[i] = NoVault /\ \E v \in Vault : f.allowed[i] = {v})
  BY <1>1, <1>3 DEF DefaultVault
<1> QED BY <1>2, <1>3

(* What the server runs with has passed the check at start-up. *)
LEMMA LoadedIsAcceptable ==
    ASSUME NEW f \in Config, Acceptable(f)
    PROVE  LET g == [f EXCEPT !.default = [i \in Identity |-> DefaultVault(f, i)]]
           IN  g \in Config /\ Acceptable(g)
<1> DEFINE g == [f EXCEPT !.default = [i \in Identity |-> DefaultVault(f, i)]]
<1>1. /\ g.base = f.base /\ g.allowed = f.allowed /\ g.override = f.override
      /\ g.first = f.first
      /\ \A i \in Identity : g.default[i] = DefaultVault(f, i)
  BY DEF Config
<1>2. g \in Config
  BY DefaultIsAllowed DEF Config
<1>3. Acceptable(g)
  BY <1>1, DefaultIsAllowed DEF Acceptable
<1> QED BY <1>2, <1>3

-----------------------------------------------------------------------------
(* Admission *)

(* A vault that is selected is one that the identity may use. *)
LEMMA SelectedIsAllowed ==
    ASSUME TypeOK, Acceptable(config), NEW i \in Identity,
           NEW requested \in Vault \cup {NoVault}, SelectVault(i, requested) # NoVault
    PROVE  /\ SelectVault(i, requested) \in config.allowed[i]
           /\ SelectVault(i, requested) \in Vault
           /\ SelectVault(i, requested)
                = IF requested # NoVault THEN requested ELSE config.default[i]
  BY DEF SelectVault, Acceptable, TypeOK, Config

(* The policy of a request is the merged one of vault and identity. *)
LEMMA EffectiveIsPolicy ==
    ASSUME TypeOK, NEW v \in Vault, NEW i \in Identity
    PROVE  /\ EffectiveFor(v, i) = MergedWith(config.base[v], config.override[i][v])
           /\ EffectiveFor(v, i) \in Policy
           /\ config.base[v] \in Policy /\ config.override[i][v] \in Policy
<1>1. i # NoIdentity
  BY NameAssumption
<1>2. config.base[v] \in Policy /\ config.override[i][v] \in Policy
  BY DEF TypeOK, Config
<1> QED BY <1>1, <1>2, MergedIsPolicy DEF EffectiveFor

(* A call that a step leaves alone stays as it should be. *)
LEMMA OtherCall ==
    ASSUME NEW c \in Call, pc[c] # "idle" => Entitled(c) /\ FitsGrant(c),
           pc[c] = "idle" => done[c] = NoAccess,
           running' = running \/ pc[c] = "idle", config' = config \/ pc[c] = "idle",
           pc'[c] = pc[c], who'[c] = who[c], want'[c] = want[c], via'[c] = via[c],
           since'[c] = since[c], target'[c] = target[c], context'[c] = context[c],
           done'[c] = done[c]
    PROVE  /\ pc'[c] # "idle" => Entitled(c)' /\ FitsGrant(c)'
           /\ pc'[c] = "idle" => done'[c] = NoAccess
<1>1. CASE pc[c] = "idle"
  BY <1>1
<1>2. CASE pc[c] # "idle"
  <2>1. running' /\ config' = config
    BY <1>2 DEF Entitled
  <2>2. VaultOf(c)' = VaultOf(c) /\ CurrentVault(c)' = CurrentVault(c)
    BY <2>1 DEF VaultOf, CurrentVault
  <2>3. \A v, i : EffectiveFor(v, i)' = EffectiveFor(v, i)
    BY <2>1 DEF EffectiveFor
  <2>4. Effective(c)' = Effective(c)
    BY <2>2, <2>3 DEF Effective, EffectiveFor
  <2>6. Entitled(c)'
    BY <1>2, <2>1, <2>2 DEF Entitled, FitsToken
  <2>5. Indexed(done[c].vault)' = Indexed(done[c].vault)
    BY <2>1 DEF Indexed
  <2>7. FitsGrant(c)'
    BY <1>2, <2>2, <2>4, <2>5 DEF FitsGrant
  <2> QED BY <1>2, <2>6, <2>7
<1> QED BY <1>1, <1>2

(* What every kind of admission brings about. *)
Admitted(c, i, requested, v, step, token, p) ==
    /\ i \in Identity /\ requested \in Vault \cup {NoVault} /\ v \in config.allowed[i]
    /\ step \in {"tool", "resource", "get", "put"}
    /\ token \in Token \cup {NoToken} /\ p \in Path
    /\ Admit(c, i, requested, v, step)
    /\ via' = [via EXCEPT ![c] = token]
    /\ target' = target \/ target' = [target EXCEPT ![c] = p]
    /\ since' = since \/ since' = [since EXCEPT ![c] = now]
    /\ token = NoToken => v = IF requested # NoVault THEN requested ELSE config.default[i]
    /\ token # NoToken =>
         /\ v = token.vault /\ p = token.path
         /\ token.born <= now /\ now <= token.exp /\ TokenFresh(token)
         /\ target' = [target EXCEPT ![c] = p]
         /\ since' = [since EXCEPT ![c] = now]
         /\ step = IF token.method = "GET" THEN "get" ELSE "put"

(* An admitted request has the context of its identity and vault. *)
LEMMA Admission ==
    ASSUME IInv, NEW c \in Call, NEW i, NEW requested, NEW v, NEW step, NEW token, NEW p,
           Admitted(c, i, requested, v, step, token, p)
    PROVE  IInv'
<1> USE DEF IInv, Admit, SetContext, Admitted
<1>1. v \in Vault
  BY DEF TypeOK, Config
<1>2. TypeOK'
  BY <1>1 DEF TypeOK, Context
<1>3. /\ pc'[c] = step /\ who'[c] = i /\ want'[c] = requested
      /\ via'[c] = token /\ context'[c] = [vault |-> v, identity |-> i]
      /\ done'[c] = NoAccess /\ config' = config /\ running'
      /\ token # NoToken => target'[c] = p /\ since'[c] = now
  BY DEF TypeOK
<1>4. VaultOf(c)' = v
  BY <1>3 DEF VaultOf
<1>5. Entitled(c)'
  BY <1>3, <1>4 DEF Entitled, FitsToken, TokenFresh
<1>6. FitsGrant(c)'
  BY <1>3 DEF FitsGrant, NoAccess
<1>7. ASSUME NEW x \in Call
      PROVE  /\ pc'[x] # "idle" => Entitled(x)' /\ FitsGrant(x)'
             /\ pc'[x] = "idle" => done'[x] = NoAccess
  <2>1. CASE x = c
    BY <1>3, <1>5, <1>6, <2>1
  <2>2. CASE x # c
    <3>1. /\ pc'[x] = pc[x] /\ who'[x] = who[x] /\ want'[x] = want[x] /\ via'[x] = via[x]
          /\ since'[x] = since[x] /\ target'[x] = target[x] /\ context'[x] = context[x]
          /\ done'[x] = done[x]
      BY <2>2 DEF TypeOK
    <3> QED BY <3>1, <1>3, OtherCall
  <2> QED BY <2>1, <2>2
<1>8. running' => Acceptable(config)'
  BY <1>3 DEF Acceptable
<1>9. (\A t \in tokens : t.born <= now /\ TokenFresh(t))'
  BY DEF TokenFresh
<1> QED BY <1>2, <1>7, <1>8, <1>9

(* What every kind of grant brings about. *)
Granted(c, d) ==
    /\ pc[c] # "idle"
    /\ d \in Access /\ d.kind # "none" /\ d.vault = CurrentVault(c)
    /\ done' = [done EXCEPT ![c] = d]
    /\ UNCHANGED <<running, config, now, tokens, pc, context, starts, requestVars>>
    /\ Rightful(d, Indexed(d.vault), Effective(c))
    /\ pc[c] = "get" => d.kind = "read" /\ d.path = target[c]
    /\ pc[c] = "put" => d.kind = "write" /\ d.path = target[c]

(* A grant leaves everything else as it is. *)
LEMMA Granting ==
    ASSUME IInv, NEW c \in Call, NEW d, Granted(c, d)
    PROVE  IInv'
<1> USE DEF IInv, Granted, requestVars
<1>2. TypeOK'
  BY DEF TypeOK
<1>3. /\ done'[c] = d
      /\ pc' = pc /\ config' = config /\ context' = context /\ running' = running
      /\ target' = target /\ who' = who /\ want' = want /\ via' = via /\ since' = since
  BY DEF TypeOK
<1>4. /\ CurrentVault(c)' = CurrentVault(c) /\ Effective(c)' = Effective(c)
      /\ VaultOf(c)' = VaultOf(c)
  BY <1>3 DEF CurrentVault, Effective, EffectiveFor, VaultOf
<1>5. Entitled(c)'
  BY <1>3, <1>4 DEF Entitled, FitsToken
<1>6. FitsGrant(c)'
  <2>1. Rightful(d, Indexed(d.vault), Effective(c))
    OBVIOUS
  <2>2. Indexed(d.vault)' = Indexed(d.vault)
    BY <1>3 DEF Indexed
  <2>3. /\ d.kind # "none" /\ d.vault = CurrentVault(c)'
        /\ pc'[c] = "get" => d.kind = "read"
        /\ pc'[c] = "put" => d.kind = "write"
        /\ pc'[c] \in {"get", "put"} => d.path = target'[c]
    BY <1>3, <1>4
  <2> QED BY <1>3, <1>4, <2>1, <2>2, <2>3 DEF FitsGrant
<1>7. ASSUME NEW x \in Call
      PROVE  /\ pc'[x] # "idle" => Entitled(x)' /\ FitsGrant(x)'
             /\ pc'[x] = "idle" => done'[x] = NoAccess
  <2>1. CASE x = c
    BY <1>3, <1>5, <1>6, <2>1
  <2>2. CASE x # c
    <3>1. done'[x] = done[x]
      BY <2>2 DEF TypeOK
    <3> QED BY <3>1, <1>3, OtherCall
  <2> QED BY <2>1, <2>2
<1>8. running' => Acceptable(config)'
  BY <1>3 DEF Acceptable
<1>9. (\A t \in tokens : t.born <= now /\ TokenFresh(t))'
  BY DEF TokenFresh
<1> QED BY <1>2, <1>7, <1>8, <1>9

(* The access that Grant records. *)
AccessOf(c, kind, p, to, depth, shown) ==
    [kind |-> kind, vault |-> CurrentVault(c), path |-> p, to |-> to,
     depth |-> depth, shown |-> shown]

(* An access that the merged policy permits can be recorded. *)
LEMMA GrantIsAccess ==
    ASSUME IInv, NEW c \in Call, pc[c] # "idle", NEW kind, NEW p \in Path, NEW to \in Path,
           NEW depth \in Nat, NEW shown \in SUBSET Path,
           kind \in {"read", "write", "delete", "move", "list", "tree", "query", "orphans"}
                    \cup Directions,
           Grant(c, kind, p, to, depth, shown),
           Rightful(AccessOf(c, kind, p, to, depth, shown), Indexed(CurrentVault(c)),
             Effective(c)),
           pc[c] = "get" => kind = "read" /\ p = target[c],
           pc[c] = "put" => kind = "write" /\ p = target[c]
    PROVE  IInv'
<1> DEFINE d == AccessOf(c, kind, p, to, depth, shown)
<1>1. CurrentVault(c) \in Vault
  BY DEF CurrentVault, Entitled, IInv, TypeOK, Config, Context
<1>2. d \in Access /\ d.kind = kind /\ d.vault = CurrentVault(c) /\ d.path = p
  BY <1>1 DEF AccessOf, Access
<1>3. kind # "none"
  BY DEF Directions
<1>4. /\ done' = [done EXCEPT ![c] = d]
      /\ UNCHANGED <<running, config, now, tokens, pc, context, starts, requestVars>>
  BY DEF Grant, AccessOf
<1> HIDE DEF d
<1>5. Rightful(d, Indexed(d.vault), Effective(c))
  BY <1>2 DEF d
<1>6. Granted(c, d)
  BY <1>2, <1>3, <1>4, <1>5 DEF Granted
<1> QED BY <1>6, Granting

-----------------------------------------------------------------------------
(* The steps *)

(* The server has not been started. *)
LEMMA InitIInv == Init => IInv
<1> SUFFICES ASSUME Init PROVE IInv
  OBVIOUS
<1>1. config \in Config
  BY ConfigAssumption DEF Init
<1>2. NoContext \in Context /\ NoAccess \in Access /\ Root \in Path
  BY DEF Context, NoContext, Access, NoAccess, Root, Path
<1>3. TypeOK
  BY <1>1, <1>2 DEF Init, TypeOK
<1> QED BY <1>3 DEF Init, IInv

(* A start with any acceptable configuration. *)
LEMMA StartIInv == ASSUME IInv, Start PROVE IInv'
<1> USE DEF IInv, Start, requestVars
<1>1. PICK f \in Configs : Acceptable(f)
        /\ config' = [f EXCEPT !.default = [i \in Identity |-> DefaultVault(f, i)]]
  OBVIOUS
<1>2. config' \in Config /\ Acceptable(config')
  BY <1>1, LoadedIsAcceptable, ConfigAssumption
<1>3. TypeOK'
  BY <1>2 DEF TypeOK
<1>4. ASSUME NEW x \in Call
      PROVE  pc'[x] = "idle" /\ done'[x] = NoAccess
  BY DEF Entitled
<1>5. Acceptable(config)'
  BY <1>2 DEF Acceptable
<1> QED BY <1>3, <1>4, <1>5 DEF TokenFresh

(* All requests in progress are dropped. *)
LEMMA StopIInv == ASSUME IInv, Stop PROVE IInv'
<1> USE DEF IInv, Stop
<1>1. NoContext \in Context /\ NoAccess \in Access /\ Root \in Path
  BY DEF Context, NoContext, Access, NoAccess, Root, Path
<1>3. TypeOK'
  BY <1>1 DEF TypeOK
<1>2. \A x \in Call : pc'[x] = "idle" /\ done'[x] = NoAccess
  OBVIOUS
<1>4. running' => Acceptable(config)'
  OBVIOUS
<1>5. (\A t \in tokens : t.born <= now /\ TokenFresh(t))'
  BY DEF TokenFresh
<1> QED BY <1>2, <1>3, <1>4, <1>5

(* Time passes. *)
LEMMA TickIInv == ASSUME IInv, Tick PROVE IInv'
<1> USE DEF IInv, Tick, requestVars
<1>1. TypeOK'
  BY DEF TypeOK
<1>2. ASSUME NEW x \in Call
      PROVE  /\ pc'[x] # "idle" => Entitled(x)' /\ FitsGrant(x)'
             /\ pc'[x] = "idle" => done'[x] = NoAccess
  BY OtherCall
<1>3. (\A t \in tokens : t.born <= now /\ TokenFresh(t))'
  BY DEF TypeOK, Token, TokenFresh
<1>4. running' => Acceptable(config)'
  BY DEF Acceptable
<1> QED BY <1>1, <1>2, <1>3, <1>4

(* Tools and resources. *)
LEMMA ToolIInv ==
    ASSUME IInv, NEW c \in Call, OnCallTool(c) \/ OnReadResource(c)
    PROVE  IInv'
<1>1. PICK i \in Identity, requested \in Vault \cup {NoVault},
           step \in {"tool", "resource"} :
        /\ Admit(c, i, requested, SelectVault(i, requested), step)
        /\ via' = [via EXCEPT ![c] = NoToken]
        /\ target' = target /\ since' = since
  BY DEF OnCallTool, OnReadResource
<1>2. SelectVault(i, requested) # NoVault /\ running
  BY <1>1 DEF Admit
<1>3. /\ SelectVault(i, requested) \in config.allowed[i]
      /\ SelectVault(i, requested) = IF requested # NoVault THEN requested ELSE config.default[i]
  BY <1>2, SelectedIsAllowed DEF IInv
<1>4. Root \in Path
  BY DEF Root, Path
<1>5. Admitted(c, i, requested, SelectVault(i, requested), step, NoToken, Root)
  BY <1>1, <1>3, <1>4 DEF Admitted
<1> QED BY <1>5, Admission

(* The attachment route with a bearer. *)
LEMMA BearerIInv ==
    ASSUME IInv, NEW c \in Call, AttachmentByBearer(c)
    PROVE  IInv'
<1>1. PICK i \in Identity, requested \in Vault \cup {NoVault},
           method \in Methods, p \in Targets :
        Attachment(c, i, requested, SelectVault(i, requested), method, p, NoToken)
  BY DEF AttachmentByBearer
<1> DEFINE v == SelectVault(i, requested)
           step == IF method = "GET" THEN "get" ELSE "put"
<1>2. /\ v # NoVault /\ running
      /\ Admit(c, i, requested, v, step)
      /\ via' = [via EXCEPT ![c] = NoToken]
      /\ target' = [target EXCEPT ![c] = p] /\ since' = since
  BY <1>1 DEF Attachment, Admit
<1>3. v \in config.allowed[i] /\ v = IF requested # NoVault THEN requested ELSE config.default[i]
  BY <1>2, SelectedIsAllowed DEF IInv
<1>4. p \in Path /\ step \in {"get", "put"}
  BY PathAssumption
<1> HIDE DEF v, step
<1>5. Admitted(c, i, requested, v, step, NoToken, p)
  BY <1>2, <1>3, <1>4 DEF Admitted
<1> QED BY <1>5, Admission

(* The attachment route with a token. *)
LEMMA TokenIInv ==
    ASSUME IInv, NEW c \in Call, AttachmentByToken(c)
    PROVE  IInv'
<1>1. PICK t \in tokens, requested \in Vault \cup {NoVault},
           method \in Methods, p \in Targets :
        LET v == IF requested = NoVault THEN config.first ELSE requested IN
        ScopedTokenGrant(t, method, p, v)
        /\ Attachment(c, t.identity, requested, v, method, p, t)
  BY DEF AttachmentByToken
<1> DEFINE v == IF requested = NoVault THEN config.first ELSE requested
           step == IF method = "GET" THEN "get" ELSE "put"
<1>2. ScopedTokenGrant(t, method, p, v) /\ Attachment(c, t.identity, requested, v, method, p, t)
  BY <1>1
<1>3. t \in Token /\ t # NoToken /\ t.identity \in Identity
      /\ t.born <= now /\ TokenFresh(t) /\ p \in Path
  BY NameAssumption, PathAssumption DEF IInv, TypeOK, Token
<1> HIDE DEF v
<1>4. v \in config.allowed[t.identity] /\ v = t.vault /\ p = t.path /\ method = t.method
      /\ now <= t.exp
  BY <1>2 DEF ScopedTokenGrant, Verify, Signed
<1>5. /\ Admit(c, t.identity, requested, v, step)
      /\ via' = [via EXCEPT ![c] = t]
      /\ target' = [target EXCEPT ![c] = p] /\ since' = [since EXCEPT ![c] = now]
  BY <1>2, <1>3 DEF Attachment
<1>6. step \in {"get", "put"} /\ step = IF t.method = "GET" THEN "get" ELSE "put"
  BY <1>4
<1> HIDE DEF step
<1>7. Admitted(c, t.identity, requested, v, step, t, p)
  BY <1>3, <1>4, <1>5, <1>6 DEF Admitted
<1> QED BY <1>7, Admission

(* Accesses to one path. *)
LEMMA PathGrantIInv ==
    ASSUME IInv, NEW c \in Call,
           \/ ResolveRead(c) \/ ResolveWrite(c) \/ Download(c) \/ Upload(c)
    PROVE  IInv'
<1> USE DEF GrantPath
<1>0. Root \in Path /\ Targets \subseteq Path /\ target[c] \in Path /\ {} \in SUBSET Path
  BY PathAssumption DEF Root, Path, IInv, TypeOK
<1>1. ASSUME NEW p \in Path, PermitsRead(p, Effective(c), FALSE)
      PROVE  Rightful(AccessOf(c, "read", p, Root, 0, {}), Indexed(CurrentVault(c)),
             Effective(c))
  BY <1>1 DEF Rightful, AccessOf, Directions
<1>2. ASSUME NEW p \in Path, PermitsWrite(p, Effective(c))
      PROVE  Rightful(AccessOf(c, "write", p, Root, 0, {}), Indexed(CurrentVault(c)),
             Effective(c))
  BY <1>2 DEF Rightful, AccessOf, Directions
<1>3. CASE ResolveRead(c)
  <2>1. PICK p \in Targets : PermitsRead(p, Effective(c), FALSE)
                             /\ Grant(c, "read", p, Root, 0, {})
    BY <1>3 DEF ResolveRead
  <2>2. pc[c] \in {"tool", "resource"}
    BY <1>3 DEF ResolveRead, Inside
  <2> QED BY <1>0, <1>1, <2>1, <2>2, GrantIsAccess
<1>4. CASE ResolveWrite(c)
  <2>1. PICK p \in Targets : PermitsWrite(p, Effective(c))
                             /\ Grant(c, "write", p, Root, 0, {})
    BY <1>4 DEF ResolveWrite
  <2>2. pc[c] = "tool"
    BY <1>4 DEF ResolveWrite
  <2> QED BY <1>0, <1>2, <2>1, <2>2, GrantIsAccess
<1>5. CASE Download(c)
  <2>1. /\ PermitsRead(target[c], Effective(c), FALSE) /\ pc[c] = "get"
        /\ Grant(c, "read", target[c], Root, 0, {})
    BY <1>5 DEF Download
  <2> QED BY <1>0, <1>1, <2>1, GrantIsAccess
<1>6. CASE Upload(c)
  <2>1. /\ PermitsWrite(target[c], Effective(c)) /\ pc[c] = "put"
        /\ Grant(c, "write", target[c], Root, 0, {})
    BY <1>6 DEF Upload, AttachmentAllowed
  <2> QED BY <1>0, <1>2, <2>1, GrantIsAccess
<1> QED BY <1>3, <1>4, <1>5, <1>6

(* Deletions and moves of whole trees. *)
LEMMA TreeGrantIInv ==
    ASSUME IInv, NEW c \in Call, Delete(c) \/ Move(c)
    PROVE  IInv'
<1>0. Targets \subseteq Path /\ {} \in SUBSET Path
  BY PathAssumption
<1>1. PICK kind \in {"delete", "move"}, from \in Targets, to \in Targets :
        /\ Authorizes(from, to, Effective(c))
        /\ Grant(c, kind, from, to, 0, {})
  BY DEF Delete, Move
<1>2. pc[c] = "tool"
  BY DEF Delete, Move
<1>3. Rightful(AccessOf(c, kind, from, to, 0, {}), Indexed(CurrentVault(c)),
             Effective(c))
  BY <1>1 DEF Rightful, AccessOf, Directions
<1> QED BY <1>0, <1>1, <1>2, <1>3, GrantIsAccess

(* Listings. *)
LEMMA ListIInv ==
    ASSUME IInv, NEW c \in Call, ListFiles(c) \/ ListFolder(c)
    PROVE  IInv'
<1>0. Root \in Path /\ Targets \subseteq Path /\ Depths \subseteq Nat /\ Files \subseteq Path
  BY PathAssumption DEF Root, Path
<1>1. CASE ListFiles(c)
  <2>1. PICK p \in Targets : Grant(c, "list", p, Root, 0, FilesIn(p, Effective(c)))
    BY <1>1 DEF ListFiles
  <2>2. FilesIn(p, Effective(c)) \in SUBSET Path
    BY <1>0 DEF FilesIn
  <2>3. Rightful(AccessOf(c, "list", p, Root, 0, FilesIn(p, Effective(c))),
                 Indexed(CurrentVault(c)),
             Effective(c))
    BY DEF Rightful, AccessOf, Directions
  <2>4. pc[c] = "tool"
    BY <1>1 DEF ListFiles
  <2> QED BY <1>0, <2>1, <2>2, <2>3, <2>4, GrantIsAccess
<1>2. CASE ListFolder(c)
  <2>1. PICK p \in Targets, depth \in Depths :
          Grant(c, "tree", p, Root, depth, TreeOf(p, depth, Effective(c)))
    BY <1>2 DEF ListFolder
  <2>2. TreeOf(p, depth, Effective(c)) \in SUBSET Path
    BY <1>0 DEF TreeOf
  <2>3. Rightful(AccessOf(c, "tree", p, Root, depth, TreeOf(p, depth, Effective(c))),
                 Indexed(CurrentVault(c)),
             Effective(c))
    BY DEF Rightful, AccessOf, Directions
  <2>4. pc[c] = "tool"
    BY <1>2 DEF ListFolder
  <2> QED BY <1>0, <2>1, <2>2, <2>3, <2>4, GrantIsAccess
<1> QED BY <1>1, <1>2

(* What queries name are paths. *)
LEMMA NameableArePaths == Files \subseteq Nameable /\ Nameable \subseteq Path \ {Root}
  BY PathAssumption DEF Nameable

(* Queries of the index. *)
LEMMA QueryIInv ==
    ASSUME IInv, NEW c \in Call, QueryIndex(c) \/ QueryOrphans(c) \/ QueryGraph(c)
    PROVE  IInv'
<1> DEFINE notes == Indexed(CurrentVault(c))
           e == Effective(c)
<1>0. Root \in Path /\ Files \subseteq Path /\ Depths \subseteq Nat
  BY PathAssumption DEF Root, Path
<1>4. ReadScope(e) \subseteq Path
  BY NameableArePaths DEF ReadScope
<1>1. CASE QueryIndex(c)
  <2> DEFINE shown == notes \cap ReadScope(e)
  <2>1. Grant(c, "query", Root, Root, 0, shown) /\ pc[c] \in {"tool", "resource"}
    BY <1>1 DEF QueryIndex, Inside
  <2>2. shown \in SUBSET Path
    BY <1>4
  <2>3. Rightful(AccessOf(c, "query", Root, Root, 0, shown), notes, e)
    BY DEF Rightful, AccessOf, Directions
  <2> QED BY <1>0, <2>1, <2>2, <2>3, GrantIsAccess
<1>2. CASE QueryOrphans(c)
  <2>0. PICK index \in Indexes(notes) :
          Grant(c, "orphans", Root, Root, 0, Orphans(index, ReadScope(e)))
    BY <1>2 DEF QueryOrphans
  <2> DEFINE shown == Orphans(index, ReadScope(e))
  <2>1. Grant(c, "orphans", Root, Root, 0, shown) /\ pc[c] = "tool"
    BY <1>2, <2>0 DEF QueryOrphans
  <2>2. shown \in SUBSET Path
    BY <1>4 DEF Orphans
  <2> HIDE DEF shown
  <2>3. Rightful(AccessOf(c, "orphans", Root, Root, 0, shown), notes, e)
    BY DEF Rightful, AccessOf, Directions, shown
  <2> QED BY <1>0, <2>1, <2>2, <2>3, GrantIsAccess
<1>3. CASE QueryGraph(c)
  <2>1. PICK root \in Files, depth \in Depths, direction \in Directions,
             index \in Indexes(notes) :
          Grant(c, direction, root, Root, depth,
                Walk(root, depth, index, ReadScope(e), direction))
    BY <1>3 DEF QueryGraph
  <2> DEFINE shown == Walk(root, depth, index, ReadScope(e), direction)
  <2>2. shown \subseteq ReadScope(e)
    BY DEF Walk
  <2>3. shown \in SUBSET Path /\ pc[c] = "tool"
    BY <1>3, <1>4, <2>2 DEF QueryGraph
  <2> HIDE DEF shown
  <2>4. Rightful(AccessOf(c, direction, root, Root, depth, shown), notes, e)
    BY DEF Rightful, AccessOf, Directions, shown
  <2>5. Grant(c, direction, root, Root, depth, shown)
    BY <2>1 DEF shown
  <2> QED BY <1>0, <2>3, <2>4, <2>5, GrantIsAccess
<1> QED BY <1>1, <1>2, <1>3

(* A token is signed for what its identity may do. *)
LEMMA CreateTokenIInv ==
    ASSUME IInv, NEW c \in Call, CreateAttachmentToken(c)
    PROVE  IInv'
<1> USE DEF IInv, requestVars
<1>1. PICK method \in Methods, p \in Targets, ttl \in Ttls :
        tokens' = tokens \cup
          {[identity |-> who[c], method |-> method, path |-> p, vault |-> CurrentVault(c),
            born |-> now, exp |-> now + Clamp(ttl)]}
  BY DEF CreateAttachmentToken
<1>2. who[c] \in Identity /\ CurrentVault(c) \in Vault /\ now \in Nat
  BY NameAssumption DEF CreateAttachmentToken, CurrentVault, TypeOK, Config, Context
<1>3. Clamp(ttl) \in Nat /\ Clamp(ttl) <= MaxTtl
  BY TimeAssumption DEF Clamp
<1> DEFINE t == [identity |-> who[c], method |-> method, path |-> p,
                 vault |-> CurrentVault(c), born |-> now, exp |-> now + Clamp(ttl)]
<1>4. t \in Token /\ t.born <= now /\ TokenFresh(t)
  BY <1>2, <1>3, PathAssumption, TimeAssumption DEF Token, TokenFresh
<1>5. tokens' = tokens \cup {t}
  BY <1>1
<1> HIDE DEF t
<1>6. TypeOK'
  BY <1>4, <1>5 DEF TypeOK, CreateAttachmentToken
<1>7. (\A u \in tokens : u.born <= now /\ TokenFresh(u))'
  BY <1>4, <1>5 DEF TokenFresh, CreateAttachmentToken
<1>8. ASSUME NEW x \in Call
      PROVE  /\ pc'[x] # "idle" => Entitled(x)' /\ FitsGrant(x)'
             /\ pc'[x] = "idle" => done'[x] = NoAccess
  BY OtherCall DEF CreateAttachmentToken
<1>9. running' => Acceptable(config)'
  BY DEF Acceptable, CreateAttachmentToken
<1> QED BY <1>6, <1>7, <1>8, <1>9

(* The finally block resets the context. *)
LEMMA ReturnIInv == ASSUME IInv, NEW c \in Call, Return(c) PROVE IInv'
<1> USE DEF IInv, Return
<1>1. TypeOK'
  BY DEF TypeOK, Context, NoContext, Access, NoAccess, Root, Path
<1>2. ASSUME NEW x \in Call
      PROVE  /\ pc'[x] # "idle" => Entitled(x)' /\ FitsGrant(x)'
             /\ pc'[x] = "idle" => done'[x] = NoAccess
  <2>1. CASE x = c
    BY <2>1 DEF TypeOK
  <2>2. CASE x # c
    <3>1. /\ pc'[x] = pc[x] /\ who'[x] = who[x] /\ want'[x] = want[x] /\ via'[x] = via[x]
          /\ since'[x] = since[x] /\ target'[x] = target[x] /\ context'[x] = context[x]
          /\ done'[x] = done[x]
      BY <2>2 DEF TypeOK
    <3> QED BY <3>1, OtherCall
  <2> QED BY <2>1, <2>2
<1>3. running' => Acceptable(config)'
  BY DEF Acceptable
<1> QED BY <1>1, <1>2, <1>3 DEF TokenFresh

(* No step. *)
LEMMA StutterIInv == ASSUME IInv, UNCHANGED vars PROVE IInv'
<1> USE DEF IInv, vars
<1>1. ASSUME NEW x \in Call
      PROVE  /\ pc'[x] # "idle" => Entitled(x)' /\ FitsGrant(x)'
             /\ pc'[x] = "idle" => done'[x] = NoAccess
  BY OtherCall
<1>2. TypeOK' /\ (running' => Acceptable(config)')
  BY DEF TypeOK, Acceptable
<1> QED BY <1>1, <1>2 DEF TokenFresh

(* The inductive invariant holds in every reachable state. *)
THEOREM AccessInvariance == Spec => []IInv
<1>1. ASSUME IInv, [Next]_vars PROVE IInv'
  <2>1. CASE Start BY <1>1, <2>1, StartIInv
  <2>2. CASE Stop BY <1>1, <2>2, StopIInv
  <2>3. CASE Tick BY <1>1, <2>3, TickIInv
  <2>4. ASSUME NEW c \in Call,
               \/ OnCallTool(c) \/ OnReadResource(c)
               \/ AttachmentByBearer(c) \/ AttachmentByToken(c)
               \/ ResolveRead(c) \/ ResolveWrite(c) \/ Delete(c) \/ Move(c)
               \/ ListFiles(c) \/ ListFolder(c)
               \/ QueryIndex(c) \/ QueryOrphans(c) \/ QueryGraph(c)
               \/ CreateAttachmentToken(c) \/ Download(c) \/ Upload(c) \/ Return(c)
        PROVE  IInv'
    BY <1>1, <2>4, ToolIInv, BearerIInv, TokenIInv, PathGrantIInv, TreeGrantIInv,
       ListIInv, QueryIInv, CreateTokenIInv, ReturnIInv
  <2>5. CASE UNCHANGED vars BY <1>1, <2>5, StutterIInv
  <2> QED BY <1>1, <2>1, <2>2, <2>3, <2>4, <2>5 DEF Next
<1> QED BY <1>1, InitIInv, PTL DEF Spec

-----------------------------------------------------------------------------
(* What follows from the invariant *)

(* What the invariant says of a request with a grant. *)
LEMMA GrantIsEntitled ==
    ASSUME IInv, NEW c \in Call, done[c].kind # "none"
    PROVE  /\ pc[c] # "idle" /\ Entitled(c) /\ FitsGrant(c) /\ Acceptable(config)
           /\ done[c].vault = VaultOf(c) /\ CurrentVault(c) = VaultOf(c)
           /\ VaultOf(c) \in Vault /\ who[c] \in Identity
           /\ done[c].path \in Path /\ done[c].to \in Path
           /\ Rightful(done[c], Indexed(VaultOf(c)), Effective(c))
           /\ Effective(c) = EffectiveFor(VaultOf(c), who[c])
<1>1. pc[c] # "idle"
  BY DEF IInv, NoAccess
<1>2. Entitled(c) /\ FitsGrant(c) /\ Acceptable(config)
  BY <1>1 DEF IInv, Entitled
<1>3. VaultOf(c) \in Vault /\ who[c] \in Identity
  BY <1>2 DEF Entitled, IInv, TypeOK, Config
<1>4. CurrentVault(c) = VaultOf(c) /\ context[c].identity = who[c]
  BY <1>2, <1>3, NameAssumption DEF Entitled, CurrentVault
<1>5. done[c].vault = VaultOf(c)
  BY <1>2, <1>4 DEF FitsGrant
<1>6. done[c].path \in Path /\ done[c].to \in Path
  BY DEF IInv, TypeOK, Access
<1>7. Rightful(done[c], Indexed(VaultOf(c)), Effective(c))
  BY <1>2, <1>5 DEF FitsGrant
<1> QED BY <1>1, <1>2, <1>3, <1>4, <1>5, <1>6, <1>7 DEF Effective

(* The merged policy permits what both policies permit. *)
LEMMA EffectiveMeansBoth ==
    ASSUME IInv, NEW c \in Call, done[c].kind # "none", NEW p \in Path
    PROVE  /\ PermitsRead(p, Effective(c), FALSE) <=> BothRead(c, VaultOf(c), p)
           /\ PermitsWrite(p, Effective(c)) <=> BothWrite(c, VaultOf(c), p)
<1> DEFINE v == VaultOf(c)
           vault == config.base[v]
           override == config.override[who[c]][v]
<1>1. v \in Vault /\ who[c] \in Identity /\ Effective(c) = EffectiveFor(v, who[c])
  BY GrantIsEntitled
<1>2. Effective(c) = MergedWith(vault, override) /\ vault \in Policy /\ override \in Policy
  BY <1>1, EffectiveIsPolicy DEF IInv
<1>3. ~Widens(vault, override)
  BY GrantIsEntitled, <1>1 DEF Acceptable, Entitled
<1> HIDE DEF v, vault, override
<1>4. PermitsRead(p, MergedWith(vault, override), FALSE)
        <=> PermitsRead(p, vault, FALSE) /\ PermitsRead(p, override, FALSE)
  BY <1>2, <1>3, MergedRead, Zenon
<1>5. PermitsWrite(p, MergedWith(vault, override))
        <=> PermitsWrite(p, vault) /\ PermitsWrite(p, override)
  BY <1>2, <1>3, MergedWrite, Zenon
<1> QED BY <1>2, <1>4, <1>5 DEF BothRead, BothWrite, v, vault, override

(* ReadScope.allows agrees with permits_read. *)
LEMMA ScopeIsPermission ==
    ASSUME NEW f, NEW policy
    PROVE  ScopeAllows(f, policy) <=> PermitsRead(f, policy, FALSE)
  BY DEF ScopeAllows, PermitsRead, InReadScope, Denied

(* No answer names what the merged policy does not let read. *)
LEMMA ShownIsReadable ==
    ASSUME IInv, NEW c \in Call, done[c].kind # "none", NEW f \in done[c].shown
    PROVE  f \in Path /\ PermitsRead(f, Effective(c), FALSE)
<1> DEFINE d == done[c]
           e == Effective(c)
<1>1. Rightful(d, Indexed(VaultOf(c)), e) /\ d \in Access
  BY GrantIsEntitled DEF IInv, TypeOK
<1> SUFFICES f \in Path /\ PermitsRead(f, e, FALSE)
  OBVIOUS
<1> HIDE DEF d, e
<1>2. d.kind # "none" /\ f \in d.shown
  BY DEF d
<1>3. \A g \in ReadScope(e) : g \in Path /\ PermitsRead(g, e, FALSE)
  BY ScopeIsPermission, NameableArePaths DEF ReadScope
<1>4. CASE d.kind \in {"list", "tree"}
  <2>1. f \in FilesIn(d.path, e) \/ f \in TreeOf(d.path, d.depth, e)
    BY <1>1, <1>2, <1>4 DEF Rightful
  <2> QED BY <2>1, PathAssumption DEF FilesIn, TreeOf, Discovers
<1>5. CASE d.kind \in {"query", "orphans"} \cup Directions
  <2>2. \A depth, direction, index :
          /\ Walk(d.path, depth, index, ReadScope(e), direction) \subseteq ReadScope(e)
          /\ Orphans(index, ReadScope(e)) \subseteq ReadScope(e)
    BY DEF Walk, Orphans
  <2>1. f \in ReadScope(e)
    BY <1>1, <1>2, <1>5, <2>2 DEF Rightful
  <2> QED BY <1>3, <2>1
<1>6. CASE d.kind \in {"read", "write", "delete", "move"}
  BY <1>1, <1>2, <1>6 DEF Rightful
<1>7. d.kind \in {"read", "write", "delete", "move", "list", "tree", "query", "orphans"}
                   \cup Directions
  BY <1>1, <1>2 DEF Access
<1> QED BY <1>4, <1>5, <1>6, <1>7

(* Variables only take values of their types. *)
THEOREM AccessTypeCorrect == Spec => []TypeOK
<1>1. IInv => TypeOK
  BY DEF IInv
<1> QED BY <1>1, AccessInvariance, PTL

(* An override never widens what the vault's own policy permits, and no     *)
(* request reaches a vault its identity is not listed for.                  *)
THEOREM AccessIsRestricted == Spec => []OverridesOnlyRestrict
<1>1. ASSUME IInv PROVE OverridesOnlyRestrict
  <2>1. SUFFICES ASSUME NEW c \in Call, done[c].kind # "none"
        PROVE  /\ done[c].vault \in config.allowed[who[c]]
               /\ done[c].kind = "read" => BothRead(c, done[c].vault, done[c].path)
               /\ done[c].kind = "write" => BothWrite(c, done[c].vault, done[c].path)
               /\ \A f \in done[c].shown : BothRead(c, done[c].vault, f)
    BY DEF OverridesOnlyRestrict
  <2>2. /\ Entitled(c) /\ done[c].vault = VaultOf(c) /\ done[c].path \in Path
        /\ Rightful(done[c], Indexed(VaultOf(c)), Effective(c))
    BY <1>1, <2>1, GrantIsEntitled
  <2>3. done[c].vault \in config.allowed[who[c]]
    BY <2>2 DEF Entitled
  <2>4. /\ done[c].kind = "read" => BothRead(c, done[c].vault, done[c].path)
        /\ done[c].kind = "write" => BothWrite(c, done[c].vault, done[c].path)
    BY <1>1, <2>1, <2>2, EffectiveMeansBoth DEF Rightful
  <2>5. ASSUME NEW f \in done[c].shown PROVE BothRead(c, done[c].vault, f)
    <3>1. f \in Path /\ PermitsRead(f, Effective(c), FALSE)
      BY <1>1, <2>1, <2>2, <2>5, ShownIsReadable
    <3> QED BY <1>1, <2>1, <2>2, <3>1, EffectiveMeansBoth
  <2> QED BY <2>3, <2>4, <2>5
<1> QED BY <1>1, AccessInvariance, PTL

(* A request works in the vault it named, in its identity's default if it   *)
(* named none, and with a token in the vault the token was signed for.      *)
THEOREM VaultIsKept == Spec => []RequestKeepsItsVault
<1>1. ASSUME IInv PROVE RequestKeepsItsVault
  BY <1>1, GrantIsEntitled DEF RequestKeepsItsVault, VaultOf
<1> QED BY <1>1, AccessInvariance, PTL

(* A token is good for its own path and method until it expires, whatever   *)
(* restarts and changes of vaults.json lie between.                         *)
THEOREM TokensAreBound == Spec => []TokenIsBound
<1>1. ASSUME IInv PROVE TokenIsBound
  <2>1. SUFFICES ASSUME NEW c \in Call, done[c].kind # "none", via[c] # NoToken
        PROVE  /\ done[c].path = via[c].path
               /\ done[c].kind = IF via[c].method = "GET" THEN "read" ELSE "write"
               /\ via[c].born <= since[c] /\ since[c] <= via[c].exp
               /\ via[c].exp - via[c].born <= MaxTtl
    BY DEF TokenIsBound
  <2>2. FitsToken(c) /\ FitsGrant(c)
    BY <1>1, <2>1, GrantIsEntitled DEF Entitled
  <2> QED BY <2>1, <2>2 DEF FitsToken, FitsGrant
<1> QED BY <1>1, AccessInvariance, PTL

(* Files and folders are named by paths. *)
LEMMA NodesArePaths == Nodes \subseteq Path
<1>1. ASSUME NEW f \in Files, NEW n \in 1..Len(f) PROVE SubSeq(f, 1, n) \in Path
  <2>1. f \in Seq(Component)
    BY PathAssumption DEF Path
  <2> QED BY <2>1 DEF Path
<1>2. ASSUME NEW q \in Nodes PROVE q \in Path
  <2>1. PICK f \in Files : \E n \in 1..Len(f) : q = SubSeq(f, 1, n)
    BY DEF Nodes
  <2> QED BY <1>1, <2>1
<1> QED BY <1>2

(* What is below a path has a path below the new one. *)
LEMMA MappedIsPath ==
    ASSUME NEW from \in Path, NEW to \in Path, NEW q \in TreePaths(from)
    PROVE  Mapped(q, from, to) \in Path
<1>1. q \in Seq(Component) /\ from \in Seq(Component) /\ to \in Seq(Component)
  BY NodesArePaths DEF TreePaths, Path
<1>2. SubSeq(q, Len(from) + 1, Len(q)) \in Seq(Component)
  BY <1>1
<1> QED BY <1>1, <1>2 DEF Mapped, Path

(* Deny rules hold for every spelling of a path. *)
THEOREM NoAliasGetsThrough == Spec => []DenyCoversAliases
<1>1. ASSUME IInv PROVE DenyCoversAliases
  <2>1. SUFFICES
          ASSUME NEW c \in Call, done[c].kind \in {"read", "write"},
                 NEW policy \in {config.base[done[c].vault],
                                 config.override[who[c]][done[c].vault]},
                 NEW alias \in Targets, CaseFold(alias) = CaseFold(done[c].path),
                 NEW r \in IF done[c].kind = "read" THEN policy.denyRead
                           ELSE policy.denyWrite
          PROVE  ~Matches(alias, r)
    BY DEF DenyCoversAliases
  <2>2. /\ Rightful(done[c], Indexed(VaultOf(c)), Effective(c)) /\ done[c].vault = VaultOf(c)
        /\ VaultOf(c) \in Vault /\ who[c] \in Identity /\ done[c].path \in Path
    BY <1>1, <2>1, GrantIsEntitled
  <2>3. policy \in Policy /\ alias \in Path
    BY <1>1, <2>1, <2>2, EffectiveIsPolicy, PathAssumption DEF IInv
  <2> DEFINE rules == IF done[c].kind = "read" THEN policy.denyRead ELSE policy.denyWrite
  <2>4. /\ done[c].kind = "read" => BothRead(c, done[c].vault, done[c].path)
        /\ done[c].kind = "write" => BothWrite(c, done[c].vault, done[c].path)
    BY <1>1, <2>1, <2>2, EffectiveMeansBoth DEF Rightful
  <2>5. ~Denied(done[c].path, rules) /\ rules \in SUBSET Rule
    BY <2>1, <2>3, <2>4 DEF BothRead, BothWrite, PermitsRead, PermitsWrite, Policy
  <2> QED BY <2>1, <2>2, <2>3, <2>5, AliasesAreDenied
<1> QED BY <1>1, AccessInvariance, PTL

(* What a link reaches by a name of the alias map it may name. *)
LEMMA AliasMayName ==
    ASSUME NEW notes \in SUBSET Files, NEW index \in Indexes(notes), NEW name \in Names,
           index.alias[name] # Root
    PROVE  /\ index.alias[name] \in Files
           /\ name \in Called(index.alias[name])
  BY DEF Indexes

(* A backlink is a link that may name the note. *)
LEMMA BacklinksMayLink ==
    ASSUME NEW notes \in SUBSET Files, NEW index \in Indexes(notes), NEW p \in Path \ {Root},
           NEW g \in Backlinks(p, index)
    PROVE  g \in notes /\ MayLink(g, p)
<1>1. PICK link \in LinkTargets[g] :
        \/ link \in OwnNames(p)
        \/ link \in Names /\ index.alias[link] = p
  BY DEF Backlinks
<1>2. g \in notes
  BY DEF Backlinks, Indexes
<1>3. MayName(link, p)
  BY <1>1, AliasMayName DEF MayName
<1> QED BY <1>2, <1>3 DEF MayLink

(* The index filtered for an identity shows all that it may read and no     *)
(* more, and what it may not read makes no note less of an orphan.          *)
THEOREM QueriesAreExact == Spec => []QueryShowsWhatCanBeRead
<1>1. ASSUME IInv PROVE QueryShowsWhatCanBeRead
  <2>1. SUFFICES
          ASSUME NEW c \in Call, done[c].kind \in {"query", "orphans"}
          PROVE  LET d == done[c]
                     readable == {f \in Indexed(d.vault) : BothRead(c, d.vault, f)} IN
                 /\ d.kind = "query" => d.shown = readable
                 /\ d.kind = "orphans" =>
                      /\ {f \in readable : \A g \in readable : ~MayLink(g, f)} \subseteq d.shown
                      /\ d.shown \subseteq
                           {f \in readable :
                              \A g \in readable : LinkTargets[g] \cap OwnNames(f) = {}}
    BY DEF QueryShowsWhatCanBeRead
  <2> DEFINE v == VaultOf(c)
             scope == ReadScope(Effective(c))
             readable == {f \in Indexed(v) : BothRead(c, v, f)}
  <2>2. done[c].vault = v /\ Rightful(done[c], Indexed(v), Effective(c))
    BY <1>1, <2>1, GrantIsEntitled
  <2>3. ASSUME NEW f \in Files
        PROVE  f \in scope <=> BothRead(c, v, f)
    <3>1. f \in Path /\ f \in Nameable
      BY PathAssumption, NameableArePaths
    <3> QED BY <1>1, <2>1, <3>1, EffectiveMeansBoth, ScopeIsPermission DEF ReadScope
  <2> HIDE DEF scope
  <2>4. readable = Indexed(v) \cap scope /\ Indexed(v) \in SUBSET Files
    BY <2>3 DEF Indexed
  <2>5. done[c].kind = "query" => done[c].shown = readable
    BY <2>2, <2>4 DEF Rightful, scope
  <2> HIDE DEF readable, v
  <2>6. ASSUME done[c].kind = "orphans"
        PROVE  /\ {f \in readable : \A g \in readable : ~MayLink(g, f)} \subseteq done[c].shown
               /\ done[c].shown \subseteq
                    {f \in readable : \A g \in readable : LinkTargets[g] \cap OwnNames(f) = {}}
    <3>1. PICK index \in Indexes(Indexed(v)) : done[c].shown = Orphans(index, scope)
      BY <2>2, <2>6 DEF Rightful, scope
    <3>2. index.notes = Indexed(v)
      BY DEF Indexes
    <3>3. ASSUME NEW f \in readable, \A g \in readable : ~MayLink(g, f)
          PROVE  f \in done[c].shown
      <4>1. f \in Path \ {Root}
        BY <2>4, PathAssumption
      <4>2. Backlinks(f, index) \cap scope = {}
        BY <2>4, <3>3, <4>1, BacklinksMayLink
      <4> QED BY <2>4, <3>1, <3>2, <4>2 DEF Orphans
    <3>4. ASSUME NEW f \in done[c].shown, NEW g \in readable
          PROVE  f \in readable /\ LinkTargets[g] \cap OwnNames(f) = {}
      <4>1. f \in readable /\ Backlinks(f, index) \cap scope = {}
        BY <2>4, <3>1, <3>2 DEF Orphans
      <4> QED BY <2>4, <3>2, <4>1 DEF Backlinks
    <3> QED BY <3>1, <3>3, <3>4, <2>4, <3>2 DEF Orphans
  <2> QED BY <2>2, <2>5, <2>6 DEF readable
<1> QED BY <1>1, AccessInvariance, PTL

(* Write denials of both are kept. *)
LEMMA MergedDenyWrite ==
    ASSUME NEW vault, NEW override
    PROVE  MergedWith(vault, override).denyWrite = vault.denyWrite \cup override.denyWrite
  BY DEF MergedWith, MergeDenylist

(* Every file of a tree that is moved or removed was the identity's to      *)
(* write, where it was and where it goes, and no protected name is touched. *)
THEOREM TreesAreAuthorized == Spec => []FolderOperationsAreAuthorized
<1>1. ASSUME IInv PROVE FolderOperationsAreAuthorized
  <2>1. SUFFICES ASSUME NEW c \in Call, done[c].kind \in {"delete", "move"}
        PROVE  LET d == done[c] IN
            /\ \A q \in TreePaths(d.path) :
                  /\ BothWrite(c, d.vault, q)
                  /\ BothWrite(c, d.vault, Mapped(q, d.path, d.to))
            /\ IsFolder(d.path) =>
                  \A policy \in {config.base[d.vault], config.override[who[c]][d.vault]} :
                      ~CrossesProtected(d.path, policy) /\ ~CrossesProtected(d.to, policy)
    BY DEF FolderOperationsAreAuthorized
  <2> DEFINE d == done[c]
             e == Effective(c)
  <2>2. /\ d.vault = VaultOf(c) /\ Rightful(d, Indexed(VaultOf(c)), e)
        /\ VaultOf(c) \in Vault /\ who[c] \in Identity
        /\ d.path \in Path /\ d.to \in Path /\ e = EffectiveFor(VaultOf(c), who[c])
    BY <1>1, <2>1, GrantIsEntitled
  <2>3. Authorizes(d.path, d.to, e)
    BY <2>1, <2>2 DEF Rightful
  <2>4. e = MergedWith(config.base[d.vault], config.override[who[c]][d.vault])
    BY <1>1, <2>2, EffectiveIsPolicy DEF IInv
  <2>5. ASSUME NEW p \in Path, PermitsWrite(p, e) PROVE BothWrite(c, d.vault, p)
    BY <1>1, <2>1, <2>2, <2>5, EffectiveMeansBoth
  <2>6. ASSUME NEW q \in TreePaths(d.path)
        PROVE  BothWrite(c, d.vault, q) /\ BothWrite(c, d.vault, Mapped(q, d.path, d.to))
    <3>1. q \in Path
      BY <2>6, NodesArePaths DEF TreePaths
    <3>2. Mapped(q, d.path, d.to) \in Path
      BY <2>2, <2>6, <3>1, MappedIsPath
    <3> QED BY <2>3, <2>5, <2>6, <3>1, <3>2 DEF Authorizes
  <2>9. e.denyWrite = config.base[d.vault].denyWrite
                        \cup config.override[who[c]][d.vault].denyWrite
    BY <2>4, MergedDenyWrite
  <2>7. ASSUME IsFolder(d.path),
               NEW policy \in {config.base[d.vault], config.override[who[c]][d.vault]},
               NEW p, ~CrossesProtected(p, e)
        PROVE  ~CrossesProtected(p, policy)
    BY <2>7, <2>9 DEF CrossesProtected
  <2>8. IsFolder(d.path) => ~CrossesProtected(d.path, e) /\ ~CrossesProtected(d.to, e)
    BY <2>3 DEF Authorizes
  <2> QED BY <2>6, <2>7, <2>8
<1> QED BY <1>1, AccessInvariance, PTL

-----------------------------------------------------------------------------
(* Listings *)

(* A granted listing omits nothing that can be read, but below folders that *)
(* an exact deny rule names.                                                *)
THEOREM ListingsAreComplete == Spec => []ListingComplete
<1>1. ASSUME IInv PROVE ListingComplete
  <2>1. SUFFICES ASSUME NEW c \in Call, done[c].kind \in {"list", "tree"}, NEW f \in Files,
                        Below(f, done[c].path), Undotted(f, 1),
                        BothRead(c, done[c].vault, f),
                        done[c].kind = "tree" => Len(f) <= Len(done[c].path) + done[c].depth,
                        ~DeniedOnTheWay(c, f)
        PROVE  f \in done[c].shown
    BY DEF ListingComplete
  <2>2. /\ Rightful(done[c], Indexed(VaultOf(c)), Effective(c)) /\ done[c].vault = VaultOf(c)
        /\ VaultOf(c) \in Vault /\ who[c] \in Identity /\ done[c].path \in Path
        /\ Effective(c) = EffectiveFor(VaultOf(c), who[c])
    BY <1>1, <2>1, GrantIsEntitled
  <2>3. f \in Path
    BY PathAssumption
  <2>4. PermitsRead(f, Effective(c), FALSE)
    BY <1>1, <2>1, <2>2, <2>3, EffectiveMeansBoth
  <2>5. /\ Effective(c) \in Policy
        /\ Effective(c) = MergedWith(config.base[VaultOf(c)],
                                     config.override[who[c]][VaultOf(c)])
    BY <1>1, <2>2, EffectiveIsPolicy DEF IInv
  <2>6. ASSUME NEW k \in Len(done[c].path)..(Len(f) - 1), NEW r \in Effective(c).denyRead
        PROVE  r.recursive \/ CaseFold(r.scope) # CaseFold(SubSeq(f, 1, k))
    <3> DEFINE base == config.base[VaultOf(c)]
               override == config.override[who[c]][VaultOf(c)]
    <3>1. r \in base.denyRead \cup override.denyRead
      <4>1. MergedWith(base, override).denyRead = base.denyRead \cup override.denyRead
        BY DEF MergedWith, MergeDenylist
      <4> HIDE DEF base, override
      <4>2. Effective(c).denyRead = base.denyRead \cup override.denyRead
        BY <2>5, <4>1 DEF base, override
      <4> QED BY <2>6, <4>2
    <3> QED BY <2>1, <2>2, <3>1 DEF DeniedOnTheWay
  <2>7. Discovers(done[c].path, f, Effective(c))
    BY <2>1, <2>2, <2>3, <2>4, <2>5, <2>6, DiscoveryComplete
  <2>8. Undotted(f, Len(done[c].path) + 1)
    BY <2>1, <2>2, <2>3 DEF Undotted, Path
  <2> QED BY <2>1, <2>2, <2>7, <2>8 DEF Rightful, FilesIn, TreeOf
<1> QED BY <1>1, AccessInvariance, PTL
-----------------------------------------------------------------------------
(* The link graph *)

(* One step of the walk, and the chains of n names it is about. *)
Linked(f, g, index, direction) ==
    \/ direction # "incoming" /\ g \in Outlinks(f, index)
    \/ direction # "outgoing" /\ g \in Backlinks(f, index)

IsChain(chain, n, index, scope, direction) ==
    /\ chain \in [1..n -> Nameable]
    /\ \A k \in 1..n : chain[k] \in scope
    /\ \A k \in 1..(n - 1) : Linked(chain[k], chain[k + 1], index, direction)

Leads(root, n, f, index, scope, direction) ==
    \E chain : /\ IsChain(chain, n, index, scope, direction)
               /\ chain[1] = root /\ chain[n] = f

(* A neighbour is what one link of the right direction leads to. *)
LEMMA NeighboursAreLinked ==
    ASSUME NEW f \in Nameable, NEW index, NEW scope \in SUBSET Nameable,
           NEW direction
    PROVE  Neighbours(f, index, scope, direction)
             = {g \in scope : Linked(f, g, index, direction)}
  BY DEF Neighbours, Linked

(* A chain of one name is the root. *)
LEMMA OneName ==
    ASSUME NEW root \in Nameable, NEW f \in Nameable, NEW index, NEW scope, NEW direction
    PROVE  Leads(root, 1, f, index, scope, direction) <=> f = root /\ root \in scope
<1>1. ASSUME f = root, root \in scope PROVE Leads(root, 1, f, index, scope, direction)
  <2> DEFINE chain == [k \in 1..1 |-> root]
  <2>1. IsChain(chain, 1, index, scope, direction)
    BY <1>1 DEF IsChain
  <2>2. chain[1] = root
    OBVIOUS
  <2> HIDE DEF chain
  <2> QED BY <1>1, <2>1, <2>2 DEF Leads
<1>2. ASSUME Leads(root, 1, f, index, scope, direction) PROVE f = root /\ root \in scope
  BY <1>2 DEF Leads, IsChain
<1> QED BY <1>1, <1>2

(* A chain of one name more is a chain and a link. *)
LEMMA OneMoreName ==
    ASSUME NEW root \in Nameable, NEW n \in Nat \ {0}, NEW g \in Nameable, NEW index, NEW scope,
           NEW direction
    PROVE  Leads(root, n + 1, g, index, scope, direction)
             <=> \E f \in Nameable : /\ Leads(root, n, f, index, scope, direction)
                                 /\ g \in scope /\ Linked(f, g, index, direction)
<1>1. ASSUME NEW f \in Nameable, Leads(root, n, f, index, scope, direction),
             g \in scope, Linked(f, g, index, direction)
      PROVE  Leads(root, n + 1, g, index, scope, direction)
  <2>1. PICK chain : /\ IsChain(chain, n, index, scope, direction)
                     /\ chain[1] = root /\ chain[n] = f
    BY <1>1 DEF Leads
  <2> DEFINE longer == [k \in 1..(n + 1) |-> IF k = n + 1 THEN g ELSE chain[k]]
  <2>2. longer \in [1..(n + 1) -> Nameable]
    BY <2>1 DEF IsChain
  <2>3. \A k \in 1..n : longer[k] = chain[k]
    OBVIOUS
  <2>4. longer[n + 1] = g
    OBVIOUS
  <2> HIDE DEF longer
  <2>5. \A k \in 1..(n + 1) : longer[k] \in scope
    BY <1>1, <2>1, <2>3, <2>4 DEF IsChain
  <2>6. ASSUME NEW k \in 1..n PROVE Linked(longer[k], longer[k + 1], index, direction)
    <3>1. CASE k = n
      BY <1>1, <2>1, <2>3, <2>4, <3>1
    <3>2. CASE k < n
      <4>1. k \in 1..(n - 1) /\ k + 1 \in 1..n
        BY <3>2
      <4> QED BY <2>1, <2>3, <4>1 DEF IsChain
    <3> QED BY <3>1, <3>2
  <2>7. IsChain(longer, n + 1, index, scope, direction)
    BY <2>2, <2>5, <2>6 DEF IsChain
  <2>8. longer[1] = root
    BY <2>1, <2>3
  <2> QED BY <2>4, <2>7, <2>8 DEF Leads
<1>2. ASSUME Leads(root, n + 1, g, index, scope, direction)
      PROVE  \E f \in Nameable : /\ Leads(root, n, f, index, scope, direction)
                             /\ g \in scope /\ Linked(f, g, index, direction)
  <2>1. PICK chain : /\ IsChain(chain, n + 1, index, scope, direction)
                     /\ chain[1] = root /\ chain[n + 1] = g
    BY <1>2 DEF Leads
  <2> DEFINE shorter == [k \in 1..n |-> chain[k]]
  <2>2. /\ shorter \in [1..n -> Nameable] /\ chain[n] \in Nameable
        /\ \A k \in 1..n : shorter[k] = chain[k]
    BY <2>1 DEF IsChain
  <2> HIDE DEF shorter
  <2>3. IsChain(shorter, n, index, scope, direction)
    BY <2>1, <2>2 DEF IsChain
  <2>4. Leads(root, n, chain[n], index, scope, direction)
    BY <2>1, <2>2, <2>3 DEF Leads
  <2>5. g \in scope /\ Linked(chain[n], g, index, direction)
    BY <2>1 DEF IsChain
  <2> QED BY <2>2, <2>4, <2>5
<1> QED BY <1>1, <1>2

(* What the walk reaches in a number of rounds. *)
Rounds(R, root, index, scope, direction) ==
    /\ R \in [Nat -> SUBSET Nameable]
    /\ R[0] = {root} \cap scope
    /\ \A n \in Nat :
         R[n + 1] = R[n] \cup UNION {Neighbours(f, index, scope, direction) : f \in R[n]}

(* The recursion of Walk has a solution, whatever the links. *)
LEMMA WalkGoesInRounds ==
    ASSUME NEW root \in Nameable, NEW depth \in Nat, NEW index,
           NEW scope \in SUBSET Nameable, NEW direction
    PROVE  \E R : /\ Rounds(R, root, index, scope, direction)
                  /\ Walk(root, depth, index, scope, direction) = scope \cap R[depth + 1]
<1> DEFINE Wider(A) == A \cup UNION {Neighbours(f, index, scope, direction) : f \in A}
           h == [A \in SUBSET Nameable |-> Wider(A)]
           R == CHOOSE r : r = [n \in Nat |-> IF n = 0 THEN {root} \cap scope
                                              ELSE Wider(r[n - 1])]
<1>1. \A A \in SUBSET Nameable : Wider(A) \in SUBSET Nameable
  BY NeighboursAreLinked
<1> HIDE DEF Wider
<1>2. h \in [SUBSET Nameable -> SUBSET Nameable] /\ {root} \cap scope \in SUBSET Nameable
  BY <1>1
<1> HIDE DEF h
<1> DEFINE first == {root} \cap scope
           Powers == SUBSET Nameable
<1>3. PICK r : /\ r \in [Nat -> Powers]
               /\ r = [n \in Nat |-> IF n = 0 THEN first ELSE h[r[n - 1]]]
  <2> HIDE DEF first, Powers
  <2>1. h \in [Powers -> Powers] /\ first \in Powers
    BY <1>2 DEF first, Powers
  <2> QED BY <2>1, IterationExists
<1>4. r = [n \in Nat |-> IF n = 0 THEN {root} \cap scope ELSE Wider(r[n - 1])]
  <2>1. \A A \in SUBSET Nameable : h[A] = Wider(A)
    BY DEF h
  <2>2. \A n \in Nat : n # 0 => h[r[n - 1]] = Wider(r[n - 1])
    <3>1. \A n \in Nat : n # 0 => n - 1 \in Nat
      OBVIOUS
    <3>2. \A n \in Nat : r[n] \in SUBSET Nameable
      BY <1>3
    <3> QED BY <2>1, <3>1, <3>2
  <2> QED BY <1>3, <2>2
<1>5. R = [n \in Nat |-> IF n = 0 THEN {root} \cap scope ELSE Wider(R[n - 1])]
  BY <1>4
<1>6. Walk(root, depth, index, scope, direction) = scope \cap R[depth + 1]
  BY DEF Walk, Wider
<1> HIDE DEF R
<1>7. R[0] = {root} \cap scope /\ \A n \in Nat : R[n + 1] = Wider(R[n])
  <2>1. ASSUME NEW n \in Nat PROVE R[n + 1] = Wider(R[n])
    <3>1. n + 1 \in Nat /\ n + 1 # 0 /\ (n + 1) - 1 = n
      OBVIOUS
    <3> QED BY <1>5, <3>1
  <2> QED BY <1>5, <2>1
<1>8. \A n \in Nat : R[n] \in SUBSET Nameable
  <2> DEFINE T == {n \in Nat : R[n] \in SUBSET Nameable}
  <2>1. 0 \in T
    BY <1>2, <1>7
  <2>2. \A n \in Nat : n \in T => n + 1 \in T
    BY <1>1, <1>7
  <2> HIDE DEF T
  <2>3. Nat \subseteq T
    BY <2>1, <2>2, SetInduction
  <2> QED BY <2>3 DEF T
<1>9. R \in [Nat -> SUBSET Nameable]
  BY <1>5, <1>8
<1>10. Rounds(R, root, index, scope, direction)
  BY <1>7, <1>9 DEF Rounds, Wider
<1> QED BY <1>6, <1>10

ReachedIn(root, n, index, scope, direction) ==
    {f \in Nameable : \E k \in 1..(n + 1) : Leads(root, k, f, index, scope, direction)}

(* In n rounds the walk reaches the ends of the chains of at most n + 1     *)
(* names.                                                                   *)
LEMMA RoundsAreChains ==
    ASSUME NEW root \in Nameable, NEW index, NEW scope \in SUBSET Nameable,
           NEW direction, NEW R, Rounds(R, root, index, scope, direction), NEW n \in Nat
    PROVE  R[n] = ReachedIn(root, n, index, scope, direction)
<1> USE DEF ReachedIn
<1> DEFINE Reached(m) == ReachedIn(root, m, index, scope, direction)
           T == {m \in Nat : R[m] = Reached(m)}
<1>1. 0 \in T
  <2>1. R[0] = {root} \cap scope
    BY DEF Rounds
  <2>2. \A f \in Nameable : (\E k \in 1..(0 + 1) : Leads(root, k, f, index, scope, direction))
                           <=> Leads(root, 1, f, index, scope, direction)
    <3>1. 1..(0 + 1) = {1}
      OBVIOUS
    <3> QED BY <3>1
  <2> QED BY <2>1, <2>2, OneName
<1>2. ASSUME NEW m \in Nat, m \in T PROVE m + 1 \in T
  <2>1. R[m + 1] = R[m] \cup UNION {Neighbours(f, index, scope, direction) : f \in R[m]}
    BY DEF Rounds
  <2>2. R[m] = Reached(m)
    BY <1>2
  <2>3. ASSUME NEW g \in Nameable
        PROVE  g \in Reached(m + 1)
                 <=> g \in Reached(m)
                     \/ \E f \in Reached(m) : g \in scope /\ Linked(f, g, index, direction)
    <3>1. ASSUME g \in Reached(m) PROVE g \in Reached(m + 1)
      <4>1. \A k \in 1..(m + 1) : k \in 1..((m + 1) + 1)
        OBVIOUS
      <4> QED BY <3>1, <4>1
    <3>2. ASSUME NEW f \in Reached(m), g \in scope, Linked(f, g, index, direction)
          PROVE  g \in Reached(m + 1)
      <4>1. PICK k \in 1..(m + 1) : Leads(root, k, f, index, scope, direction)
        BY <3>2
      <4>2. k \in Nat \ {0} /\ k + 1 \in 1..((m + 1) + 1) /\ f \in Nameable
        BY <3>2
      <4>3. Leads(root, k + 1, g, index, scope, direction)
        BY <3>2, <4>1, <4>2, OneMoreName
      <4> QED BY <4>2, <4>3
    <3>3. ASSUME g \in Reached(m + 1), g \notin Reached(m)
          PROVE  \E f \in Reached(m) : g \in scope /\ Linked(f, g, index, direction)
      <4>1. PICK k \in 1..((m + 1) + 1) : Leads(root, k, g, index, scope, direction)
        BY <3>3
      <4>2. k \notin 1..(m + 1)
        BY <3>3, <4>1
      <4>3. k = (m + 1) + 1
        BY <4>2
      <4>4. m + 1 \in Nat \ {0} /\ m + 1 \in 1..(m + 1)
        OBVIOUS
      <4>5. PICK f \in Nameable : /\ Leads(root, m + 1, f, index, scope, direction)
                               /\ g \in scope /\ Linked(f, g, index, direction)
        BY <4>1, <4>3, <4>4, OneMoreName
      <4> QED BY <4>4, <4>5
    <3> QED BY <3>1, <3>2, <3>3
  <2>4. \A f \in Reached(m) : Neighbours(f, index, scope, direction)
                                = {g \in scope : Linked(f, g, index, direction)}
    BY NeighboursAreLinked
  <2>5. R[m + 1] \subseteq Nameable
    BY DEF Rounds
  <2>6. Reached(m) \subseteq Nameable /\ Reached(m + 1) \subseteq Nameable
    OBVIOUS
  <2> HIDE DEF Reached
  <2>7. R[m + 1] = Reached(m + 1)
    BY <2>1, <2>2, <2>3, <2>4, <2>5, <2>6
  <2> QED BY <2>7
<1> HIDE DEF T
<1>3. n \in T
  BY <1>1, <1>2, SetInduction
<1> QED BY <1>3 DEF T

(* The graph names nothing but what chains of readable notes lead to, for   *)
(* any links, any names and any depth.                                      *)
THEOREM GraphsStayInSight == Spec => []GraphStaysInSight
<1>1. ASSUME IInv PROVE GraphStaysInSight
  <2> DEFINE Step(c, p, q) ==
        \/ done[c].kind # "incoming" /\ p \in Indexed(done[c].vault) /\ MayLink(p, q)
        \/ done[c].kind # "outgoing" /\ q \in Indexed(done[c].vault) /\ MayLink(q, p)
  <2> SUFFICES
        ASSUME NEW c \in Call, done[c].kind \in Directions, NEW p \in done[c].shown
        PROVE  \E n \in 1..(done[c].depth + 2) : \E chain \in [1..n -> Nameable] :
                 /\ chain[1] = done[c].path /\ chain[n] = p
                 /\ \A k \in 1..n : BothRead(c, done[c].vault, chain[k])
                 /\ \A k \in 1..(n - 1) : Step(c, chain[k], chain[k + 1])
    BY DEF GraphStaysInSight
  <2> DEFINE d == done[c]
             notes == Indexed(d.vault)
             scope == ReadScope(Effective(c))
  <2>1. d.kind # "none"
    BY DEF Directions
  <2>2. d.vault = VaultOf(c) /\ Rightful(d, notes, Effective(c))
    BY <1>1, <2>1, GrantIsEntitled
  <2>3. PICK index \in Indexes(notes) :
          d.path \in Files /\ d.shown = Walk(d.path, d.depth, index, scope, d.kind)
    BY <2>2 DEF Rightful
  <2>4. d.depth \in Nat
    BY <1>1 DEF IInv, TypeOK, Access
  <2>5. ASSUME NEW f \in scope
        PROVE  BothRead(c, d.vault, f)
    <3>1. f \in Path
      BY NameableArePaths DEF ReadScope
    <3> QED BY <1>1, <2>1, <2>2, <3>1, EffectiveMeansBoth, ScopeIsPermission DEF ReadScope
  <2>6. /\ notes \in SUBSET Files /\ scope \in SUBSET Nameable /\ d.path \in Nameable
        /\ p \in d.shown /\ d.kind \in Directions
    BY <2>3, NameableArePaths DEF Indexed, ReadScope
  <2>7. ASSUME NEW f \in Nameable, NEW g \in Nameable, Linked(f, g, index, d.kind)
        PROVE  Step(c, f, g)
    <3>1. index.notes = notes
      BY DEF Indexes
    <3>2. CASE d.kind # "incoming" /\ g \in Outlinks(f, index)
      <4>1. PICK link \in LinkTargets[f] : f \in notes /\ g = Resolved(link, index)
        BY <3>1, <3>2 DEF Outlinks
      <4>2. MayName(link, g)
        BY <2>6, <4>1, AliasMayName DEF Resolved, MayName
      <4> QED BY <3>2, <4>1, <4>2 DEF MayLink
    <3>3. CASE d.kind # "outgoing" /\ g \in Backlinks(f, index)
      BY <2>6, <3>3, BacklinksMayLink, NameableArePaths
    <3> QED BY <2>7, <3>2, <3>3 DEF Linked
  <2> HIDE DEF notes, scope, Step
  <2>8. PICK R : /\ Rounds(R, d.path, index, scope, d.kind)
                 /\ d.shown = scope \cap R[d.depth + 1]
    BY <2>3, <2>4, <2>6, WalkGoesInRounds
  <2>9. R[d.depth + 1] = ReachedIn(d.path, d.depth + 1, index, scope, d.kind)
    <3>1. d.depth + 1 \in Nat
      BY <2>4
    <3> HIDE DEF d
    <3> QED BY <2>6, <2>8, <3>1, RoundsAreChains
  <2>10. PICK n \in 1..((d.depth + 1) + 1) : Leads(d.path, n, p, index, scope, d.kind)
    BY <2>6, <2>8, <2>9 DEF ReachedIn
  <2>11. PICK chain : /\ IsChain(chain, n, index, scope, d.kind)
                      /\ chain[1] = d.path /\ chain[n] = p
    BY <2>10 DEF Leads
  <2>12. n \in 1..(d.depth + 2) /\ chain \in [1..n -> Nameable]
    BY <2>4, <2>11 DEF IsChain
  <2>13. \A k \in 1..n : BothRead(c, d.vault, chain[k])
    BY <2>5, <2>11 DEF IsChain
  <2>14. ASSUME NEW k \in 1..(n - 1) PROVE Step(c, chain[k], chain[k + 1])
    <3>1. k \in 1..n /\ k + 1 \in 1..n
      BY <2>12
    <3>2. chain[k] \in Nameable /\ chain[k + 1] \in Nameable
      BY <2>12, <3>1
    <3>3. Linked(chain[k], chain[k + 1], index, d.kind)
      BY <2>11 DEF IsChain
    <3> QED BY <2>7, <3>2, <3>3
  <2> QED BY <2>11, <2>12, <2>13, <2>14
<1> QED BY <1>1, AccessInvariance, PTL
==============================================================================
