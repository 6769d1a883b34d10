----------------------------- MODULE GatewayProofs -----------------------------
(***************************************************************************)
(* Theorems about the catalogue and the conversion, which MCGateway puts   *)
(* beside the failover loop: for any channels, keys, groups,               *)
(* administrators and operations, what a ratio group is measured with is   *)
(* one of its models and a request stays within the groups of its key; for *)
(* any blocks, and answers of any length cut anywhere, also inside an      *)
(* event, what a stream tells its reader agrees with the answer that would *)
(* have come whole.                                                        *)
(***************************************************************************)
EXTENDS MCGateway, SequenceTheorems, WellFoundedInduction, TLAPS

-----------------------------------------------------------------------------
(* The catalogue                                                           *)

\* A request that has passed the validation carries a valid pair on.
Carrying(h) == handler[h].at \in {"check", "write"}
Validated ==
    \A h \in Editor : Carrying(h) =>
        "new" \in DOMAIN handler[h] /\ handler[h].new.default \in handler[h].new.models

\* Shapes the steps rely on: one handler per editor, one row per channel; what was
\* asked for stays what it was, and only channels are left to join a group.
ProperAsk(ask) ==
    "op" \in DOMAIN ask /\ (ask.op = "CreateGroup" =>
        "channels" \in DOMAIN ask /\ ask.channels \subseteq Upstream)
Proper(e) == "at" \in DOMAIN e /\ (e.at # "done" => "ask" \in DOMAIN e /\ ProperAsk(e.ask))
Shaped ==
    /\ handler = [h \in Editor |-> handler[h]]
    /\ \A h \in Editor : Proper(handler[h])
    /\ ratio = [c \in Upstream |-> ratio[c]]

RatioInv == Shaped /\ Validated /\ DefaultIsListed

-----------------------------------------------------------------------------
LEMMA InitRatio == CatalogueInit => RatioInv
<1> SUFFICES ASSUME CatalogueInit PROVE RatioInv  OBVIOUS
<1>1. Shaped  BY OwnersApart DEF CatalogueInit, Shaped, Proper, ProperAsk
<1>2. Validated /\ DefaultIsListed  BY DEF CatalogueInit, Validated, Carrying, DefaultIsListed
<1> QED  BY <1>1, <1>2 DEF RatioInv

\* Steps that leave the ratio groups alone and bring the editor to a place of
\* the other operations.
Elsewhere == {"ensure", "default", "insert", "clear", "commit", "sync", "cascade", "join", "done"}

LEMMA ElsewhereKeeps ==
  ASSUME RatioInv, NEW h \in Editor, UNCHANGED ratio,
         NEW e, handler' = [handler EXCEPT ![h] = e], Proper(e), e.at \in Elsewhere
  PROVE  RatioInv'
<1>1. e.at \notin {"check", "write"}  BY DEF Elsewhere
<1>2. Shaped'  BY DEF RatioInv, Shaped
<1>3. Validated'  BY <1>1 DEF RatioInv, Shaped, Validated, Carrying
<1>4. DefaultIsListed'  BY DEF RatioInv, DefaultIsListed
<1> QED  BY <1>2, <1>3, <1>4 DEF RatioInv

LEMMA EndKeeps ==
  ASSUME RatioInv, NEW h \in Editor, UNCHANGED ratio, End(h)
  PROVE  RatioInv'
<1>1. handler' = [handler EXCEPT ![h] = Done]  BY DEF End
<1>2. Proper(Done) /\ Done.at \in Elsewhere  BY DEF Done, Proper, Elsewhere
<1> QED  BY <1>1, <1>2, ElsewhereKeeps

LEMMA GoKeeps ==
  ASSUME RatioInv, NEW h \in Editor, NEW at \in Elsewhere, UNCHANGED ratio,
         handler[h].at # "done", Go(h, at) \/ \E rows : Hold(h, rows, at)
  PROVE  RatioInv'
<1>1. Proper(handler[h])  BY DEF RatioInv, Shaped
<1>2. CASE Go(h, at)
  <2>1. handler' = [handler EXCEPT ![h] = [handler[h] EXCEPT !.at = at]]  BY <1>2 DEF Go
  <2>2. Proper([handler[h] EXCEPT !.at = at]) /\ [handler[h] EXCEPT !.at = at].at = at
    BY <1>1 DEF Proper
  <2> QED  BY <2>1, <2>2, ElsewhereKeeps
<1>3. ASSUME NEW rows, Hold(h, rows, at) PROVE RatioInv'
  <2> DEFINE e == [handler[h] EXCEPT !.at = at, !.held = @ \cup rows]
  <2>1. handler' = [handler EXCEPT ![h] = e]  BY <1>3 DEF Hold
  <2>2. Proper(e) /\ e.at = at  BY <1>1 DEF Proper
  <2> QED  BY <2>1, <2>2, ElsewhereKeeps
<1> QED  BY <1>2, <1>3

-----------------------------------------------------------------------------
\* The administrators' steps.

LEMMA LinkSteps ==
  ASSUME RatioInv, NEW h \in Editor,
         LockOwner(h) \/ EnsureGroupsExist(h) \/ ClearLinks(h) \/ CommitLinks(h)
  PROVE  RatioInv'
<1>1. CASE LockOwner(h)
  <2>1. UNCHANGED ratio /\ handler[h].at # "done"  BY <1>1 DEF LockOwner, tables, Is
  <2>2. End(h) \/ \E at \in Elsewhere : \E rows : Hold(h, rows, at)
    BY <1>1 DEF LockOwner, Elsewhere
  <2> QED  BY <2>1, <2>2, EndKeeps, GoKeeps
<1>2. CASE EnsureGroupsExist(h)
  <2>1. UNCHANGED ratio /\ handler[h].at # "done"  BY <1>2 DEF EnsureGroupsExist, tables
  <2>2. End(h) \/ \E at \in Elsewhere : Go(h, at)
    BY <1>2 DEF EnsureGroupsExist, Elsewhere
  <2> QED  BY <2>1, <2>2, EndKeeps, GoKeeps
<1>3. CASE ClearLinks(h)
  <2>1. UNCHANGED ratio /\ handler[h].at # "done"  BY <1>3 DEF ClearLinks, tables
  <2>2. \E rows : Hold(h, rows, "insert")  BY <1>3 DEF ClearLinks
  <2> QED  BY <2>1, <2>2, GoKeeps DEF Elsewhere
<1>4. CASE CommitLinks(h)
  BY <1>4, EndKeeps DEF CommitLinks
<1> QED  BY <1>1, <1>2, <1>3, <1>4

LEMMA InsertStep ==
  ASSUME RatioInv, NEW h \in Editor, InsertLink(h)
  PROVE  RatioInv'
<1>1. PICK g : \/ Fail(h)
              \/ /\ handler' = [handler EXCEPT ![h].shared = @ \cup {GroupRow(g)}]
                 /\ UNCHANGED tables
  BY DEF InsertLink
<1>2. CASE Fail(h)
  BY <1>2, EndKeeps DEF Fail, tables
<1>3. CASE handler' = [handler EXCEPT ![h].shared = @ \cup {GroupRow(g)}] /\ UNCHANGED tables
  <2> DEFINE e == [handler[h] EXCEPT !.shared = @ \cup {GroupRow(g)}]
  <2>1. handler[h].at = "insert" /\ Proper(handler[h])  BY DEF InsertLink, RatioInv, Shaped
  <2>2. Proper(e) /\ e.at \in Elsewhere  BY <2>1 DEF Proper, Elsewhere
  <2>3. handler' = [handler EXCEPT ![h] = e]  BY <1>3
  <2>4. UNCHANGED ratio  BY <1>3 DEF tables
  <2> QED  BY <2>2, <2>3, <2>4, ElsewhereKeeps
<1> QED  BY <1>1, <1>2, <1>3

LEMMA OwnerSteps ==
  ASSUME RatioInv, NEW h \in Editor,
         CreateChannel(h) \/ CreateDefaultGroup(h) \/ CreateKey(h) \/ UpdateKey(h) \/ DeleteOwner(h)
  PROVE  RatioInv'
<1>1. CASE CreateChannel(h)
  <2>1. UNCHANGED ratio /\ handler[h].at = "start" /\ handler[h].ask.op = "CreateChannel"
    BY <1>1 DEF CreateChannel, tables, Is
  <2>2. CASE Go(h, "ensure")
    BY <2>1, <2>2, GoKeeps DEF Elsewhere
  <2>3. CASE ~Go(h, "ensure")
    <3> DEFINE ask == [handler[h].ask EXCEPT !.groups = {DefaultGroup}]
               e == [handler[h] EXCEPT !.at = IF groups[DefaultGroup] = "gone" THEN "default" ELSE "insert",
                                       !.ask.groups = {DefaultGroup}]
    <3>1. handler' = [handler EXCEPT ![h] = e]  BY <1>1, <2>3 DEF CreateChannel
    <3>2. Proper(handler[h])  BY DEF RatioInv, Shaped
    <3>3. ProperAsk(ask)  BY <2>1, <3>2 DEF Proper, ProperAsk
    <3>4. Proper(e) /\ e.at \in Elsewhere  BY <2>1, <3>2, <3>3 DEF Proper, Elsewhere
    <3> QED  BY <2>1, <3>1, <3>4, ElsewhereKeeps
  <2> QED  BY <2>2, <2>3
<1>2. CASE CreateKey(h)
  <2>1. UNCHANGED ratio /\ handler[h].at # "done"  BY <1>2 DEF CreateKey, Is
  <2>2. Go(h, "sync") \/ End(h)  BY <1>2 DEF CreateKey
  <2> QED  BY <2>1, <2>2, EndKeeps, GoKeeps DEF Elsewhere
<1>3. CASE UpdateKey(h)
  <2>1. UNCHANGED ratio /\ handler[h].at # "done"  BY <1>3 DEF UpdateKey, Is
  <2>2. Go(h, "sync") \/ End(h)  BY <1>3 DEF UpdateKey
  <2> QED  BY <2>1, <2>2, EndKeeps, GoKeeps DEF Elsewhere
<1>4. CASE DeleteOwner(h)
  <2>1. UNCHANGED ratio /\ handler[h].at # "done"  BY <1>4 DEF DeleteOwner, tables, Is
  <2>2. End(h) \/ \E rows : Hold(h, rows, "cascade")  BY <1>4 DEF DeleteOwner
  <2> QED  BY <2>1, <2>2, EndKeeps, GoKeeps DEF Elsewhere
<1>5. CASE CreateDefaultGroup(h)
  <2> DEFINE e == [handler[h] EXCEPT !.at = "insert", !.held = {NameRow(DefaultGroup)},
                      !.shared = IF groups[DefaultGroup] = "gone" THEN {} ELSE {GroupRow(DefaultGroup)}]
  <2>1. handler' = [handler EXCEPT ![h] = e] /\ UNCHANGED ratio /\ handler[h].at = "default"
    BY <1>5 DEF CreateDefaultGroup, tables
  <2>2. Proper(handler[h])  BY DEF RatioInv, Shaped
  <2>3. Proper(e) /\ e.at \in Elsewhere  BY <2>1, <2>2 DEF Proper, Elsewhere
  <2> QED  BY <2>1, <2>3, ElsewhereKeeps
<1> QED  BY <1>1, <1>2, <1>3, <1>4, <1>5

LEMMA GroupSteps ==
  ASSUME RatioInv, NEW h \in Editor,
         CreateGroup(h) \/ JoinGroup(h) \/ UpdateGroup(h) \/ DeleteGroup(h) \/ CascadeGroup(h)
  PROVE  RatioInv'
<1>1. CASE CreateGroup(h)
  <2>1. UNCHANGED ratio /\ handler[h].at # "done"  BY <1>1 DEF CreateGroup, Is
  <2>2. Go(h, "join") \/ End(h)  BY <1>1 DEF CreateGroup
  <2> QED  BY <2>1, <2>2, EndKeeps, GoKeeps DEF Elsewhere
<1>2. CASE JoinGroup(h)
  <2>1. UNCHANGED ratio /\ handler[h].at = "join" /\ handler[h].ask.op = "CreateGroup"
    BY <1>2 DEF JoinGroup, Is
  <2>2. CASE End(h)
    BY <2>1, <2>2, EndKeeps
  <2>3. CASE ~End(h)
    <3>1. PICK c : handler' = [handler EXCEPT ![h].ask.channels = @ \ {c}]
      BY <1>2, <2>3 DEF JoinGroup
    <3> DEFINE ask == [handler[h].ask EXCEPT !.channels = @ \ {c}]
               e == [handler[h] EXCEPT !.ask.channels = @ \ {c}]
    <3>2. Proper(handler[h])  BY DEF RatioInv, Shaped
    <3>3. ProperAsk(ask)  BY <2>1, <3>2 DEF Proper, ProperAsk
    <3>4. Proper(e) /\ e.at \in Elsewhere  BY <2>1, <3>2, <3>3 DEF Proper, Elsewhere
    <3>5. handler' = [handler EXCEPT ![h] = e]  BY <3>1
    <3> QED  BY <2>1, <3>4, <3>5, ElsewhereKeeps
  <2> QED  BY <2>2, <2>3
<1>3. CASE UpdateGroup(h)
  BY <1>3, EndKeeps DEF UpdateGroup
<1>4. CASE DeleteGroup(h)
  <2>1. UNCHANGED ratio /\ handler[h].at # "done"  BY <1>4 DEF DeleteGroup, tables, Is
  <2>2. End(h) \/ \E rows : Hold(h, rows, "cascade")  BY <1>4 DEF DeleteGroup
  <2> QED  BY <2>1, <2>2, EndKeeps, GoKeeps DEF Elsewhere
<1>5. CASE CascadeGroup(h)
  BY <1>5, EndKeeps DEF CascadeGroup
<1> QED  BY <1>1, <1>2, <1>3, <1>4, <1>5

-----------------------------------------------------------------------------
\* The steps that touch ratio groups.

\* A row that is written carries a valid pair, or is removed.
LEMMA RatioKeeps ==
  ASSUME RatioInv, NEW h \in Editor, End(h),
         ratio' = [c \in Upstream |-> ratio'[c]],
         \A c \in Upstream : \/ ratio'[c] \in {ratio[c], Nothing}
                             \/ ratio'[c].default \in ratio'[c].models
  PROVE  RatioInv'
<1>1. handler' = [handler EXCEPT ![h] = Done]  BY DEF End
<1>2. Proper(Done) /\ Done.at = "done"  BY DEF Done, Proper
<1>3. Shaped'  BY <1>1, <1>2 DEF RatioInv, Shaped
<1>4. Validated'  BY <1>1, <1>2 DEF RatioInv, Shaped, Validated, Carrying
<1>5. DefaultIsListed'  BY DEF RatioInv, DefaultIsListed
<1> QED  BY <1>3, <1>4, <1>5 DEF RatioInv

LEMMA RatioSteps ==
  ASSUME RatioInv, NEW h \in Editor,
         LoadRatioGroup(h) \/ CheckMapping(h) \/ WriteRatioGroup(h)
           \/ DeleteRatioGroup(h) \/ CascadeOwner(h)
  PROVE  RatioInv'
<1>1. CASE LoadRatioGroup(h)
  <2>1. UNCHANGED ratio  BY <1>1 DEF LoadRatioGroup, tables
  <2>2. CASE End(h)
    BY <2>1, <2>2, EndKeeps
  <2>3. CASE ~End(h)
    <3> DEFINE ask == handler[h].ask
               old == ratio[ask.channel]
               models == IF old = Nothing THEN ask.models ELSE Given(ask.models, old.models)
               default == IF old = Nothing THEN ask.default ELSE Given(ask.default, old.default)
               at == IF ask.models = Nothing THEN "write" ELSE "check"
    <3>1. /\ ValidGroupModels(models, default)
          /\ handler' = [handler EXCEPT ![h] =
                [at |-> at, ask |-> ask, held |-> {}, shared |-> {},
                 new |-> [default |-> default, models |-> models]]]
      BY <1>1, <2>3, Zenon DEF LoadRatioGroup
    <3> HIDE DEF ask, models, default
    <3> DEFINE e == [at |-> at, ask |-> ask, held |-> {}, shared |-> {},
                     new |-> [default |-> default, models |-> models]]
    <3>2. default \in models  BY <3>1 DEF ValidGroupModels
    <3>3. Proper(e)
      <4>1. handler[h].at = "start" /\ Proper(handler[h])
        BY <1>1 DEF LoadRatioGroup, Is, RatioInv, Shaped
      <4>2. ProperAsk(handler[h].ask)  BY <4>1 DEF Proper
      <4> QED  BY <4>2 DEF Proper, ask
    <3>4. "new" \in DOMAIN e /\ e.new.default \in e.new.models  BY <3>2
    <3>5. handler' = [handler EXCEPT ![h] = e]  BY <3>1
    <3> HIDE DEF e
    <3> QED  BY <2>1, <3>3, <3>4, <3>5 DEF RatioInv, Shaped, Validated, Carrying, DefaultIsListed
  <2> QED  BY <2>2, <2>3
<1>2. CASE CheckMapping(h)
  <2>1. UNCHANGED ratio  BY <1>2 DEF CheckMapping, tables
  <2>2. CASE End(h)
    BY <2>1, <2>2, EndKeeps
  <2>3. CASE ~End(h)
    <3>1. handler' = [handler EXCEPT ![h] = [handler[h] EXCEPT !.at = "write"]]
      BY <1>2, <2>3 DEF CheckMapping, Go
    <3>2. /\ handler[h].at = "check" /\ Proper(handler[h])
          /\ "new" \in DOMAIN handler[h] /\ handler[h].new.default \in handler[h].new.models
      BY <1>2 DEF CheckMapping, Is, RatioInv, Shaped, Validated, Carrying
    <3> DEFINE e == [handler[h] EXCEPT !.at = "write"]
    <3>3. Proper(e) /\ "new" \in DOMAIN e /\ e.new.default \in e.new.models
      BY <3>2 DEF Proper
    <3>4. handler' = [handler EXCEPT ![h] = e]  BY <3>1
    <3> HIDE DEF e
    <3> QED  BY <2>1, <3>3, <3>4 DEF RatioInv, Shaped, Validated, Carrying, DefaultIsListed
  <2> QED  BY <2>2, <2>3
<1>3. CASE WriteRatioGroup(h)
  <2>1. handler[h].new.default \in handler[h].new.models
    BY <1>3 DEF WriteRatioGroup, Is, RatioInv, Validated, Carrying
  <2>2. End(h)  BY <1>3 DEF WriteRatioGroup
  <2>3. ratio' = [c \in Upstream |-> ratio'[c]]
          /\ \A c \in Upstream : ratio'[c] \in {ratio[c], handler[h].new}
    BY <1>3 DEF WriteRatioGroup, Columns, RatioInv, Shaped
  <2> QED  BY <2>1, <2>2, <2>3, RatioKeeps
<1>4. CASE DeleteRatioGroup(h)
  <2>1. End(h) /\ ratio' = [c \in Upstream |-> ratio'[c]]
          /\ \A c \in Upstream : ratio'[c] \in {ratio[c], Nothing}
    BY <1>4 DEF DeleteRatioGroup, RatioInv, Shaped
  <2> QED  BY <2>1, RatioKeeps
<1>5. CASE CascadeOwner(h)
  <2>1. End(h) /\ ratio' = [c \in Upstream |-> ratio'[c]]
          /\ \A c \in Upstream : ratio'[c] \in {ratio[c], Nothing}
    BY <1>5 DEF CascadeOwner
  <2> QED  BY <2>1, RatioKeeps
<1> QED  BY <1>1, <1>2, <1>3, <1>4, <1>5

-----------------------------------------------------------------------------
LEMMA StepKeeps ==
  ASSUME RatioInv, [CatalogueNext]_catalogueVars
  PROVE  RatioInv'
<1>1. ASSUME NEW h \in Editor, Administer(h) PROVE RatioInv'
  <2>1. CASE BreakDeadlock(h)
    BY <2>1, EndKeeps DEF BreakDeadlock, Fail, tables
  <2> QED
    BY <1>1, <2>1, LinkSteps, InsertStep, OwnerSteps, GroupSteps, RatioSteps DEF Administer
<1>2. ASSUME NEW r \in Request, Call(r) PROVE RatioInv'
  <2>1. UNCHANGED <<ratio, handler>>
    BY <1>2 DEF Call, Authenticate, LoadKeyGroups, ChooseGroups, tables
  <2> QED  BY <2>1 DEF RatioInv, Shaped, Validated, Carrying, DefaultIsListed
<1>3. CASE UNCHANGED catalogueVars
  BY <1>3 DEF catalogueVars, RatioInv, Shaped, Validated, Carrying, DefaultIsListed
<1> QED  BY <1>1, <1>2, <1>3 DEF CatalogueNext

\* The model a ratio group is measured with is always one of its models, however
\* the statements of overlapping updates fall (api/ratio.go): an update writes
\* the pair it has validated, never one column beside another's.
THEOREM DefaultAlwaysListed == CatalogueSpec => []DefaultIsListed
<1>1. CatalogueInit => RatioInv  BY InitRatio
<1>2. RatioInv /\ [CatalogueNext]_catalogueVars => RatioInv'  BY StepKeeps
<1>3. RatioInv => DefaultIsListed  BY DEF RatioInv
<1> QED  BY <1>1, <1>2, <1>3, PTL DEF CatalogueSpec

-----------------------------------------------------------------------------
\* The scope of a request. Its groups are read in a query of their own, so what
\* holds of the key's links when they are read must outlast what follows.

Tables == links = [o \in Owner |-> links[o]] /\ scope = [k \in Key |-> scope[k]]

Answering(r) == request[r].at \in {"known", "bound", "routed"}
Served ==
    /\ request = [r \in Request |-> request[r]]
    /\ \A r \in Request :
          /\ {"at", "key", "spec"} \subseteq DOMAIN request[r] /\ request[r].key \in Key
          /\ Answering(r) => "inForce" \in DOMAIN request[r]
          /\ Answering(r) /\ request[r].at # "known" => "groups" \in DOMAIN request[r]

\* A key's links are what is in force for it, less the groups deleted since.
Linked == \A k \in Key : Within(links[k], scope[k])

\* A request knows what is in force, and holds groups that were.
Informed == \A r \in Request : request[r].at \in {"known", "bound"} =>
    scope[request[r].key] \in request[r].inForce
Chosen ==
    \A r \in Request : request[r].at \in {"bound", "routed"} =>
        \E allowed \in request[r].inForce : Within(request[r].groups, allowed)

ScopeInv == Tables /\ Served /\ Linked /\ Informed /\ Chosen

LEMMA InitScope == CatalogueInit => ScopeInv
<1> SUFFICES ASSUME CatalogueInit PROVE ScopeInv  OBVIOUS
<1>1. Tables  BY DEF CatalogueInit, Tables
<1>2. Served  BY DEF CatalogueInit, Served, Answering
<1>3. Linked  BY DEF CatalogueInit, Linked, Within, Owner
<1>4. Informed /\ Chosen  BY DEF CatalogueInit, Informed, Chosen
<1> QED  BY <1>1, <1>2, <1>3, <1>4 DEF ScopeInv

\* Links of channels are nobody's scope.
LEMMA OtherLinksKeep ==
  ASSUME ScopeInv, UNCHANGED <<scope, request>>,
         links' = [o \in Owner |-> links'[o]], \A k \in Key : links'[k] = links[k]
  PROVE  ScopeInv'
  BY DEF ScopeInv, Tables, Served, Answering, Linked, Informed, Chosen

\* What is put in force together with the links reaches the requests under way.
LEMMA PuttingKeeps ==
  ASSUME ScopeInv, NEW new, PutInForce(new), new = [k \in Key |-> new[k]],
         links' = [o \in Owner |-> links'[o]], \A k \in Key : Within(links'[k], new[k])
  PROVE  ScopeInv'
<1>1. scope' = new  BY DEF PutInForce
<1>2. Tables' /\ Linked'  BY <1>1 DEF Tables, Linked
<1> DEFINE told(r) == [request[r] EXCEPT !.inForce = @ \cup {new[request[r].key]}]
<1>3. /\ request' = [r \in Request |-> request'[r]]
      /\ \A r \in Request : request'[r] = IF request[r].at \in {"known", "bound"} THEN told(r) ELSE request[r]
  BY DEF PutInForce
<1>4. ASSUME NEW r \in Request, request[r].at \in {"known", "bound"}
      PROVE  /\ DOMAIN told(r) = DOMAIN request[r]
             /\ told(r).at = request[r].at /\ told(r).key = request[r].key
             /\ "groups" \in DOMAIN request[r] => told(r).groups = request[r].groups
             /\ told(r).inForce = request[r].inForce \cup {new[request[r].key]}
  BY <1>4 DEF ScopeInv, Served, Answering
<1> HIDE DEF told
<1>5. Served'  BY <1>3, <1>4 DEF ScopeInv, Served, Answering
<1>6. Informed'  BY <1>1, <1>3, <1>4 DEF ScopeInv, Informed
<1>7. Chosen'  BY <1>3, <1>4 DEF ScopeInv, Served, Answering, Chosen
<1> QED  BY <1>2, <1>5, <1>6, <1>7 DEF ScopeInv

\* Administrators.
LEMMA EditKeepsScope ==
  ASSUME ScopeInv, Shaped, NEW h \in Editor, Administer(h)
  PROVE  ScopeInv'
<1>1. CASE CommitLinks(h)
  <2> DEFINE o == Target(h)
             new == IF handler[h].at = "commit" THEN links[o] ELSE handler[h].ask.groups
  <2>1. links' = [links EXCEPT ![o] = new]  BY <1>1 DEF CommitLinks
  <2>2. links' = [x \in Owner |-> links'[x]]  BY <2>1 DEF ScopeInv, Tables
  <2>3. CASE o \in Upstream
    <3>1. UNCHANGED <<scope, request>>  BY <1>1, <2>3 DEF CommitLinks
    <3>2. \A k \in Key : links'[k] = links[k]
      BY <2>1, <2>3, OwnersApart DEF ScopeInv, Tables, Owner
    <3> QED  BY <2>2, <3>1, <3>2, OtherLinksKeep
  <2>4. CASE o \notin Upstream
    <3> DEFINE put == [scope EXCEPT ![o] = new]
    <3>1. PutInForce(put)  BY <1>1, <2>4 DEF CommitLinks
    <3>2. put = [k \in Key |-> put[k]]  BY DEF ScopeInv, Tables
    <3>3. \A k \in Key : Within(links'[k], put[k])
      <4> HIDE DEF o, new
      <4> QED  BY <2>1 DEF ScopeInv, Tables, Owner, Linked, Within
    <3> HIDE DEF put
    <3> QED  BY <2>2, <3>1, <3>2, <3>3, PuttingKeeps
  <2> QED  BY <2>3, <2>4
<1>2. CASE CreateKey(h)
  <2> DEFINE put == [scope EXCEPT ![Target(h)] = {}]
  <2>1. PutInForce(put) /\ UNCHANGED links  BY <1>2 DEF CreateKey
  <2>2. put = [k \in Key |-> put[k]]  BY DEF ScopeInv, Tables
  <2>3. \A k \in Key : Within(links'[k], put[k])
    BY <2>1 DEF ScopeInv, Tables, Linked, Within
  <2>4. links' = [o \in Owner |-> links'[o]]  BY <2>1 DEF ScopeInv, Tables
  <2> HIDE DEF put
  <2> QED  BY <2>1, <2>2, <2>3, <2>4, PuttingKeeps
<1>3. CASE CascadeOwner(h)
  <2> DEFINE put == [k \in Key |-> IF k = Target(h) THEN {} ELSE scope[k]]
  <2>1. PutInForce(put) /\ links' = [links EXCEPT ![Target(h)] = {}]
    BY <1>3 DEF CascadeOwner
  <2>2. \A k \in Key : Within(links'[k], put[k])
    BY <2>1 DEF ScopeInv, Tables, Linked, Within, Owner
  <2>3. links' = [o \in Owner |-> links'[o]]  BY <2>1 DEF ScopeInv, Tables
  <2>4. put = [k \in Key |-> put[k]]  OBVIOUS
  <2> HIDE DEF put
  <2> QED  BY <2>1, <2>2, <2>3, <2>4, PuttingKeeps
<1>4. CASE CascadeGroup(h)
  <2> DEFINE g == handler[h].ask.group
             put == [k \in Key |-> IF links[k] = {g} THEN {} ELSE scope[k]]
  <2>1. PutInForce(put) /\ links' = [o \in Owner |-> links[o] \ {g}]
    BY <1>4 DEF CascadeGroup
  <2>2. \A k \in Key : Within(links'[k], put[k])
    <3> HIDE DEF g
    <3> QED  BY <2>1 DEF ScopeInv, Linked, Within, Owner
  <2>3. links' = [o \in Owner |-> links'[o]]  BY <2>1
  <2>4. put = [k \in Key |-> put[k]]  OBVIOUS
  <2> HIDE DEF put
  <2> QED  BY <2>1, <2>2, <2>3, <2>4, PuttingKeeps
<1>5. CASE JoinGroup(h)
  <2>1. UNCHANGED <<scope, request>>  BY <1>5 DEF JoinGroup
  <2>2. handler[h].ask.channels \subseteq Upstream
    BY <1>5 DEF JoinGroup, Is, Shaped, Proper, ProperAsk
  <2>3. UNCHANGED links \/ \E c \in Upstream : \E new : links' = [links EXCEPT ![c] = new]
    BY <1>5, <2>2 DEF JoinGroup
  <2>4. /\ links' = [o \in Owner |-> links'[o]]
        /\ \A k \in Key : links'[k] = links[k]
    BY <2>3, OwnersApart DEF ScopeInv, Tables, Owner
  <2> QED  BY <2>1, <2>4, OtherLinksKeep
<1>6. CASE UNCHANGED <<links, scope, request>>
  BY <1>6, OtherLinksKeep DEF ScopeInv, Tables
<1>7. \/ CommitLinks(h) \/ CreateKey(h) \/ CascadeOwner(h) \/ CascadeGroup(h) \/ JoinGroup(h)
      \/ UNCHANGED <<links, scope, request>>
  BY DEF Administer, LockOwner, EnsureGroupsExist, ClearLinks, InsertLink, CreateChannel, CreateDefaultGroup, UpdateKey,
         DeleteOwner, CreateGroup, UpdateGroup, DeleteGroup, LoadRatioGroup, CheckMapping,
         WriteRatioGroup, DeleteRatioGroup, BreakDeadlock, Fail, tables
<1> QED  BY <1>1, <1>2, <1>3, <1>4, <1>5, <1>6, <1>7

\* One request changes and the tables do not.
LEMMA AnswerKeeps ==
  ASSUME ScopeInv, UNCHANGED <<links, scope>>, NEW r \in Request, NEW e,
         request' = [request EXCEPT ![r] = e],
         {"at", "key", "spec"} \subseteq DOMAIN e, e.key \in Key,
         e.at \in {"known", "bound", "routed"} => "inForce" \in DOMAIN e,
         e.at \in {"bound", "routed"} => "groups" \in DOMAIN e,
         e.at \in {"known", "bound"} => scope[e.key] \in e.inForce,
         e.at \in {"bound", "routed"} => \E allowed \in e.inForce : Within(e.groups, allowed)
  PROVE  ScopeInv'
<1>1. /\ request' = [x \in Request |-> request'[x]]
      /\ request'[r] = e /\ \A x \in Request \ {r} : request'[x] = request[x]
  BY DEF ScopeInv, Served
<1>2. Tables' /\ Linked'  BY DEF ScopeInv, Tables, Linked
<1>3. Served'  BY <1>1 DEF ScopeInv, Served, Answering
<1>4. Informed'  BY <1>1 DEF ScopeInv, Informed
<1>5. Chosen'  BY <1>1 DEF ScopeInv, Chosen
<1> QED  BY <1>2, <1>3, <1>4, <1>5 DEF ScopeInv

LEMMA CallKeepsScope ==
  ASSUME ScopeInv, NEW r \in Request, Call(r)
  PROVE  ScopeInv'
<1>1. UNCHANGED <<links, scope>>
  BY DEF Call, Authenticate, LoadKeyGroups, ChooseGroups, tables
<1>2. {"at", "key", "spec"} \subseteq DOMAIN request[r] /\ request[r].key \in Key
  BY DEF ScopeInv, Served
<1> DEFINE refused == [request[r] EXCEPT !.at = "refused"]
<1>3. ASSUME request' = [request EXCEPT ![r] = refused] PROVE ScopeInv'
  <2>1. refused.at = "refused" /\ refused.key \in Key /\ {"at", "key", "spec"} \subseteq DOMAIN refused
    BY <1>2
  <2> HIDE DEF refused
  <2> QED  BY <1>1, <1>3, <2>1, AnswerKeeps
<1>4. CASE Authenticate(r)
  <2> DEFINE e == [at |-> "known", key |-> request[r].key, spec |-> request[r].spec,
                   inForce |-> {scope[request[r].key]}]
  <2>1. CASE request' = [request EXCEPT ![r] = e]
    <3>1. /\ {"at", "key", "spec"} \subseteq DOMAIN e /\ e.key \in Key /\ "inForce" \in DOMAIN e
          /\ e.at = "known" /\ scope[e.key] \in e.inForce
      BY <1>2
    <3> HIDE DEF e
    <3> QED  BY <1>1, <2>1, <3>1, AnswerKeeps
  <2>2. request' = [request EXCEPT ![r] = e] \/ request' = [request EXCEPT ![r] = refused]
    BY <1>4 DEF Authenticate
  <2> QED  BY <1>3, <2>1, <2>2
<1>5. CASE LoadKeyGroups(r)
  <2> DEFINE e == [at |-> "bound", key |-> request[r].key, spec |-> request[r].spec,
                   inForce |-> request[r].inForce, groups |-> links[request[r].key]]
  <2>1. request' = [request EXCEPT ![r] = e]  BY <1>5 DEF LoadKeyGroups
  <2>2. scope[request[r].key] \in request[r].inForce
    BY <1>5 DEF LoadKeyGroups, ScopeInv, Informed
  <2>3. Within(links[request[r].key], scope[request[r].key])
    BY <1>2 DEF ScopeInv, Linked
  <2>4. /\ {"at", "key", "spec"} \subseteq DOMAIN e /\ e.key \in Key
        /\ "inForce" \in DOMAIN e /\ "groups" \in DOMAIN e /\ scope[e.key] \in e.inForce
        /\ \E allowed \in e.inForce : Within(e.groups, allowed)
    BY <1>2, <2>2, <2>3
  <2> HIDE DEF e
  <2> QED  BY <1>1, <2>1, <2>4, AnswerKeeps
<1>6. CASE ChooseGroups(r)
  <2>1. /\ request[r].at = "bound" /\ "inForce" \in DOMAIN request[r] /\ "groups" \in DOMAIN request[r]
        /\ \E allowed \in request[r].inForce : Within(request[r].groups, allowed)
    BY <1>6 DEF ChooseGroups, ScopeInv, Served, Answering, Chosen
  <2> DEFINE all == [request[r] EXCEPT !.at = "routed"]
             one == [request[r] EXCEPT !.at = "routed", !.groups = {request[r].spec}]
  <2>2. CASE request' = [request EXCEPT ![r] = all]
    <3>1. /\ {"at", "key", "spec", "inForce", "groups"} \subseteq DOMAIN all
          /\ all.key \in Key /\ all.at = "routed"
          /\ \E allowed \in all.inForce : Within(all.groups, allowed)
      BY <1>2, <2>1
    <3> HIDE DEF all
    <3> QED  BY <1>1, <2>2, <3>1, AnswerKeeps
  <2>3. CASE /\ request' = [request EXCEPT ![r] = one]
             /\ request[r].groups = {} \/ request[r].spec \in request[r].groups
    <3>1. \E allowed \in request[r].inForce : Within({request[r].spec}, allowed)
      BY <2>1, <2>3 DEF Within
    <3>2. /\ {"at", "key", "spec", "inForce", "groups"} \subseteq DOMAIN one
          /\ one.key \in Key /\ one.at = "routed"
          /\ \E allowed \in one.inForce : Within(one.groups, allowed)
      BY <1>2, <2>1, <3>1
    <3> HIDE DEF one
    <3> QED  BY <1>1, <2>3, <3>2, AnswerKeeps
  <2>4. \/ request' = [request EXCEPT ![r] = refused]
        \/ request' = [request EXCEPT ![r] = all]
        \/ /\ request' = [request EXCEPT ![r] = one]
           /\ request[r].groups = {} \/ request[r].spec \in request[r].groups
    BY <1>6 DEF ChooseGroups, Reply
  <2> QED  BY <1>3, <2>2, <2>3, <2>4
<1> QED  BY <1>4, <1>5, <1>6 DEF Call

\* A request is routed within groups that were in force for its key while it ran
\* (syncKeyGroups, loadKeyGroupIDs), for any keys, groups, administrators and
\* operations, and whatever becomes of the groups meanwhile.
THEOREM ScopeAlwaysStays == CatalogueSpec => []ScopeStays
<1>1. CatalogueInit => RatioInv /\ ScopeInv  BY InitRatio, InitScope
<1>2. RatioInv /\ ScopeInv /\ [CatalogueNext]_catalogueVars => RatioInv' /\ ScopeInv'
  <2> SUFFICES ASSUME RatioInv, ScopeInv, [CatalogueNext]_catalogueVars PROVE ScopeInv'
    BY StepKeeps
  <2>1. CASE UNCHANGED catalogueVars
    BY <2>1, OtherLinksKeep DEF catalogueVars, ScopeInv, Tables
  <2> QED  BY <2>1, EditKeepsScope, CallKeepsScope DEF CatalogueNext, RatioInv
<1>3. ScopeInv => ScopeStays  BY DEF ScopeInv, Chosen, ScopeStays
<1> QED  BY <1>1, <1>2, <1>3, PTL DEF CatalogueSpec

-----------------------------------------------------------------------------
(* Sequences.  The library's induction theorems take an operator, which no *)
(* prover here can instantiate: induction is stated for a set, by its      *)
(* least counterexample.                                                   *)

\* A set with 0 that has the successor of each of its numbers has them all.
LEMMA SetOfNaturals ==
  ASSUME NEW B, 0 \in B, \A n \in Nat : n \in B => n + 1 \in B
  PROVE  \A n \in Nat : n \in B
<1> DEFINE T == Nat \ B
<1> SUFFICES ASSUME T # {}  PROVE FALSE  OBVIOUS
<1>1. \E n \in T : \A m \in T : ~(<<m, n>> \in OpToRel(<, Nat))
  <2>1. T \subseteq Nat  OBVIOUS
  <2> HIDE DEF T
  <2> QED  BY <2>1, NatLessThanWellFounded, WFMin
<1>2. PICK n \in T : \A m \in T : ~(<<m, n>> \in OpToRel(<, Nat))  BY <1>1
<1>3. n \in Nat /\ n # 0 /\ n - 1 \in Nat /\ n - 1 < n /\ (n - 1) + 1 = n  OBVIOUS
<1>4. <<n - 1, n>> \in OpToRel(<, Nat)  BY <1>3 DEF OpToRel
<1>5. n - 1 \in T  BY <1>3
<1> QED  BY <1>2, <1>4, <1>5

\* A set of sequences that has every sequence one longer than its members.
LEMMA SetOfSequences ==
  ASSUME NEW X, NEW B, <<>> \in B, \A s \in Seq(X) : \A x \in X : s \in B => Append(s, x) \in B
  PROVE  \A s \in Seq(X) : s \in B
<1> DEFINE N == {n \in Nat : \A s \in Seq(X) : Len(s) = n => s \in B}
<1>1. 0 \in N
  <2>1. ASSUME NEW s \in Seq(X), Len(s) = 0  PROVE s = <<>>  BY <2>1, EmptySeq
  <2> QED  BY <2>1
<1>2. ASSUME NEW n \in Nat, n \in N  PROVE n + 1 \in N
  <2> SUFFICES ASSUME NEW s \in Seq(X), Len(s) = n + 1  PROVE s \in B
    BY <1>2
  <2> DEFINE r == SubSeq(s, 1, n)
  <2>1. s[n + 1] \in X /\ \A i \in 1..n : s[i] \in X  BY ElementOfSeq
  <2>2. r \in Seq(X) /\ Len(r) = n /\ \A i \in 1..n : r[i] = s[i]
    <3>1. 1 \in Int /\ n \in Int  OBVIOUS
    <3> QED  BY <2>1, <3>1, SubSeqProperties
  <2> HIDE DEF r
  <2>3. r \in B  BY <1>2, <2>2
  <2>4. Append(r, s[n + 1]) = s
    <3>1. Append(r, s[n + 1]) \in Seq(X) /\ Len(Append(r, s[n + 1])) = n + 1
      BY <2>1, <2>2, AppendProperties
    <3>2. \A i \in 1..n + 1 : Append(r, s[n + 1])[i] = s[i]
      BY <2>1, <2>2, AppendProperties
    <3> QED  BY <3>1, <3>2, SeqEqual
  <2> QED  BY <2>1, <2>2, <2>3, <2>4
<1> HIDE DEF N
<1>3. \A n \in Nat : n \in N  BY <1>1, <1>2, SetOfNaturals
<1>4. \A s \in Seq(X) : Len(s) \in N  BY <1>3, LenProperties
<1> QED  BY <1>4 DEF N

LEMMA Associates ==
  ASSUME NEW X, NEW s \in Seq(X), NEW t \in Seq(X), NEW u \in Seq(X)
  PROVE  (s \o t) \o u = s \o (t \o u)
<1>1. s \o t \in Seq(X) /\ t \o u \in Seq(X)  OBVIOUS
<1>2. (s \o t) \o u \in Seq(X) /\ s \o (t \o u) \in Seq(X)  BY <1>1
<1>3. Len(s) \in Nat /\ Len(t) \in Nat /\ Len(u) \in Nat  OBVIOUS
<1>4. Len((s \o t) \o u) = Len(s \o (t \o u))  BY <1>1
<1>5. \A i \in 1..Len((s \o t) \o u) : ((s \o t) \o u)[i] = (s \o (t \o u))[i]  BY <1>1, <1>3
<1> QED  BY <1>2, <1>4, <1>5, SeqEqual

\* Associates, as one fact.
Chained(X) == \A s, t, u \in Seq(X) : (s \o t) \o u = s \o (t \o u)
LEMMA ChainedIs == ASSUME NEW X  PROVE Chained(X)
BY Associates DEF Chained

\* The first n of the sequences f[1], f[2], ... as one.
Joined(f, n) == Conversion!FlattenSeq([i \in 1..n |-> f[i]])

\* g is the function the community module's FlattenSeq builds for f.
Joint(s, t) == s \o t
Joins(f, n, g) == g = [i \in 1..n |-> IF i = 1 THEN f[i] ELSE Joint(g[i - 1], f[i])]

LEMMA JoinsExist == ASSUME NEW f, NEW n \in Nat  PROVE \E g : Joins(f, n, g)
<1> DEFINE N == {m \in Nat : \E g : Joins(f, m, g)}
<1>1. 0 \in N
  <2>1. Joins(f, 0, [i \in 1..0 |-> 0])  BY DEF Joins
  <2> QED  BY <2>1
<1>2. ASSUME NEW m \in Nat, m \in N  PROVE m + 1 \in N
  <2>1. PICK g : Joins(f, m, g)  BY <1>2
  <2> DEFINE h == [i \in 1..m + 1 |-> IF i = 1 THEN f[i] ELSE Joint(g[i - 1], f[i])]
  <2>2. \A i \in 1..m : h[i] = g[i]  BY <2>1 DEF Joins
  <2>3. \A i \in 1..m + 1 : i # 1 => i - 1 \in 1..m  OBVIOUS
  <2>4. Joins(f, m + 1, h)  BY <2>2, <2>3 DEF Joins
  <2> HIDE DEF h
  <2> QED  BY <2>4
<1> HIDE DEF N
<1>3. n \in N  BY <1>1, <1>2, SetOfNaturals
<1> QED  BY <1>3 DEF N

LEMMA JoinsAgree ==
  ASSUME NEW n \in Nat, NEW m \in Nat, n <= m, NEW f, NEW g, NEW e, NEW h,
         Joins(f, n, g), Joins(e, m, h), \A i \in 1..n : f[i] = e[i]
  PROVE  \A i \in 1..n : g[i] = h[i]
<1> DEFINE N == {k \in Nat : k + 1 \in 1..n => g[k + 1] = h[k + 1]}
<1>1. \A i \in 1..n : /\ g[i] = IF i = 1 THEN f[i] ELSE Joint(g[i - 1], f[i])
                      /\ h[i] = IF i = 1 THEN e[i] ELSE Joint(h[i - 1], e[i])
  BY DEF Joins
<1>2. 0 \in N  BY <1>1
<1>3. ASSUME NEW k \in Nat, k \in N  PROVE k + 1 \in N
  <2> SUFFICES ASSUME (k + 1) + 1 \in 1..n  PROVE g[(k + 1) + 1] = h[(k + 1) + 1]
    OBVIOUS
  <2>1. k + 1 \in 1..n /\ (k + 1) + 1 # 1 /\ ((k + 1) + 1) - 1 = k + 1  OBVIOUS
  <2> QED  BY <1>1, <1>3, <2>1
<1> HIDE DEF N
<1>4. \A k \in Nat : k \in N  BY <1>2, <1>3, SetOfNaturals
<1>5. \A i \in 1..n : i - 1 \in Nat /\ (i - 1) + 1 = i  OBVIOUS
<1> QED  BY <1>4, <1>5 DEF N

LEMMA JoinedIs ==
  ASSUME NEW f, NEW n \in Nat, n # 0
  PROVE  \E g : Joins(f, n, g) /\ Joined(f, n) = g[n]
<1> DEFINE F == [i \in 1..n |-> f[i]]
           G == CHOOSE g : g = [i \in 1..Len(F) |-> IF i = 1 THEN F[i] ELSE g[i - 1] \o F[i]]
<1>1. Len(F) = n  OBVIOUS
<1>2. Joined(f, n) = G[n]  BY <1>1 DEF Joined, Conversion!FlattenSeq
<1>3. PICK g : Joins(f, n, g)  BY JoinsExist
<1>4. g = [i \in 1..Len(F) |-> IF i = 1 THEN F[i] ELSE Joint(g[i - 1], F[i])]  BY <1>1, <1>3 DEF Joins
<1>5. G = [i \in 1..Len(F) |-> IF i = 1 THEN F[i] ELSE Joint(G[i - 1], F[i])]  BY <1>4 DEF Joint
<1>6. Joins(f, n, G)
  <2> HIDE DEF G
  <2> QED  BY <1>1, <1>5 DEF Joins
<1> HIDE DEF G
<1> QED  BY <1>2, <1>6

LEMMA JoinedNone == ASSUME NEW f  PROVE Joined(f, 0) = <<>>
BY DEF Joined, Conversion!FlattenSeq

LEMMA JoinedAdds ==
  ASSUME NEW f, NEW n \in Nat, NEW X, f[n + 1] \in Seq(X)
  PROVE  Joined(f, n + 1) = Joined(f, n) \o f[n + 1]
<1>1. PICK h : Joins(f, n + 1, h) /\ Joined(f, n + 1) = h[n + 1]  BY JoinedIs
<1>2. CASE n = 0
  <2>1. h[1] = f[1]  BY <1>1, <1>2 DEF Joins
  <2>2. <<>> \o f[1] = f[1]  BY <1>2, ConcatEmptySeq
  <2> QED  BY <1>1, <1>2, <2>1, <2>2, JoinedNone
<1>3. CASE n # 0
  <2>1. PICK g : Joins(f, n, g) /\ Joined(f, n) = g[n]  BY <1>3, JoinedIs
  <2>2. g[n] = h[n]
    <3>1. n <= n + 1 /\ n + 1 \in Nat /\ n \in 1..n  BY <1>3
    <3>2. \A i \in 1..n : g[i] = h[i]  BY <1>1, <2>1, <3>1, JoinsAgree
    <3> QED  BY <3>1, <3>2
  <2>3. h[n + 1] = h[n] \o f[n + 1]
    <3>1. n + 1 \in 1..n + 1 /\ n + 1 # 1 /\ (n + 1) - 1 = n  BY <1>3
    <3>2. h[n + 1] = Joint(h[n], f[n + 1])  BY <1>1, <3>1 DEF Joins
    <3> QED  BY <3>2 DEF Joint
  <2> QED  BY <1>1, <2>1, <2>2, <2>3
<1> QED  BY <1>2, <1>3

LEMMA JoinedIsSeq ==
  ASSUME NEW f, NEW X, NEW n \in Nat, \A i \in 1..n : f[i] \in Seq(X)
  PROVE  Joined(f, n) \in Seq(X)
<1> DEFINE N == {m \in Nat : m <= n => Joined(f, m) \in Seq(X)}
<1>1. 0 \in N  BY JoinedNone, EmptySeq
<1>2. ASSUME NEW m \in Nat, m \in N  PROVE m + 1 \in N
  <2> SUFFICES ASSUME m + 1 <= n  PROVE Joined(f, m + 1) \in Seq(X)  OBVIOUS
  <2>1. m <= n /\ m + 1 \in 1..n  OBVIOUS
  <2>2. f[m + 1] \in Seq(X) /\ Joined(f, m) \in Seq(X)  BY <1>2, <2>1
  <2>3. Joined(f, m + 1) = Joined(f, m) \o f[m + 1]  BY <2>2, JoinedAdds
  <2> QED  BY <2>2, <2>3, ConcatProperties
<1> HIDE DEF N
<1>3. n \in N  BY <1>1, <1>2, SetOfNaturals
<1> QED  BY <1>3 DEF N

\* A function that makes sequences over Y of the members of X.
Maps(g, X, Y) == \A x \in X : g[x] \in Seq(Y)
\* The sequences g makes of the members of s, as one.
Mapped(s, g) == Joined([i \in 1..Len(s) |-> g[s[i]]], Len(s))

\* A sequence of sequences the model flattens, as what g makes of s.
LEMMA MappedIs ==
  ASSUME NEW X, NEW s \in Seq(X), NEW g, NEW F, F = [i \in 1..Len(s) |-> g[s[i]]]
  PROVE  Conversion!FlattenSeq(F) = Mapped(s, g)
<1>1. F = [i \in 1..Len(s) |-> [j \in 1..Len(s) |-> g[s[j]]][i]]  OBVIOUS
<1> QED  BY <1>1 DEF Mapped, Joined

LEMMA MappedSame ==
  ASSUME NEW X, NEW s \in Seq(X), NEW g, NEW h, \A x \in X : g[x] = h[x]
  PROVE  Mapped(s, g) = Mapped(s, h)
<1>1. \A i \in 1..Len(s) : g[s[i]] = h[s[i]]  BY ElementOfSeq
<1>2. [i \in 1..Len(s) |-> g[s[i]]] = [i \in 1..Len(s) |-> h[s[i]]]  BY <1>1
<1> QED  BY <1>2 DEF Mapped

LEMMA MappedIsSeq ==
  ASSUME NEW X, NEW Y, NEW s \in Seq(X), NEW g, Maps(g, X, Y)
  PROVE  Mapped(s, g) \in Seq(Y)
<1>1. \A i \in 1..Len(s) : [j \in 1..Len(s) |-> g[s[j]]][i] \in Seq(Y)  BY ElementOfSeq DEF Maps
<1>2. Len(s) \in Nat  BY LenProperties
<1> QED  BY <1>1, <1>2, JoinedIsSeq DEF Mapped

LEMMA MappedNone == ASSUME NEW g  PROVE Mapped(<<>>, g) = <<>>
<1>1. Len(<<>>) = 0  OBVIOUS
<1> QED  BY <1>1, JoinedNone DEF Mapped

LEMMA MappedAppend ==
  ASSUME NEW X, NEW Y, NEW g, Maps(g, X, Y)
  PROVE  \A s \in Seq(X) : \A x \in X : Mapped(Append(s, x), g) = Mapped(s, g) \o g[x]
<1> SUFFICES ASSUME NEW s \in Seq(X), NEW x \in X
             PROVE  Mapped(Append(s, x), g) = Mapped(s, g) \o g[x]
  OBVIOUS
<1> DEFINE n == Len(s)
           f == [i \in 1..n + 1 |-> g[Append(s, x)[i]]]
<1>1. n \in Nat /\ Len(Append(s, x)) = n + 1  BY LenProperties, AppendProperties
<1>2. Append(s, x)[n + 1] = x /\ \A i \in 1..n : Append(s, x)[i] = s[i]  BY AppendProperties
<1>3. f[n + 1] = g[x] /\ g[x] \in Seq(Y)  BY <1>1, <1>2 DEF Maps
<1>4. [i \in 1..n |-> f[i]] = [i \in 1..n |-> [j \in 1..n |-> g[s[j]]][i]]  BY <1>1, <1>2
<1>5. Joined(f, n) = Mapped(s, g)  BY <1>4 DEF Joined, Mapped
<1>6. Mapped(Append(s, x), g) = Joined(f, n + 1)  BY <1>1 DEF Mapped
<1> HIDE DEF f, n
<1> QED  BY <1>1, <1>3, <1>5, <1>6, JoinedAdds

LEMMA MappedOne ==
  ASSUME NEW X, NEW Y, NEW x \in X, NEW g, Maps(g, X, Y)
  PROVE  Mapped(<<x>>, g) = g[x]
<1>1. <<>> \in Seq(X) /\ Append(<<>>, x) = <<x>>  OBVIOUS
<1>2. \A s \in Seq(X) : Mapped(Append(s, x), g) = Mapped(s, g) \o g[x]  BY MappedAppend
<1>3. Mapped(<<x>>, g) = <<>> \o g[x]  BY <1>1, <1>2, MappedNone
<1>4. g[x] \in Seq(Y)  BY DEF Maps
<1> QED  BY <1>3, <1>4, ConcatEmptySeq

LEMMA MappedConcat ==
  ASSUME NEW X, NEW Y, NEW g, Maps(g, X, Y)
  PROVE  \A s, t \in Seq(X) : Mapped(s \o t, g) = Mapped(s, g) \o Mapped(t, g)
<1> SUFFICES ASSUME NEW s \in Seq(X), NEW t \in Seq(X)
             PROVE  Mapped(s \o t, g) = Mapped(s, g) \o Mapped(t, g)
  OBVIOUS
<1> DEFINE B == {u \in Seq(X) : Mapped(s \o u, g) = Mapped(s, g) \o Mapped(u, g)}
<1>0. Mapped(s, g) \in Seq(Y)  BY MappedIsSeq
<1>1. <<>> \in B
  <2>1. s \o <<>> = s /\ Mapped(s, g) \o <<>> = Mapped(s, g)  BY <1>0, ConcatEmptySeq
  <2> QED  BY <2>1, MappedNone, EmptySeq
<1>2. ASSUME NEW u \in Seq(X), NEW x \in X, u \in B  PROVE Append(u, x) \in B
  <2>1. Append(u, x) \in Seq(X)  BY AppendProperties
  <2>2. s \o Append(u, x) = Append(s \o u, x) /\ s \o u \in Seq(X)
    <3>1. <<x>> \in Seq(X) /\ s \o u \in Seq(X)  BY ConcatProperties
    <3>2. Append(u, x) = u \o <<x>> /\ Append(s \o u, x) = (s \o u) \o <<x>>
      BY <3>1, AppendIsConcat
    <3> QED  BY <3>1, <3>2, ConcatAssociative
  <2>3. g[x] \in Seq(Y) /\ Mapped(u, g) \in Seq(Y)  BY MappedIsSeq DEF Maps
  <2>4. Mapped(Append(s \o u, x), g) = Mapped(s \o u, g) \o g[x]
    <3>1. \A v \in Seq(X) : Mapped(Append(v, x), g) = Mapped(v, g) \o g[x]  BY MappedAppend
    <3> QED  BY <2>2, <3>1
  <2>5. Mapped(Append(u, x), g) = Mapped(u, g) \o g[x]  BY MappedAppend
  <2>6. (Mapped(s, g) \o Mapped(u, g)) \o g[x] = Mapped(s, g) \o (Mapped(u, g) \o g[x])
    <3>1. PICK p : p = Mapped(s, g)  OBVIOUS
    <3>2. PICK q : q = Mapped(u, g)  OBVIOUS
    <3>3. PICK r : r = g[x]  OBVIOUS
    <3>4. p \in Seq(Y) /\ q \in Seq(Y) /\ r \in Seq(Y)  BY <1>0, <2>3, <3>1, <3>2, <3>3
    <3>5. (p \o q) \o r = p \o (q \o r)  BY <3>4, ChainedIs DEF Chained
    <3> QED  BY <3>1, <3>2, <3>3, <3>5
  <2> QED  BY <1>2, <2>1, <2>2, <2>4, <2>5, <2>6
<1> HIDE DEF B
<1>3. t \in B  BY <1>1, <1>2, SetOfSequences
<1> QED  BY <1>3 DEF B

\* What h makes of what g makes is what k makes at once.
LEMMA MappedTwice ==
  ASSUME NEW X, NEW Y, NEW Z, NEW s \in Seq(X), NEW g, Maps(g, X, Y), NEW h, Maps(h, Y, Z),
         NEW k, \A x \in X : k[x] = Mapped(g[x], h)
  PROVE  Mapped(Mapped(s, g), h) = Mapped(s, k)
<1>0. PICK j : j = [x \in X |-> Mapped(g[x], h)]  OBVIOUS
<1> DEFINE B == {u \in Seq(X) : Mapped(Mapped(u, g), h) = Mapped(u, j)}
<1>3. Maps(j, X, Z) /\ \A x \in X : j[x] = Mapped(g[x], h)
  <2>1. \A x \in X : Mapped(g[x], h) \in Seq(Z)  BY MappedIsSeq DEF Maps
  <2> QED  BY <1>0, <2>1 DEF Maps
<1>1. <<>> \in B  BY MappedNone, EmptySeq
<1>2. ASSUME NEW u \in Seq(X), NEW x \in X, u \in B  PROVE Append(u, x) \in B
  <2>1. Append(u, x) \in Seq(X)  BY AppendProperties
  <2>2. Mapped(Append(u, x), g) = Mapped(u, g) \o g[x]  BY MappedAppend
  <2>3. Mapped(u, g) \in Seq(Y) /\ g[x] \in Seq(Y)  BY MappedIsSeq DEF Maps
  <2>4. Mapped(Mapped(u, g) \o g[x], h) = Mapped(Mapped(u, g), h) \o Mapped(g[x], h)
    BY <2>3, MappedConcat
  <2>5. Mapped(Append(u, x), j) = Mapped(u, j) \o j[x]  BY <1>3, MappedAppend
  <2> QED  BY <1>2, <1>3, <2>1, <2>2, <2>4, <2>5
<1> HIDE DEF B
<1>4. s \in B  BY <1>1, <1>2, SetOfSequences
<1>5. Mapped(s, j) = Mapped(s, k)
  <2>1. \A x \in X : j[x] = k[x]  BY <1>3
  <2> QED  BY <2>1, MappedSame
<1> QED  BY <1>4, <1>5 DEF B

LEMMA MappedToNothing ==
  ASSUME NEW X, NEW s \in Seq(X), NEW g, \A i \in 1..Len(s) : g[s[i]] = <<>>
  PROVE  Mapped(s, g) = <<>>
<1>0. Len(s) \in Nat  BY LenProperties
<1> DEFINE f == [i \in 1..Len(s) |-> g[s[i]]]
           N == {m \in Nat : m <= Len(s) => Joined(f, m) = <<>>}
<1>1. 0 \in N  BY JoinedNone
<1>2. ASSUME NEW m \in Nat, m \in N  PROVE m + 1 \in N
  <2> SUFFICES ASSUME m + 1 <= Len(s)  PROVE Joined(f, m + 1) = <<>>  OBVIOUS
  <2>1. m <= Len(s) /\ m + 1 \in 1..Len(s)  BY <1>0
  <2>2. f[m + 1] = <<>> /\ <<>> \in Seq({})  BY <2>1
  <2> HIDE DEF f
  <2>3. Joined(f, m + 1) = Joined(f, m) \o f[m + 1]  BY <2>2, JoinedAdds
  <2>4. Joined(f, m) = <<>>  BY <1>2, <2>1
  <2> QED  BY <2>2, <2>3, <2>4
<1> HIDE DEF N
<1>3. Len(s) \in N  BY <1>0, <1>1, <1>2, SetOfNaturals
<1> QED  BY <1>0, <1>3 DEF N, Mapped

\* What is made of each member is one value.
LEMMA MappedEach ==
  ASSUME NEW X, NEW Y, NEW s \in Seq(X), NEW g, NEW t \in Seq(Y), Len(t) = Len(s),
         \A i \in 1..Len(s) : g[s[i]] = <<t[i]>>
  PROVE  Mapped(s, g) = t
<1>0. Len(s) \in Nat  BY LenProperties
<1>1. PICK f : f = [i \in 1..Len(s) |-> g[s[i]]]  OBVIOUS
<1> DEFINE N == {m \in Nat : m <= Len(s) => Joined(f, m) = SubSeq(t, 1, m)}
<1>2. 0 \in N
  <2>1. SubSeq(t, 1, 0) = <<>>  BY SubSeqEmpty
  <2> QED  BY <2>1, JoinedNone
<1>3. ASSUME NEW m \in Nat, m \in N  PROVE m + 1 \in N
  <2> SUFFICES ASSUME m + 1 <= Len(s)  PROVE Joined(f, m + 1) = SubSeq(t, 1, m + 1)  OBVIOUS
  <2>1. m <= Len(s) /\ m + 1 \in 1..Len(s)  BY <1>0
  <2>2. t[m + 1] \in Y /\ f[m + 1] = <<t[m + 1]>>  BY <1>1, <2>1, ElementOfSeq
  <2>3. f[m + 1] \in Seq(Y)  BY <2>2
  <2>4. Joined(f, m + 1) = SubSeq(t, 1, m) \o <<t[m + 1]>>
    BY <1>3, <2>1, <2>2, <2>3, JoinedAdds
  <2>5. \A i \in 1..m + 1 : t[i] \in Y  BY <1>0, <2>1, ElementOfSeq
  <2>6. SubSeq(t, 1, m + 1) = Append(SubSeq(t, 1, m), t[m + 1])
    <3>1. m + 1 \in Int /\ 1 <= m + 1 /\ (m + 1) - 1 = m  OBVIOUS
    <3> QED  BY <2>5, <3>1, SubSeqRecursiveSecond
  <2>7. SubSeq(t, 1, m) \in Seq(Y)  BY <2>5, SubSeqProperties
  <2> QED  BY <2>2, <2>4, <2>6, <2>7, AppendIsConcat
<1> HIDE DEF N
<1>4. Len(s) \in N  BY <1>0, <1>2, <1>3, SetOfNaturals
<1>5. SubSeq(t, 1, Len(t)) = t  BY SubSeqFull
<1> QED  BY <1>0, <1>1, <1>4, <1>5 DEF N, Mapped

\* What is made of three sequences in a row is made of each.
Distributes(g, X) ==
    \A p, q, r \in Seq(X) : Mapped((p \o q) \o r, g) = (Mapped(p, g) \o Mapped(q, g)) \o Mapped(r, g)

LEMMA ThreeParts == ASSUME NEW X, NEW Y, NEW g, Maps(g, X, Y)  PROVE Distributes(g, X)
<1>1. \A s, t \in Seq(X) : Mapped(s \o t, g) = Mapped(s, g) \o Mapped(t, g)  BY MappedConcat
<1>2. ASSUME NEW p \in Seq(X), NEW q \in Seq(X), NEW r \in Seq(X)
      PROVE  Mapped((p \o q) \o r, g) = (Mapped(p, g) \o Mapped(q, g)) \o Mapped(r, g)
  <2>1. p \o q \in Seq(X)  BY ConcatProperties
  <2> QED  BY <1>1, <2>1
<1> QED  BY <1>2 DEF Distributes

\* The first k of a sequence.
First(s, k) == SubSeq(s, 1, k)

LEMMA FirstIs ==
  ASSUME NEW X, NEW s \in Seq(X), NEW k \in 0..Len(s)
  PROVE  First(s, k) \in Seq(X) /\ Len(First(s, k)) = k /\ \A i \in 1..k : First(s, k)[i] = s[i]
<1>1. Len(s) \in Nat /\ k \in Int  BY LenProperties
<1>2. \A i \in 1..k : s[i] \in X  BY <1>1, ElementOfSeq
<1>3. /\ SubSeq(s, 1, k) \in Seq(X)
      /\ Len(SubSeq(s, 1, k)) = IF 1 <= k THEN k - 1 + 1 ELSE 0
      /\ \A i \in 1..k - 1 + 1 : SubSeq(s, 1, k)[i] = s[1 + i - 1]
  BY <1>1, <1>2, SubSeqProperties
<1>4. \A i \in 1..k : i \in 1..k - 1 + 1 /\ 1 + i - 1 = i  BY <1>1
<1>5. k = IF 1 <= k THEN k - 1 + 1 ELSE 0  BY <1>1
<1> QED  BY <1>3, <1>4, <1>5 DEF First

LEMMA FirstMoves ==
  ASSUME NEW X, NEW s \in Seq(X), NEW k \in 0..Len(s), k < Len(s)
  PROVE  First(s, k + 1) = Append(First(s, k), s[k + 1])
<1>1. Len(s) \in Nat  BY LenProperties
<1>2. k + 1 \in 1..Len(s) /\ k + 1 \in k + 1..Len(s) /\ (k + 1) - 1 = k  BY <1>1
<1>3. PICK m : m = k + 1  OBVIOUS
<1>4. 1 \in 1..Len(s) /\ m \in 1..Len(s)  BY <1>1, <1>2, <1>3
<1>5. SubSeq(s, 1, m) = SubSeq(s, 1, m - 1) \o <<s[m]>>  BY <1>4, SubSeqRecursiveSecond
<1>6. First(s, k) \in Seq(X) /\ s[m] \in X  BY <1>4, FirstIs, ElementOfSeq
<1>7. Append(First(s, k), s[m]) = First(s, k) \o <<s[m]>>  BY <1>6, AppendIsConcat
<1> QED  BY <1>2, <1>3, <1>5, <1>7 DEF First

LEMMA FirstOfConcat ==
  ASSUME NEW X, NEW s \in Seq(X), NEW t \in Seq(X), NEW k \in 0..Len(s)
  PROVE  First(s \o t, k) = First(s, k)
<1>1. Len(s) \in Nat /\ Len(t) \in Nat  BY LenProperties
<1>2. PICK u : u = s \o t  OBVIOUS
<1>3. u \in Seq(X) /\ Len(u) = Len(s) + Len(t) /\ \A i \in 1..Len(s) : u[i] = s[i]
  <2>1. /\ s \o t \in Seq(X) /\ Len(s \o t) = Len(s) + Len(t)
        /\ \A i \in 1..Len(s) + Len(t) : (s \o t)[i] = IF i <= Len(s) THEN s[i] ELSE t[i - Len(s)]
    BY ConcatProperties
  <2>2. \A i \in 1..Len(s) : i \in 1..Len(s) + Len(t) /\ i <= Len(s)  BY <1>1
  <2> QED  BY <1>2, <2>1, <2>2
<1>4. k \in 0..Len(u)  BY <1>1, <1>3
<1>5. First(u, k) \in Seq(X) /\ Len(First(u, k)) = k /\ \A i \in 1..k : First(u, k)[i] = u[i]
  BY <1>3, <1>4, FirstIs
<1>6. First(s, k) \in Seq(X) /\ Len(First(s, k)) = k /\ \A i \in 1..k : First(s, k)[i] = s[i]
  BY FirstIs
<1>7. \A i \in 1..k : i \in 1..Len(s)  BY <1>1
<1>8. \A i \in 1..k : First(u, k)[i] = First(s, k)[i]  BY <1>3, <1>5, <1>6, <1>7
<1>9. First(u, k) = First(s, k)  BY <1>5, <1>6, <1>8, SeqEqual
<1> QED  BY <1>2, <1>9

\* A sequence is its first members and the others.
LEMMA FirstAndOthers ==
  ASSUME NEW X, NEW s \in Seq(X), NEW k \in 0..Len(s)
  PROVE  \E t \in Seq(X) : s = First(s, k) \o t
<1>1. PICK n : n = Len(s)  OBVIOUS
<1>2. n \in Nat /\ k \in 0..n  BY <1>1, LenProperties
<1>3. 1 \in 1..n + 1 /\ k \in 1 - 1..n /\ n \in k..n  BY <1>2
<1>4. SubSeq(s, 1, k) \o SubSeq(s, k + 1, n) = SubSeq(s, 1, n)
  <2>1. 1 \in 1..Len(s) + 1 /\ k \in 1 - 1..Len(s) /\ n \in k..Len(s)  BY <1>1, <1>3
  <2> QED  BY <2>1, ConcatAdjacentSubSeq
<1>5. SubSeq(s, k + 1, n) \in Seq(X)
  <2>1. k + 1 \in Int /\ n \in Int  BY <1>2
  <2>2. \A i \in k + 1..n : s[i] \in X  BY <1>1, <1>2, ElementOfSeq
  <2> QED  BY <2>1, <2>2, SubSeqProperties
<1>6. SubSeq(s, 1, n) = s  BY <1>1, SubSeqFull
<1> QED  BY <1>4, <1>5, <1>6 DEF First

\* One member is handed on.
LEMMA HandedOn ==
  ASSUME NEW X, NEW r \in Seq(X), NEW s \in Seq(X), s # <<>>
  PROVE  /\ Append(r, Head(s)) \in Seq(X) /\ Tail(s) \in Seq(X)
         /\ Append(r, Head(s)) \o Tail(s) = r \o s
<1>1. PICK h : h = Head(s)  OBVIOUS
<1>2. PICK t : t = Tail(s)  OBVIOUS
<1>3. h \in X /\ t \in Seq(X) /\ s = <<h>> \o t
  <2>1. Head(s) \in X /\ Tail(s) \in Seq(X)  BY HeadTailProperties
  <2>2. Len(s) \in Nat /\ Len(s) # 0  BY LenProperties, EmptySeq
  <2>3. 1 \in 1..Len(s) /\ Len(s) \in 1..Len(s)  BY <2>2
  <2>4. SubSeq(s, 1, Len(s)) = <<s[1]>> \o SubSeq(s, 1 + 1, Len(s))  BY <2>3, SubSeqRecursiveFirst
  <2>5. SubSeq(s, 1, Len(s)) = s  BY SubSeqFull
  <2>6. Tail(s) = SubSeq(s, 2, Len(s))  BY TailIsSubSeq
  <2>7. Head(s) = s[1] /\ 1 + 1 = 2  OBVIOUS
  <2> QED  BY <1>1, <1>2, <2>1, <2>4, <2>5, <2>6, <2>7
<1>4. Append(r, h) \in Seq(X) /\ Append(r, h) = r \o <<h>>  BY <1>3, AppendProperties, AppendIsConcat
<1>5. PICK o : o = <<h>>  OBVIOUS
<1>6. o \in Seq(X) /\ t \in Seq(X)  BY <1>3, <1>5
<1>7. (r \o o) \o t = r \o (o \o t)  BY <1>6, Associates
<1> QED  BY <1>1, <1>2, <1>3, <1>4, <1>5, <1>7

\* What is left of the members from k + 1 to n, with more behind them.
Left(s, k, n, t) == SubSeq(s, k + 1, n) \o t

LEMMA RestIs ==
  ASSUME NEW X, NEW s \in Seq(X), NEW n \in 0..Len(s), NEW k \in 0..n, NEW t \in Seq(X)
  PROVE  /\ k = n => Left(s, k, n, t) = t
         /\ k < n => /\ Left(s, k, n, t) # <<>> /\ Head(Left(s, k, n, t)) = s[k + 1]
                     /\ Tail(Left(s, k, n, t)) = Left(s, k + 1, n, t)
<1>1. Len(s) \in Nat /\ n \in Nat /\ k \in Nat  BY LenProperties
<1>2. CASE k = n
  <2>1. k + 1 \in Int /\ n \in Int /\ n < k + 1  BY <1>1, <1>2
  <2>2. SubSeq(s, k + 1, n) = <<>>  BY <2>1, SubSeqEmpty
  <2>3. <<>> \o t = t  BY ConcatEmptySeq
  <2> QED  BY <1>1, <1>2, <2>2, <2>3 DEF Left
<1>3. CASE k < n
  <2>1. PICK m : m = k + 1  OBVIOUS
  <2>2. m \in 1..Len(s) /\ n \in m..Len(s) /\ m \in Int /\ n \in Int /\ m + 1 \in Int  BY <1>1, <1>3, <2>1
  <2>3. PICK u : u = SubSeq(s, m, n)  OBVIOUS
  <2>4. PICK v : v = SubSeq(s, m + 1, n)  OBVIOUS
  <2>5. PICK o : o = <<s[m]>>  OBVIOUS
  <2>6. u = o \o v
    <3>1. SubSeq(s, m, n) = <<s[m]>> \o SubSeq(s, m + 1, n)  BY <2>2, SubSeqRecursiveFirst
    <3> QED  BY <2>3, <2>4, <2>5, <3>1
  <2>7. v \in Seq(X) /\ o \in Seq(X)
    <3>1. \A i \in m + 1..n : s[i] \in X  BY <1>1, <2>2, ElementOfSeq
    <3>2. SubSeq(s, m + 1, n) \in Seq(X)  BY <2>2, <3>1, SubSeqProperties
    <3>3. s[m] \in X  BY <2>2, ElementOfSeq
    <3> QED  BY <2>4, <2>5, <3>2, <3>3
  <2>8. PICK w : w = v \o t  OBVIOUS
  <2>9. w \in Seq(X)  BY <2>7, <2>8, ConcatProperties
  <2>10. u \o t = o \o w
    <3>1. (o \o v) \o t = o \o (v \o t)  BY <2>7, Associates
    <3> QED  BY <2>6, <2>8, <3>1
  <2>11. s[m] \in X  BY <2>2, ElementOfSeq
  <2>12. o \o w # <<>> /\ Head(o \o w) = s[m] /\ Tail(o \o w) = w
    <3>1. PICK x : x = s[m]  OBVIOUS
    <3>2. x \in X /\ o = <<x>>  BY <2>5, <2>11, <3>1
    <3>3. <<x>> \o w # <<>> /\ Head(<<x>> \o w) = x  BY <2>9, <3>2
    <3>4. Tail(<<x>> \o w) = w
      <4>1. PICK z : z = <<x>> \o w  OBVIOUS
      <4>2. /\ z \in Seq(X) /\ Len(z) = 1 + Len(w) /\ Len(w) \in Nat
            /\ \A i \in 1..Len(w) : z[i + 1] = w[i]
        <5>1. <<x>> \in Seq(X) /\ Len(<<x>>) = 1 /\ Len(w) \in Nat  BY <2>9, <3>2
        <5>2. /\ <<x>> \o w \in Seq(X) /\ Len(<<x>> \o w) = Len(<<x>>) + Len(w)
              /\ \A i \in 1..Len(<<x>>) + Len(w) :
                    (<<x>> \o w)[i] = IF i <= Len(<<x>>) THEN <<x>>[i] ELSE w[i - Len(<<x>>)]
          BY <2>9, <5>1, ConcatProperties
        <5>3. \A i \in 1..Len(w) : i + 1 \in 1..1 + Len(w) /\ ~(i + 1 <= 1) /\ (i + 1) - 1 = i  BY <5>1
        <5> QED  BY <4>1, <5>1, <5>2, <5>3
      <4>3. z # <<>>  BY <3>3, <4>1
      <4>4. Tail(z) \in Seq(X) /\ Len(Tail(z)) = Len(z) - 1
            /\ \A i \in 1..Len(Tail(z)) : Tail(z)[i] = z[i + 1]
        BY <4>2, <4>3, HeadTailProperties
      <4>5. Len(Tail(z)) = Len(w)  BY <4>2, <4>4
      <4>6. \A i \in 1..Len(w) : Tail(z)[i] = w[i]  BY <4>2, <4>4, <4>5
      <4>7. Tail(z) = w  BY <2>9, <4>4, <4>5, <4>6, SeqEqual
      <4> QED  BY <4>1, <4>7
    <3> QED  BY <3>1, <3>2, <3>3, <3>4
  <2>13. k # n  BY <1>1, <1>3
  <2> QED  BY <2>1, <2>3, <2>4, <2>8, <2>10, <2>12, <2>13 DEF Left
<1> QED  BY <1>1, <1>2, <1>3

\* What a sequence starts with is a prefix of it.
LEMMA PrefixIs ==
  ASSUME NEW Y, NEW s \in Seq(Y), NEW t \in Seq(Y)  PROVE Conversion!IsPrefix(s, s \o t)
<1>1. PICK u : u = s \o t  OBVIOUS
<1>2. PICK n : n = Len(s)  OBVIOUS
<1>3. n \in Nat /\ Len(t) \in Nat  BY <1>2, LenProperties
<1>4. Len(u) = n + Len(t)  BY <1>1, <1>2, ConcatProperties
<1>5. n \in 0..Len(s)  BY <1>2, <1>3
<1>6. First(s \o t, n) = First(s, n)  BY <1>5, FirstOfConcat
<1>7. n <= Len(u)  BY <1>3, <1>4
<1> QED  BY <1>1, <1>2, <1>6, <1>7 DEF Conversion!IsPrefix, First

LEMMA HalvesAre ==
  ASSUME NEW X, NEW Z, NEW s \in Seq(X), NEW t \in Seq(X), s \o t \in Seq(Z)
  PROVE  s \in Seq(Z) /\ t \in Seq(Z)
<1>1. PICK u : u = s \o t  OBVIOUS
<1>2. Len(s) \in Nat /\ Len(t) \in Nat  BY LenProperties
<1>3. /\ Len(u) = Len(s) + Len(t)
      /\ \A i \in 1..Len(s) + Len(t) : u[i] = IF i <= Len(s) THEN s[i] ELSE t[i - Len(s)]
  BY <1>1, ConcatProperties
<1>4. \A i \in 1..Len(u) : u[i] \in Z  BY <1>1, ElementOfSeq
<1>5. ASSUME NEW i \in 1..Len(s)  PROVE s[i] \in Z
  <2>1. i \in 1..Len(s) + Len(t) /\ i <= Len(s)  BY <1>2
  <2> QED  BY <1>3, <1>4, <2>1
<1>6. ASSUME NEW i \in 1..Len(t)  PROVE t[i] \in Z
  <2>1. PICK j : j = Len(s) + i  OBVIOUS
  <2>2. j \in 1..Len(s) + Len(t) /\ ~(j <= Len(s)) /\ j - Len(s) = i  BY <1>2, <2>1
  <2> QED  BY <1>3, <1>4, <2>2
<1>7. s = [i \in 1..Len(s) |-> s[i]] /\ t = [i \in 1..Len(t) |-> t[i]]  OBVIOUS
<1>8. s \in [1..Len(s) -> Z] /\ t \in [1..Len(t) -> Z]  BY <1>5, <1>6, <1>7
<1> QED  BY <1>2, <1>8

LEMMA PairIs == ASSUME NEW X, NEW x \in X, NEW y \in X  PROVE <<x>> \o <<y>> = <<x, y>>
<1>1. PICK p : p = <<x>>  OBVIOUS
<1>2. PICK q : q = <<y>>  OBVIOUS
<1>3. PICK u : u = p \o q  OBVIOUS
<1>4. p \in Seq(X) /\ q \in Seq(X) /\ Len(p) = 1 /\ Len(q) = 1 /\ p[1] = x /\ q[1] = y  BY <1>1, <1>2
<1>5. /\ p \o q \in Seq(X) /\ Len(p \o q) = Len(p) + Len(q)
      /\ \A i \in 1..Len(p) + Len(q) : (p \o q)[i] = IF i <= Len(p) THEN p[i] ELSE q[i - Len(p)]
  BY <1>4, ConcatProperties
<1>6. u \in Seq(X) /\ Len(u) = 2 /\ u[1] = x /\ u[2] = y  BY <1>3, <1>4, <1>5
<1>7. <<x, y>> \in Seq(X) /\ Len(<<x, y>>) = 2 /\ <<x, y>>[1] = x /\ <<x, y>>[2] = y  OBVIOUS
<1>8. \A i \in 1..Len(u) : u[i] = <<x, y>>[i]  BY <1>6, <1>7
<1>9. u = <<x, y>>  BY <1>6, <1>7, <1>8, SeqEqual
<1> QED  BY <1>1, <1>2, <1>3, <1>9

LEMMA Nothings ==
  ASSUME NEW Y, NEW s \in Seq(Y)
  PROVE  (s \o <<>>) \o <<>> = s /\ (<<>> \o s) \o <<>> = s /\ (<<>> \o <<>>) \o s = s
<1>1. s \o <<>> = s /\ <<>> \o s = s  BY ConcatEmptySeq
<1>2. <<>> \o <<>> = <<>>  OBVIOUS
<1> QED  BY <1>1, <1>2

-----------------------------------------------------------------------------
(* Streams (Conversion)                                                    *)

LEMMA BoundedIsSeq ==
  ASSUME NEW S, NEW n \in Nat  PROVE Conversion!BoundedSeq(S, n) \subseteq Seq(S)
BY DEF Conversion!BoundedSeq, Conversion!SeqOf

\* Blocks, their pieces, and the chunks and events made of them.
IsText(b) == b.type = "text"
TextPiece == UNION {ToSet(b.text) : b \in {c \in Block : IsText(c)}}
InputPiece == UNION {ToSet(b.args) : b \in {c \in Block : ~IsText(c)}}
Piece == TextPiece \cup InputPiece
Value == Piece \cup {b.id : b \in {c \in Block : ~IsText(c)}}
               \cup {"assistant", "length", "tool_calls", "stop", ""}
Talk == [kind : {"role", "text", "call", "args"}, index : Int, value : Value]
Chunks == [kind : {"role", "text", "call", "args", "finish", "done"}, index : Int, value : Value]

Delta == [event : {"content_block_delta"}, type : {"text_delta", "input_json_delta"}, piece : Piece]
Start == [event : {"content_block_start"}, block : Block, index : Int]
Quiet == Delta \cup {[event |-> "message_start"], [event |-> "ping"], [event |-> "content_block_stop"]}
Middle == Quiet \cup Start
Over == [event |-> "message_stop"]
Event == Middle \cup [event : {"message_delta"}, stop : {"end_turn", "max_tokens", "tool_use", ""}]
                \cup {Over}

\* What an event is turned into when t is the place of the last call.
OpensCall(e) == e.event = "content_block_start" /\ e.block.type = "tool_use"
ChunksOf(e, t) ==
    IF e.event = "message_start" THEN <<Conversion!Chunk("role", 0, "assistant")>>
    ELSE IF OpensCall(e) THEN <<Conversion!Chunk("call", t + 1, e.block.id)>>
    ELSE IF e.event = "content_block_delta" /\ e.type = "text_delta"
      THEN <<Conversion!Chunk("text", 0, e.piece)>>
    ELSE IF e.event = "content_block_delta" THEN <<Conversion!Chunk("args", t, e.piece)>>
    ELSE IF e.event = "message_delta"
      THEN <<Conversion!Chunk("finish", 0, Conversion!Finish(e.stop)), Conversion!Done>>
    ELSE IF e.event = "message_stop" THEN <<Conversion!Done>>
    ELSE <<>>

\* The place of the last call some events have opened, and what they become.
Opens == [e \in Event |-> IF OpensCall(e) THEN <<e>> ELSE <<>>]
Place(es) == Len(Mapped(es, Opens)) - 1
Out(es) == Joined([i \in 1..Len(es) |-> ChunksOf(es[i], Place(SubSeq(es, 1, i - 1)))], Len(es))

LEMMA KindIs ==
  ASSUME NEW e \in Event
  PROVE  /\ e.event \in {"message_start", "content_block_start", "content_block_delta", "message_delta",
                         "ping", "content_block_stop", "message_stop"}
         /\ e.event = "content_block_start" => e \in Start
         /\ e.event = "content_block_delta" => e \in Delta
         /\ e \in Middle => e.event \notin {"message_delta", "message_stop"}
         /\ e \in Quiet => e.event # "content_block_start"
<1>1. CASE e \in Delta
  <2>1. e.event = "content_block_delta"  BY <1>1 DEF Delta
  <2> QED  BY <1>1, <2>1
<1>2. CASE e \in Start
  <2>1. e.event = "content_block_start"  BY <1>2 DEF Start
  <2>2. e \notin Quiet  BY <2>1 DEF Quiet, Delta
  <2> QED  BY <1>2, <2>1, <2>2
<1>3. CASE e \in {[event |-> "message_start"], [event |-> "ping"], [event |-> "content_block_stop"]}
  <2>1. e.event \in {"message_start", "ping", "content_block_stop"}  BY <1>3
  <2> QED  BY <2>1
<1>4. CASE e \in [event : {"message_delta"}, stop : {"end_turn", "max_tokens", "tool_use", ""}]
  <2>1. e.event = "message_delta"  BY <1>4
  <2>2. e \notin Middle /\ e \notin Quiet  BY <2>1 DEF Middle, Quiet, Delta, Start
  <2> QED  BY <2>1, <2>2
<1>5. CASE e = Over
  <2>1. e.event = "message_stop"  BY <1>5 DEF Over
  <2>2. e \notin Middle /\ e \notin Quiet  BY <2>1 DEF Middle, Quiet, Delta, Start
  <2> QED  BY <2>1, <2>2
<1> QED  BY <1>1, <1>2, <1>3, <1>4, <1>5 DEF Event, Middle, Quiet

LEMMA ChunksAre ==
  ASSUME NEW e \in Event, NEW t \in Int  PROVE ChunksOf(e, t) \in Seq(Chunks)
<1>1. CASE e.event = "message_start"
  BY <1>1 DEF ChunksOf, Conversion!Chunk, Chunks, Value
<1>2. CASE OpensCall(e)
  <2>1. e.block \in Block /\ ~IsText(e.block) /\ e.event # "message_start"
    <3>1. e \in Start  BY <1>2, KindIs DEF OpensCall
    <3> QED  BY <1>2, <3>1 DEF OpensCall, Start, IsText
  <2>2. e.block.id \in Value  BY <2>1 DEF Value
  <2> QED  BY <1>2, <2>1, <2>2 DEF ChunksOf, Conversion!Chunk, Chunks
<1>3. CASE e.event = "content_block_delta"
  <2>1. e \in Delta  BY <1>3, KindIs
  <2>2. PICK v : v = e.piece  OBVIOUS
  <2>3. v \in Value  BY <2>1, <2>2 DEF Delta, Value
  <2>4. Conversion!Chunk("text", 0, v) \in Chunks /\ Conversion!Chunk("args", t, v) \in Chunks
    BY <2>3 DEF Conversion!Chunk, Chunks
  <2>5. ChunksOf(e, t) = IF e.type = "text_delta" THEN <<Conversion!Chunk("text", 0, v)>>
                         ELSE <<Conversion!Chunk("args", t, v)>>
    BY <1>3, <2>2 DEF ChunksOf, OpensCall
  <2> QED  BY <2>4, <2>5
<1>4. CASE e.event = "message_delta"
  <2>1. Conversion!Finish(e.stop) \in Value  BY DEF Conversion!Finish, Value
  <2>2. PICK v : v = Conversion!Finish(e.stop)  OBVIOUS
  <2>3. Conversion!Chunk("finish", 0, v) \in Chunks  BY <2>1, <2>2 DEF Conversion!Chunk, Chunks
  <2>4. Conversion!Done \in Chunks  BY DEF Conversion!Done, Conversion!Chunk, Chunks, Value
  <2>5. ChunksOf(e, t) = <<Conversion!Chunk("finish", 0, v), Conversion!Done>>
    BY <1>4, <2>2 DEF ChunksOf, OpensCall
  <2> QED  BY <2>3, <2>4, <2>5
<1>5. CASE e.event = "message_stop"
  <2>1. Conversion!Done \in Chunks  BY DEF Conversion!Done, Conversion!Chunk, Chunks, Value
  <2>2. ChunksOf(e, t) = <<Conversion!Done>>  BY <1>5 DEF ChunksOf, OpensCall
  <2> QED  BY <2>1, <2>2
<1>6. CASE e.event \notin {"message_start", "content_block_delta", "message_delta", "message_stop"} /\ ~OpensCall(e)
  BY <1>6 DEF ChunksOf
<1> QED  BY <1>1, <1>2, <1>3, <1>4, <1>5, <1>6

LEMMA OpensMaps == Maps(Opens, Event, Event)
BY DEF Maps, Opens

LEMMA PlaceIs == ASSUME NEW es \in Seq(Event)  PROVE Place(es) \in Int
<1>1. Mapped(es, Opens) \in Seq(Event)  BY OpensMaps, MappedIsSeq
<1>2. Len(Mapped(es, Opens)) \in Nat  BY <1>1, LenProperties
<1> QED  BY <1>2 DEF Place

LEMMA PlaceMoves ==
  ASSUME NEW es \in Seq(Event), NEW e \in Event
  PROVE  Place(Append(es, e)) = IF OpensCall(e) THEN Place(es) + 1 ELSE Place(es)
<1>1. Mapped(Append(es, e), Opens) = Mapped(es, Opens) \o Opens[e]  BY OpensMaps, MappedAppend
<1>2. PICK m : m = Mapped(es, Opens)  OBVIOUS
<1>3. m \in Seq(Event)  BY <1>2, OpensMaps, MappedIsSeq
<1>4. CASE OpensCall(e)
  <2>1. Len(m \o <<e>>) = Len(m) + 1 /\ Len(m) \in Nat  BY <1>3
  <2> QED  BY <1>1, <1>2, <1>4, <2>1 DEF Place, Opens
<1>5. CASE ~OpensCall(e)
  <2>1. m \o <<>> = m  BY <1>3
  <2> QED  BY <1>1, <1>2, <1>5, <2>1 DEF Place, Opens
<1> QED  BY <1>4, <1>5

LEMMA OutMoves ==
  ASSUME NEW es \in Seq(Event), NEW e \in Event
  PROVE  Out(Append(es, e)) = Out(es) \o ChunksOf(e, Place(es))
<1> DEFINE n == Len(es)
           f == [i \in 1..n + 1 |-> ChunksOf(Append(es, e)[i], Place(SubSeq(Append(es, e), 1, i - 1)))]
<1>1. n \in Nat /\ Len(Append(es, e)) = n + 1  BY LenProperties, AppendProperties
<1>2. Append(es, e)[n + 1] = e /\ \A i \in 1..n : Append(es, e)[i] = es[i] /\ es[i] \in Event
  BY AppendProperties, ElementOfSeq
<1>3. ASSUME NEW i \in 1..n + 1  PROVE SubSeq(Append(es, e), 1, i - 1) = SubSeq(es, 1, i - 1)
  <2>1. i - 1 \in Int /\ \A j \in 1..i - 1 : j \in 1..n  BY <1>1
  <2>2. \A j \in 1..i - 1 : Append(es, e)[j] \in Event /\ es[j] \in Event /\ Append(es, e)[j] = es[j]
    BY <1>2, <2>1
  <2>3. PICK s : s = Append(es, e)  OBVIOUS
  <2>4. /\ SubSeq(s, 1, i - 1) \in Seq(Event)
        /\ Len(SubSeq(s, 1, i - 1)) = IF 1 <= i - 1 THEN i - 1 - 1 + 1 ELSE 0
        /\ \A j \in 1..i - 1 - 1 + 1 : SubSeq(s, 1, i - 1)[j] = s[1 + j - 1]
    BY <2>1, <2>2, <2>3, SubSeqProperties
  <2>5. /\ SubSeq(es, 1, i - 1) \in Seq(Event)
        /\ Len(SubSeq(es, 1, i - 1)) = IF 1 <= i - 1 THEN i - 1 - 1 + 1 ELSE 0
        /\ \A j \in 1..i - 1 - 1 + 1 : SubSeq(es, 1, i - 1)[j] = es[1 + j - 1]
    BY <2>1, <2>2, SubSeqProperties
  <2>6. \A j \in 1..i - 1 : 1 + j - 1 = j /\ j \in 1..i - 1 - 1 + 1  BY <2>1
  <2>7. Len(SubSeq(s, 1, i - 1)) = i - 1  BY <1>1, <2>4
  <2>8. \A j \in 1..Len(SubSeq(s, 1, i - 1)) : SubSeq(s, 1, i - 1)[j] = SubSeq(es, 1, i - 1)[j]
    BY <2>2, <2>3, <2>4, <2>5, <2>6, <2>7
  <2> QED  BY <2>3, <2>4, <2>5, <2>8, SeqEqual
<1>4. SubSeq(es, 1, n) = es  BY SubSeqFull
<1>5. f[n + 1] = ChunksOf(e, Place(es))
  <2>1. n + 1 \in 1..n + 1 /\ (n + 1) - 1 = n  BY <1>1
  <2>2. SubSeq(Append(es, e), 1, (n + 1) - 1) = es  BY <1>3, <1>4, <2>1
  <2> HIDE DEF n
  <2> QED  BY <1>2, <2>1, <2>2
<1>6. ASSUME NEW i \in 1..n  PROVE f[i] = ChunksOf(es[i], Place(SubSeq(es, 1, i - 1)))
  <2>1. i \in 1..n + 1  BY <1>1
  <2>2. SubSeq(Append(es, e), 1, i - 1) = SubSeq(es, 1, i - 1)  BY <1>3, <2>1
  <2>3. Append(es, e)[i] = es[i]  BY <1>2
  <2> QED  BY <2>1, <2>2, <2>3
<1>7. [i \in 1..n |-> f[i]]
        = [i \in 1..n |-> [j \in 1..n |-> ChunksOf(es[j], Place(SubSeq(es, 1, j - 1)))][i]]
  BY <1>6
<1>8. Joined(f, n) = Out(es)  BY <1>7 DEF Joined, Out
<1>9. Out(Append(es, e)) = Joined(f, n + 1)  BY <1>1 DEF Out
<1>10. f[n + 1] \in Seq(Chunks)  BY <1>5, PlaceIs, ChunksAre
<1> HIDE DEF f, n
<1> QED  BY <1>1, <1>5, <1>8, <1>9, <1>10, JoinedAdds

LEMMA OutNone == Out(<<>>) = <<>> /\ Place(<<>>) = -1
<1>1. Len(<<>>) = 0  OBVIOUS
<1> QED  BY <1>1, JoinedNone, MappedNone DEF Out, Place

LEMMA OutIsSeq == ASSUME NEW es \in Seq(Event)  PROVE Out(es) \in Seq(Chunks)
<1> DEFINE B == {s \in Seq(Event) : Out(s) \in Seq(Chunks)}
<1>1. <<>> \in B  BY OutNone, EmptySeq
<1>2. ASSUME NEW s \in Seq(Event), NEW e \in Event, s \in B  PROVE Append(s, e) \in B
  <2>1. Append(s, e) \in Seq(Event)  BY AppendProperties
  <2>2. ChunksOf(e, Place(s)) \in Seq(Chunks)  BY PlaceIs, ChunksAre
  <2>3. Out(s) \o ChunksOf(e, Place(s)) \in Seq(Chunks)  BY <1>2, <2>2, ConcatProperties
  <2> QED  BY <2>1, <2>3, OutMoves
<1> HIDE DEF B
<1>3. es \in B  BY <1>1, <1>2, SetOfSequences
<1> QED  BY <1>3 DEF B

\* Events that open no call: each is turned into the same chunks wherever it stands.
Quietly(t) == [e \in Quiet |-> ChunksOf(e, t)]

LEMMA QuietMaps == ASSUME NEW t \in Int  PROVE Maps(Quietly(t), Quiet, Chunks)
<1>1. \A e \in Quiet : e \in Event  BY DEF Event, Middle
<1>2. \A e \in Quiet : ChunksOf(e, t) \in Seq(Chunks)  BY <1>1, ChunksAre
<1> QED  BY <1>2 DEF Maps, Quietly

LEMMA QuietOut ==
  ASSUME NEW es \in Seq(Event), NEW qs \in Seq(Quiet)
  PROVE  /\ es \o qs \in Seq(Event) /\ Place(es \o qs) = Place(es)
         /\ Out(es \o qs) = Out(es) \o Mapped(qs, Quietly(Place(es)))
<1> DEFINE G(u) == /\ es \o u \in Seq(Event) /\ Place(es \o u) = Place(es)
                   /\ Out(es \o u) = Out(es) \o Mapped(u, Quietly(Place(es)))
           B == {u \in Seq(Quiet) : G(u)}
<1>0. PICK t : t = Place(es)  OBVIOUS
<1>1. t \in Int /\ Maps(Quietly(t), Quiet, Chunks)  BY <1>0, PlaceIs, QuietMaps
<1>2. Out(es) \in Seq(Chunks)  BY OutIsSeq
<1>3. G(<<>>)
  <2>1. es \o <<>> = es  BY ConcatEmptySeq
  <2>2. Out(es) \o <<>> = Out(es)  BY <1>2, ConcatEmptySeq
  <2> QED  BY <2>1, <2>2, MappedNone
<1>4. ASSUME NEW u \in Seq(Quiet), NEW e \in Quiet, G(u)  PROVE G(Append(u, e))
  <2>1. e \in Event /\ ~OpensCall(e)
    <3>1. e \in Event  BY DEF Event, Middle
    <3> QED  BY <3>1, KindIs DEF OpensCall
  <2>2. u \in Seq(Event)
    <3>1. Quiet \subseteq Event  BY DEF Event, Middle
    <3> QED  BY <3>1, SeqMonotonic
  <2>3. PICK v : v = es \o u  OBVIOUS
  <2>4. v \in Seq(Event) /\ es \o Append(u, e) = Append(v, e)
    <3>1. v \in Seq(Event) /\ <<e>> \in Seq(Event)  BY <1>4, <2>1, <2>3
    <3>2. Append(u, e) = u \o <<e>> /\ Append(v, e) = v \o <<e>>  BY <2>1, <2>2, <3>1, AppendIsConcat
    <3>3. (es \o u) \o <<e>> = es \o (u \o <<e>>)  BY <2>2, <3>1, Associates
    <3> QED  BY <2>3, <3>1, <3>2, <3>3
  <2>5. Append(v, e) \in Seq(Event) /\ Place(Append(v, e)) = Place(v)
    BY <2>1, <2>4, PlaceMoves, AppendProperties
  <2>6. Out(Append(v, e)) = Out(v) \o ChunksOf(e, t)
    <3>1. Place(v) = t  BY <1>0, <1>4, <2>3
    <3> QED  BY <2>1, <2>4, <3>1, OutMoves
  <2>7. Mapped(Append(u, e), Quietly(t)) = Mapped(u, Quietly(t)) \o ChunksOf(e, t)
    <3>1. Quietly(t)[e] = ChunksOf(e, t)  BY DEF Quietly
    <3>2. PICK g : g = Quietly(t)  OBVIOUS
    <3>3. Maps(g, Quiet, Chunks)  BY <1>1, <3>2
    <3>4. Mapped(Append(u, e), g) = Mapped(u, g) \o g[e]  BY <3>3, MappedAppend
    <3> QED  BY <3>1, <3>2, <3>4
  <2>8. PICK o : o = Out(es)  OBVIOUS
  <2>9. PICK m : m = Mapped(u, Quietly(t))  OBVIOUS
  <2>10. PICK c : c = ChunksOf(e, t)  OBVIOUS
  <2>11. o \in Seq(Chunks) /\ m \in Seq(Chunks) /\ c \in Seq(Chunks)
    BY <1>1, <1>2, <2>1, <2>8, <2>9, <2>10, MappedIsSeq, ChunksAre
  <2>12. (o \o m) \o c = o \o (m \o c)  BY <2>11, Associates
  <2>13. Out(v) = o \o m  BY <1>0, <1>4, <2>3, <2>8, <2>9
  <2>14. Out(Append(v, e)) = o \o Mapped(Append(u, e), Quietly(t))
    BY <2>6, <2>7, <2>9, <2>10, <2>12, <2>13
  <2> QED  BY <1>0, <1>4, <2>3, <2>4, <2>5, <2>8, <2>14
<1>5. <<>> \in B  BY <1>3, EmptySeq
<1>6. ASSUME NEW u \in Seq(Quiet), NEW e \in Quiet, u \in B  PROVE Append(u, e) \in B
  <2> HIDE DEF G
  <2>1. G(u) /\ Append(u, e) \in Seq(Quiet)  BY <1>6, AppendProperties
  <2> QED  BY <1>4, <2>1
<1> HIDE DEF B
<1>7. qs \in B  BY <1>5, <1>6, SetOfSequences
<1> QED  BY <1>7 DEF B

\* The events of some blocks, and of one.
Body(bs) == Conversion!FlattenSeq([i \in 1..Len(bs) |-> Conversion!BlockEvents(bs[i], i - 1)])
Opening(bs) == <<[event |-> "message_start"], [event |-> "ping"]>> \o Body(bs)
Opened(b, i) == [event |-> "content_block_start", block |-> b, index |-> i]
Deltas(b) ==
    IF b.type = "text"
    THEN [j \in 1..Len(b.text) |->
            [event |-> "content_block_delta", type |-> "text_delta", piece |-> b.text[j]]]
    ELSE [j \in 1..Len(b.args) |->
            [event |-> "content_block_delta", type |-> "input_json_delta", piece |-> b.args[j]]]
Closed == [event |-> "content_block_stop"]

LEMMA PiecesAre ==
  ASSUME NEW b \in Block
  PROVE  /\ IsText(b) => b.text \in Seq(Piece)
         /\ ~IsText(b) => b.type = "tool_use" /\ b.args \in Seq(Piece)
<1>1. CASE IsText(b)
  <2>1. b.text \in Seq(ToSet(b.text))  BY <1>1, ConversionAssumption DEF IsText, List
  <2>2. ToSet(b.text) \subseteq Piece
    <3>1. ToSet(b.text) \subseteq TextPiece  BY <1>1 DEF TextPiece
    <3> QED  BY <3>1 DEF Piece
  <2> QED  BY <1>1, <2>1, <2>2, SeqMonotonic
<1>2. CASE ~IsText(b)
  <2>1. b.type = "tool_use" /\ b.args \in Seq(ToSet(b.args))
    BY <1>2, ConversionAssumption DEF IsText, List
  <2>2. ToSet(b.args) \subseteq Piece
    <3>1. ToSet(b.args) \subseteq InputPiece  BY <1>2 DEF InputPiece
    <3> QED  BY <3>1 DEF Piece
  <2> QED  BY <1>2, <2>1, <2>2, SeqMonotonic
<1> QED  BY <1>1, <1>2

LEMMA DeltasAre == ASSUME NEW b \in Block  PROVE Deltas(b) \in Seq(Quiet) /\ Deltas(b) \in Seq(Middle)
<1>0. Quiet \subseteq Middle  BY DEF Middle
<1>1. CASE IsText(b)
  <2>1. PICK s : s = b.text  OBVIOUS
  <2>2. s \in Seq(Piece) /\ Len(s) \in Nat /\ \A j \in 1..Len(s) : s[j] \in Piece
    BY <1>1, <2>1, PiecesAre, LenProperties, ElementOfSeq
  <2>3. Deltas(b) =
           [j \in 1..Len(s) |-> [event |-> "content_block_delta", type |-> "text_delta", piece |-> s[j]]]
    BY <1>1, <2>1 DEF Deltas, IsText
  <2>4. \A j \in 1..Len(s) :
           [event |-> "content_block_delta", type |-> "text_delta", piece |-> s[j]] \in Quiet
    BY <2>2 DEF Quiet, Delta
  <2>5. Deltas(b) \in Seq(Quiet)  BY <2>2, <2>3, <2>4
  <2> QED  BY <1>0, <2>5, SeqMonotonic
<1>2. CASE ~IsText(b)
  <2>1. PICK s : s = b.args  OBVIOUS
  <2>2. s \in Seq(Piece) /\ Len(s) \in Nat /\ \A j \in 1..Len(s) : s[j] \in Piece
    BY <1>2, <2>1, PiecesAre, LenProperties, ElementOfSeq
  <2>3. Deltas(b) =
           [j \in 1..Len(s) |-> [event |-> "content_block_delta", type |-> "input_json_delta", piece |-> s[j]]]
    BY <1>2, <2>1 DEF Deltas, IsText
  <2>4. \A j \in 1..Len(s) :
           [event |-> "content_block_delta", type |-> "input_json_delta", piece |-> s[j]] \in Quiet
    BY <2>2 DEF Quiet, Delta
  <2>5. Deltas(b) \in Seq(Quiet)  BY <2>2, <2>3, <2>4
  <2> QED  BY <1>0, <2>5, SeqMonotonic
<1> QED  BY <1>1, <1>2

LEMMA BlockEventsAre ==
  ASSUME NEW b \in Block, NEW i \in Int
  PROVE  /\ Opened(b, i) \in Middle /\ Closed \in Quiet /\ Closed \in Middle
         /\ Conversion!BlockEvents(b, i) = (<<Opened(b, i)>> \o Deltas(b)) \o <<Closed>>
         /\ Conversion!BlockEvents(b, i) \in Seq(Middle)
<1>1. Opened(b, i) \in Middle  BY DEF Opened, Middle, Start
<1>2. Closed \in Quiet /\ Closed \in Middle  BY DEF Closed, Quiet, Middle
<1>3. Conversion!BlockEvents(b, i) = (<<Opened(b, i)>> \o Deltas(b)) \o <<Closed>>
  BY DEF Conversion!BlockEvents, Opened, Deltas, Closed
<1>4. PICK o : o = Opened(b, i)  OBVIOUS
<1>5. <<o>> \in Seq(Middle) /\ Deltas(b) \in Seq(Middle) /\ <<Closed>> \in Seq(Middle)
  BY <1>1, <1>2, <1>4, DeltasAre
<1>6. <<o>> \o Deltas(b) \in Seq(Middle)  BY <1>5, ConcatProperties
<1>7. (<<o>> \o Deltas(b)) \o <<Closed>> \in Seq(Middle)  BY <1>5, <1>6, ConcatProperties
<1> QED  BY <1>1, <1>2, <1>3, <1>4, <1>7

LEMMA BodyIs ==
  ASSUME NEW bs \in Seq(Block)  PROVE Body(bs) \in Seq(Middle)
<1>1. PICK f : f = [i \in 1..Len(bs) |-> Conversion!BlockEvents(bs[i], i - 1)]  OBVIOUS
<1>2. Len(bs) \in Nat  BY LenProperties
<1>3. \A i \in 1..Len(bs) : f[i] \in Seq(Middle)
  <2>1. \A i \in 1..Len(bs) : bs[i] \in Block /\ i - 1 \in Int  BY ElementOfSeq
  <2> QED  BY <1>1, <2>1, BlockEventsAre
<1>4. Body(bs) = Joined(f, Len(bs))
  <2>1. f = [i \in 1..Len(bs) |-> f[i]]  BY <1>1
  <2> QED  BY <1>1, <2>1 DEF Body, Joined
<1> QED  BY <1>2, <1>3, <1>4, JoinedIsSeq

LEMMA BodyMoves ==
  ASSUME NEW bs \in Seq(Block), NEW b \in Block
  PROVE  Body(Append(bs, b)) = Body(bs) \o Conversion!BlockEvents(b, Len(bs))
<1>1. PICK n : n = Len(bs)  OBVIOUS
<1>2. n \in Nat /\ Len(Append(bs, b)) = n + 1  BY <1>1, LenProperties, AppendProperties
<1>3. PICK f : f = [i \in 1..n + 1 |-> Conversion!BlockEvents(Append(bs, b)[i], i - 1)]  OBVIOUS
<1>4. f[n + 1] = Conversion!BlockEvents(b, n)
  <2>1. n + 1 \in 1..n + 1 /\ (n + 1) - 1 = n  BY <1>2
  <2>2. Append(bs, b)[n + 1] = b  BY <1>1, AppendProperties
  <2>3. f[n + 1] = Conversion!BlockEvents(Append(bs, b)[n + 1], (n + 1) - 1)  BY <1>3, <2>1
  <2> QED  BY <2>1, <2>2, <2>3
<1>5. [i \in 1..n |-> f[i]] = [i \in 1..Len(bs) |-> Conversion!BlockEvents(bs[i], i - 1)]
  <2>1. \A i \in 1..n : Append(bs, b)[i] = bs[i] /\ i \in 1..n + 1  BY <1>1, <1>2, AppendProperties
  <2>2. \A i \in 1..n : f[i] = Conversion!BlockEvents(bs[i], i - 1)  BY <1>3, <2>1
  <2> QED  BY <1>1, <2>2
<1>6. Joined(f, n) = Body(bs)  BY <1>5 DEF Joined, Body
<1>7. Joined(f, n + 1) = Body(Append(bs, b))
  <2>1. f = [i \in 1..n + 1 |-> f[i]]  BY <1>3
  <2> QED  BY <1>2, <1>3, <2>1 DEF Joined, Body
<1>8. f[n + 1] \in Seq(Middle)
  <2>1. n \in Int  BY <1>2
  <2> QED  BY <1>4, <2>1, BlockEventsAre
<1> QED  BY <1>1, <1>2, <1>4, <1>6, <1>7, <1>8, JoinedAdds

LEMMA OpeningIs ==
  ASSUME NEW bs \in Seq(Block)  PROVE Opening(bs) \in Seq(Middle) /\ Opening(bs) \in Seq(Event)
<1>1. <<[event |-> "message_start"], [event |-> "ping"]>> \in Seq(Middle)  BY DEF Middle, Quiet
<1>2. Opening(bs) \in Seq(Middle)  BY <1>1, BodyIs, ConcatProperties DEF Opening
<1>3. Middle \subseteq Event  BY DEF Event
<1> QED  BY <1>2, <1>3, SeqMonotonic

LEMMA OpeningMoves ==
  ASSUME NEW bs \in Seq(Block), NEW b \in Block
  PROVE  Opening(Append(bs, b)) = Append(Opening(bs), Opened(b, Len(bs))) \o (Deltas(b) \o <<Closed>>)
<1>1. Len(bs) \in Int  BY LenProperties
<1>2. PICK p : p = <<[event |-> "message_start"], [event |-> "ping"]>>  OBVIOUS
<1>3. PICK q : q = Body(bs)  OBVIOUS
<1>4. PICK o : o = Opened(b, Len(bs))  OBVIOUS
<1>5. PICK d : d = Deltas(b)  OBVIOUS
<1>6. p \in Seq(Middle) /\ q \in Seq(Middle) /\ o \in Middle /\ d \in Seq(Middle) /\ Closed \in Middle
  <2>1. p \in Seq(Middle)  BY <1>2 DEF Middle, Quiet
  <2> QED  BY <1>1, <1>3, <1>4, <1>5, <2>1, BodyIs, DeltasAre, BlockEventsAre
<1>7. PICK u : u = <<o>>  OBVIOUS
<1>8. PICK w : w = <<Closed>>  OBVIOUS
<1>9. u \in Seq(Middle) /\ w \in Seq(Middle)  BY <1>6, <1>7, <1>8
<1>10. Conversion!BlockEvents(b, Len(bs)) = (u \o d) \o w  BY <1>1, <1>4, <1>5, <1>7, <1>8, BlockEventsAre
<1>11. Opening(Append(bs, b)) = p \o (q \o ((u \o d) \o w))
  BY <1>2, <1>3, <1>10, BodyMoves DEF Opening
<1>12. p \o q \in Seq(Middle) /\ d \o w \in Seq(Middle) /\ u \o d \in Seq(Middle)
  BY <1>6, <1>9, ConcatProperties
<1>13. (u \o d) \o w = u \o (d \o w)
  <2>1. u \in Seq(Middle) /\ d \in Seq(Middle) /\ w \in Seq(Middle)  BY <1>6, <1>9
  <2> QED  BY <2>1, Associates
<1>14. u \o (d \o w) \in Seq(Middle)  BY <1>9, <1>12, ConcatProperties
<1>15. p \o (q \o (u \o (d \o w))) = (p \o q) \o (u \o (d \o w))
  <2>1. PICK r : r = u \o (d \o w)  OBVIOUS
  <2>2. p \in Seq(Middle) /\ q \in Seq(Middle) /\ r \in Seq(Middle)  BY <1>6, <1>14, <2>1
  <2>3. (p \o q) \o r = p \o (q \o r)  BY <2>2, Associates
  <2> QED  BY <2>1, <2>3
<1>16. (p \o q) \o (u \o (d \o w)) = ((p \o q) \o u) \o (d \o w)
  <2>1. PICK r : r = d \o w  OBVIOUS
  <2>2. PICK s : s = p \o q  OBVIOUS
  <2>3. s \in Seq(Middle) /\ u \in Seq(Middle) /\ r \in Seq(Middle)  BY <1>9, <1>12, <2>1, <2>2
  <2>4. (s \o u) \o r = s \o (u \o r)  BY <2>3, Associates
  <2> QED  BY <2>1, <2>2, <2>4
<1>17. Append(p \o q, o) = (p \o q) \o u  BY <1>6, <1>7, <1>12, AppendIsConcat
<1> QED  BY <1>2, <1>3, <1>4, <1>5, <1>8, <1>11, <1>13, <1>15, <1>16, <1>17 DEF Opening

\* The chunks of a block whose call, if it is one, has the place t.
Written(b, t) ==
    IF IsText(b) THEN [j \in 1..Len(b.text) |-> Conversion!Chunk("text", 0, b.text[j])]
    ELSE [j \in 1..Len(b.args) |-> Conversion!Chunk("args", t, b.args[j])]
Announced(b, t) == IF IsText(b) THEN <<>> ELSE <<Conversion!Chunk("call", t, b.id)>>

LEMMA WrittenIs ==
  ASSUME NEW b \in Block, NEW t \in Int
  PROVE  /\ Written(b, t) \in Seq(Talk) /\ Announced(b, t) \in Seq(Talk)
         /\ Mapped(Deltas(b), Quietly(t)) = Written(b, t)
<1>0. Deltas(b) \in Seq(Quiet)  BY DeltasAre
<1>1. CASE IsText(b)
  <2>1. PICK s : s = b.text  OBVIOUS
  <2>2. s \in Seq(Piece) /\ Len(s) \in Nat /\ \A j \in 1..Len(s) : s[j] \in Piece
    BY <1>1, <2>1, PiecesAre, LenProperties, ElementOfSeq
  <2>3. PICK w : w = [j \in 1..Len(s) |-> Conversion!Chunk("text", 0, s[j])]  OBVIOUS
  <2>4. Written(b, t) = w  BY <1>1, <2>1, <2>3 DEF Written
  <2>5. \A j \in 1..Len(s) : Conversion!Chunk("text", 0, s[j]) \in Talk
    <3>1. \A j \in 1..Len(s) : s[j] \in Value  BY <2>2 DEF Value
    <3>2. \A v \in Value : Conversion!Chunk("text", 0, v) \in Talk  BY DEF Conversion!Chunk, Talk
    <3> QED  BY <3>1, <3>2
  <2>6. w \in Seq(Talk) /\ Len(w) = Len(s)  BY <2>2, <2>3, <2>5
  <2>7. PICK d : d = Deltas(b)  OBVIOUS
  <2>8. d =
           [j \in 1..Len(s) |-> [event |-> "content_block_delta", type |-> "text_delta", piece |-> s[j]]]
    BY <1>1, <2>1, <2>7 DEF Deltas, IsText
  <2>9. Len(d) = Len(s)  BY <2>2, <2>8
  <2>10. ASSUME NEW j \in 1..Len(d)  PROVE Quietly(t)[d[j]] = <<w[j]>>
    <3>1. d[j] \in Quiet /\ j \in 1..Len(s)  BY <1>0, <2>7, <2>9, ElementOfSeq
    <3>2. d[j] = [event |-> "content_block_delta", type |-> "text_delta", piece |-> s[j]]  BY <2>8, <3>1
    <3>3. ChunksOf(d[j], t) = <<Conversion!Chunk("text", 0, s[j])>>  BY <3>2 DEF ChunksOf, OpensCall
    <3> QED  BY <2>3, <3>1, <3>3 DEF Quietly
  <2>11. Mapped(d, Quietly(t)) = w
    <3>1. d \in Seq(Quiet) /\ Len(w) = Len(d)  BY <1>0, <2>6, <2>7, <2>9
    <3> QED  BY <2>6, <2>10, <3>1, MappedEach
  <2> QED  BY <1>1, <2>4, <2>6, <2>7, <2>11 DEF Announced
<1>2. CASE ~IsText(b)
  <2>1. PICK s : s = b.args  OBVIOUS
  <2>2. s \in Seq(Piece) /\ Len(s) \in Nat /\ \A j \in 1..Len(s) : s[j] \in Piece
    BY <1>2, <2>1, PiecesAre, LenProperties, ElementOfSeq
  <2>3. PICK w : w = [j \in 1..Len(s) |-> Conversion!Chunk("args", t, s[j])]  OBVIOUS
  <2>4. Written(b, t) = w  BY <1>2, <2>1, <2>3 DEF Written
  <2>5. \A j \in 1..Len(s) : Conversion!Chunk("args", t, s[j]) \in Talk
    <3>1. \A j \in 1..Len(s) : s[j] \in Value  BY <2>2 DEF Value
    <3>2. \A v \in Value : Conversion!Chunk("args", t, v) \in Talk  BY DEF Conversion!Chunk, Talk
    <3> QED  BY <3>1, <3>2
  <2>6. w \in Seq(Talk) /\ Len(w) = Len(s)  BY <2>2, <2>3, <2>5
  <2>7. PICK d : d = Deltas(b)  OBVIOUS
  <2>8. d =
           [j \in 1..Len(s) |-> [event |-> "content_block_delta", type |-> "input_json_delta", piece |-> s[j]]]
    BY <1>2, <2>1, <2>7 DEF Deltas, IsText
  <2>9. Len(d) = Len(s)  BY <2>2, <2>8
  <2>10. ASSUME NEW j \in 1..Len(d)  PROVE Quietly(t)[d[j]] = <<w[j]>>
    <3>1. d[j] \in Quiet /\ j \in 1..Len(s)  BY <1>0, <2>7, <2>9, ElementOfSeq
    <3>2. d[j] = [event |-> "content_block_delta", type |-> "input_json_delta", piece |-> s[j]]  BY <2>8, <3>1
    <3>3. ChunksOf(d[j], t) = <<Conversion!Chunk("args", t, s[j])>>  BY <3>2 DEF ChunksOf, OpensCall
    <3> QED  BY <2>3, <3>1, <3>3 DEF Quietly
  <2>11. Mapped(d, Quietly(t)) = w
    <3>1. d \in Seq(Quiet) /\ Len(w) = Len(d)  BY <1>0, <2>6, <2>7, <2>9
    <3> QED  BY <2>6, <2>10, <3>1, MappedEach
  <2>12. Conversion!Chunk("call", t, b.id) \in Talk  BY <1>2 DEF Conversion!Chunk, Talk, Value
  <2> QED  BY <1>2, <2>4, <2>6, <2>7, <2>11, <2>12 DEF Announced
<1> QED  BY <1>1, <1>2

\* One more block: the place of the last call after it, and the chunks.
PlaceWith(bs, b) == IF IsText(b) THEN Place(Opening(bs)) ELSE Place(Opening(bs)) + 1

LEMMA BlockOut ==
  ASSUME NEW bs \in Seq(Block), NEW b \in Block
  PROVE  /\ PlaceWith(bs, b) \in Int /\ Place(Opening(Append(bs, b))) = PlaceWith(bs, b)
         /\ Out(Opening(Append(bs, b)))
               = (Out(Opening(bs)) \o Announced(b, PlaceWith(bs, b))) \o Written(b, PlaceWith(bs, b))
<1>0. PICK p : p = Place(Opening(bs))  OBVIOUS
<1>19. PICK t : t = IF IsText(b) THEN p ELSE p + 1  OBVIOUS
<1>1. PICK o : o = Opened(b, Len(bs))  OBVIOUS
<1>2. o \in Event /\ o.event = "content_block_start" /\ o.block = b
  <2>1. Len(bs) \in Int  BY LenProperties
  <2>2. o \in Middle  BY <1>1, <2>1, BlockEventsAre
  <2> QED  BY <1>1, <2>2 DEF Event, Opened
<1>3. OpensCall(o) <=> ~IsText(b)  BY <1>2, PiecesAre DEF OpensCall, IsText
<1>4. PICK es : es = Opening(bs)  OBVIOUS
<1>5. es \in Seq(Event) /\ p \in Int  BY <1>0, <1>4, OpeningIs, PlaceIs
<1>6. PICK fs : fs = Append(es, o)  OBVIOUS
<1>7. fs \in Seq(Event) /\ Place(fs) = t
  BY <1>0, <1>19, <1>2, <1>3, <1>4, <1>5, <1>6, PlaceMoves, AppendProperties
<1>8. t \in Int  BY <1>19, <1>5
<1>9. Out(fs) = Out(es) \o Announced(b, t)
  <2>1. Out(fs) = Out(es) \o ChunksOf(o, p)  BY <1>0, <1>2, <1>4, <1>5, <1>6, OutMoves
  <2>2. ChunksOf(o, p) = Announced(b, t)
    <3>1. o.event # "message_start" /\ o.event # "content_block_delta" /\ o.event # "message_delta"
      BY <1>2
    <3> QED  BY <1>19, <1>2, <1>3, <3>1 DEF ChunksOf, Announced
  <2> QED  BY <2>1, <2>2
<1>10. PICK ds : ds = Deltas(b) \o <<Closed>>  OBVIOUS
<1>11. Deltas(b) \in Seq(Quiet) /\ Closed \in Quiet /\ <<Closed>> \in Seq(Quiet)
  BY DeltasAre DEF Closed, Quiet
<1>12. ds \in Seq(Quiet)  BY <1>10, <1>11, ConcatProperties
<1>13. PICK g : g = Quietly(t)  OBVIOUS
<1>14. Maps(g, Quiet, Chunks)  BY <1>8, <1>13, QuietMaps
<1>15. Mapped(ds, g) = Written(b, t)
  <2>1. Mapped(ds, g) = Mapped(Deltas(b), g) \o Mapped(<<Closed>>, g)
    <3>1. \A u, v \in Seq(Quiet) : Mapped(u \o v, g) = Mapped(u, g) \o Mapped(v, g)
      BY <1>14, MappedConcat
    <3> QED  BY <1>10, <1>11, <3>1
  <2>2. Mapped(<<Closed>>, g) = g[Closed]  BY <1>11, <1>14, MappedOne
  <2>3. g[Closed] = <<>>  BY <1>11, <1>13 DEF Quietly, ChunksOf, OpensCall, Closed
  <2>4. Mapped(Deltas(b), g) = Written(b, t) /\ Written(b, t) \in Seq(Talk)  BY <1>8, <1>13, WrittenIs
  <2>5. Written(b, t) \o <<>> = Written(b, t)  BY <2>4, ConcatEmptySeq
  <2> QED  BY <2>1, <2>2, <2>3, <2>4, <2>5
<1>16. Opening(Append(bs, b)) = fs \o ds  BY <1>1, <1>4, <1>6, <1>10, OpeningMoves
<1>17. Place(fs \o ds) = t /\ Out(fs \o ds) = Out(fs) \o Mapped(ds, g)
  BY <1>7, <1>12, <1>13, QuietOut
<1>18. PlaceWith(bs, b) = t  BY <1>0, <1>19 DEF PlaceWith
<1> QED  BY <1>4, <1>8, <1>9, <1>15, <1>16, <1>17, <1>18

\* The tests of the property, as functions on chunks.
TextF == [c \in Chunks |-> IF c.kind = "text" THEN <<c.value>> ELSE <<>>]
CallF == [c \in Chunks |-> IF c.kind = "call" THEN <<c>> ELSE <<>>]
ArgsF(i) == [c \in Chunks |-> IF c.kind = "args" /\ c.index = i THEN <<c.value>> ELSE <<>>]

LEMMA ChunkTestsMap ==
  /\ Maps(TextF, Chunks, Value) /\ Maps(CallF, Chunks, Chunks)
  /\ \A i \in Int : Maps(ArgsF(i), Chunks, Value)
<1>1. \A c \in Chunks : c.value \in Value  BY DEF Chunks
<1>2. Maps(TextF, Chunks, Value)  BY <1>1 DEF TextF, Maps
<1>3. Maps(CallF, Chunks, Chunks)  BY DEF CallF, Maps
<1>4. \A i \in Int : Maps(ArgsF(i), Chunks, Value)  BY <1>1 DEF ArgsF, Maps
<1> QED  BY <1>2, <1>3, <1>4

LEMMA TalkIsChunks == ASSUME NEW s \in Seq(Talk)  PROVE s \in Seq(Chunks)
<1>1. Talk \subseteq Chunks  BY DEF Talk, Chunks
<1> QED  BY <1>1, SeqMonotonic

LEMMA WrittenTests ==
  ASSUME NEW b \in Block, NEW t \in Int
  PROVE  /\ Mapped(Written(b, t), TextF) = IF IsText(b) THEN b.text ELSE <<>>
         /\ Mapped(Written(b, t), CallF) = <<>>
         /\ \A i \in Int : Mapped(Written(b, t), ArgsF(i)) = IF ~IsText(b) /\ i = t THEN b.args ELSE <<>>
<1>1. PICK w : w = Written(b, t)  OBVIOUS
<1>2. w \in Seq(Chunks) /\ Len(w) \in Nat /\ \A j \in 1..Len(w) : w[j] \in Chunks
  BY <1>1, WrittenIs, TalkIsChunks, LenProperties, ElementOfSeq
<1>3. CASE IsText(b)
  <2>1. PICK s : s = b.text  OBVIOUS
  <2>2. s \in Seq(Piece) /\ Len(s) \in Nat  BY <1>3, <2>1, PiecesAre, LenProperties
  <2>3. w = [j \in 1..Len(s) |-> Conversion!Chunk("text", 0, s[j])]  BY <1>1, <1>3, <2>1 DEF Written
  <2>4. Len(w) = Len(s)  BY <2>2, <2>3
  <2>5. \A j \in 1..Len(w) : w[j].kind = "text" /\ w[j].value = s[j]
    BY <2>3, <2>4 DEF Conversion!Chunk
  <2>6. \A j \in 1..Len(w) : TextF[w[j]] = <<s[j]>>  BY <1>2, <2>5 DEF TextF
  <2>7. \A j \in 1..Len(w) : CallF[w[j]] = <<>>  BY <1>2, <2>5 DEF CallF
  <2>8. \A i \in Int : \A j \in 1..Len(w) : ArgsF(i)[w[j]] = <<>>  BY <1>2, <2>5 DEF ArgsF
  <2>9. Mapped(w, TextF) = s  BY <1>2, <2>2, <2>4, <2>6, MappedEach
  <2>10. Mapped(w, CallF) = <<>>  BY <1>2, <2>7, MappedToNothing
  <2>11. ASSUME NEW i \in Int  PROVE Mapped(w, ArgsF(i)) = <<>>
    <3>1. \A j \in 1..Len(w) : ArgsF(i)[w[j]] = <<>>  BY <2>8
    <3> QED  BY <1>2, <3>1, MappedToNothing
  <2> QED  BY <1>1, <1>3, <2>1, <2>9, <2>10, <2>11
<1>4. CASE ~IsText(b)
  <2>1. PICK s : s = b.args  OBVIOUS
  <2>2. s \in Seq(Piece) /\ Len(s) \in Nat  BY <1>4, <2>1, PiecesAre, LenProperties
  <2>3. w = [j \in 1..Len(s) |-> Conversion!Chunk("args", t, s[j])]  BY <1>1, <1>4, <2>1 DEF Written
  <2>4. Len(w) = Len(s)  BY <2>2, <2>3
  <2>5. \A j \in 1..Len(w) : w[j].kind = "args" /\ w[j].value = s[j] /\ w[j].index = t
    BY <2>3, <2>4 DEF Conversion!Chunk
  <2>6. \A j \in 1..Len(w) : TextF[w[j]] = <<>>  BY <1>2, <2>5 DEF TextF
  <2>7. \A j \in 1..Len(w) : CallF[w[j]] = <<>>  BY <1>2, <2>5 DEF CallF
  <2>9. Mapped(w, TextF) = <<>>  BY <1>2, <2>6, MappedToNothing
  <2>10. Mapped(w, CallF) = <<>>  BY <1>2, <2>7, MappedToNothing
  <2>11. ASSUME NEW i \in Int, i = t  PROVE Mapped(w, ArgsF(i)) = s
    <3>1. \A j \in 1..Len(w) : ArgsF(i)[w[j]] = <<s[j]>>  BY <1>2, <2>5, <2>11 DEF ArgsF
    <3> QED  BY <1>2, <2>2, <2>4, <3>1, MappedEach
  <2>12. ASSUME NEW i \in Int, i # t  PROVE Mapped(w, ArgsF(i)) = <<>>
    <3>1. \A j \in 1..Len(w) : ArgsF(i)[w[j]] = <<>>  BY <1>2, <2>5, <2>12 DEF ArgsF
    <3> QED  BY <1>2, <3>1, MappedToNothing
  <2> QED  BY <1>1, <1>4, <2>1, <2>9, <2>10, <2>11, <2>12
<1> QED  BY <1>3, <1>4

LEMMA AnnouncedTests ==
  ASSUME NEW b \in Block, NEW t \in Int
  PROVE  /\ Mapped(Announced(b, t), TextF) = <<>>
         /\ Mapped(Announced(b, t), CallF) = Announced(b, t)
         /\ \A i \in Int : Mapped(Announced(b, t), ArgsF(i)) = <<>>
<1>1. CASE IsText(b)
  <2>1. Announced(b, t) = <<>>  BY <1>1 DEF Announced
  <2> QED  BY <2>1, MappedNone
<1>2. CASE ~IsText(b)
  <2>1. PICK c : c = Conversion!Chunk("call", t, b.id)  OBVIOUS
  <2>2. Announced(b, t) = <<c>>  BY <1>2, <2>1 DEF Announced
  <2>3. c \in Chunks /\ c.kind = "call"
    <3>1. b.id \in Value  BY <1>2 DEF Value
    <3> QED  BY <2>1, <3>1 DEF Conversion!Chunk, Chunks
  <2>4. TextF[c] = <<>> /\ CallF[c] = <<c>> /\ \A i \in Int : ArgsF(i)[c] = <<>>
    BY <2>3 DEF TextF, CallF, ArgsF
  <2>5. Mapped(<<c>>, TextF) = TextF[c]
    <3>1. Maps(TextF, Chunks, Value)  BY ChunkTestsMap
    <3> QED  BY <2>3, <3>1, MappedOne
  <2>6. Mapped(<<c>>, CallF) = CallF[c]
    <3>1. Maps(CallF, Chunks, Chunks)  BY ChunkTestsMap
    <3> QED  BY <2>3, <3>1, MappedOne
  <2>7. ASSUME NEW i \in Int  PROVE Mapped(<<c>>, ArgsF(i)) = <<>>
    <3>1. PICK g : g = ArgsF(i)  OBVIOUS
    <3>2. Maps(g, Chunks, Value)  BY <3>1, ChunkTestsMap
    <3>3. Mapped(<<c>>, g) = g[c]  BY <2>3, <3>2, MappedOne
    <3> QED  BY <2>4, <3>1, <3>3
  <2> QED  BY <2>2, <2>4, <2>5, <2>6, <2>7
<1> QED  BY <1>1, <1>2

\* What blocks say and the calls among them.
Spell == [b \in Block |-> IF IsText(b) THEN b.text ELSE <<>>]
CallOf == [b \in Block |-> IF IsText(b) THEN <<>> ELSE <<b>>]
ToolBlock == {b \in Block : ~IsText(b)}

\* The chunks that open calls, and the arguments of the call at a place.
Placed(calls) == [i \in 1..Len(calls) |-> Conversion!Chunk("call", i - 1, calls[i].id)]
ArgsAt(calls, i) == IF i \in 0..Len(calls) - 1 THEN calls[i + 1].args ELSE <<>>

LEMMA BlockTestsMap == Maps(Spell, Block, Value) /\ Maps(CallOf, Block, ToolBlock)
<1>1. ASSUME NEW b \in Block, IsText(b)  PROVE b.text \in Seq(Value)
  <2>1. b.text \in Seq(Piece)  BY <1>1, PiecesAre
  <2>2. Piece \subseteq Value  BY DEF Value
  <2> QED  BY <2>1, <2>2, SeqMonotonic
<1>2. Maps(Spell, Block, Value)  BY <1>1 DEF Spell, Maps
<1>3. Maps(CallOf, Block, ToolBlock)
  <2>1. ASSUME NEW b \in Block  PROVE CallOf[b] \in Seq(ToolBlock)
    <3>1. CASE IsText(b)  BY <3>1, EmptySeq DEF CallOf
    <3>2. CASE ~IsText(b)
      <4>1. b \in ToolBlock  BY <3>2 DEF ToolBlock
      <4> HIDE DEF ToolBlock
      <4> QED  BY <3>2, <4>1 DEF CallOf
    <3> QED  BY <3>1, <3>2
  <2> QED  BY <2>1 DEF Maps
<1> QED  BY <1>2, <1>3

LEMMA PlacedMoves ==
  ASSUME NEW calls \in Seq(ToolBlock), NEW b \in ToolBlock
  PROVE  /\ Placed(Append(calls, b)) = Placed(calls) \o <<Conversion!Chunk("call", Len(calls), b.id)>>
         /\ \A i \in Int : ArgsAt(Append(calls, b), i) = IF i = Len(calls) THEN b.args ELSE ArgsAt(calls, i)
<1>1. PICK n : n = Len(calls)  OBVIOUS
<1>2. PICK d : d = Append(calls, b)  OBVIOUS
<1>3. n \in Nat /\ Len(d) = n + 1 /\ d[n + 1] = b /\ \A i \in 1..n : d[i] = calls[i]
  BY <1>1, <1>2, LenProperties, AppendProperties
<1>4. PICK p : p = Placed(calls)  OBVIOUS
<1>5. p = [i \in 1..n |-> Conversion!Chunk("call", i - 1, calls[i].id)]  BY <1>1, <1>4 DEF Placed
<1>6. PICK c : c = Conversion!Chunk("call", n, b.id)  OBVIOUS
<1>7. PICK X : X = {p[i] : i \in 1..n} \cup {c}  OBVIOUS
<1>8. p \in Seq(X) /\ Len(p) = n /\ c \in X  BY <1>3, <1>5, <1>7
<1>9. PICK q : q = Placed(d)  OBVIOUS
<1>10. q = [i \in 1..n + 1 |-> Conversion!Chunk("call", i - 1, d[i].id)]  BY <1>3, <1>9 DEF Placed
<1>11. q[n + 1] = c /\ \A i \in 1..n : q[i] = p[i]
  <2>1. n + 1 \in 1..n + 1 /\ (n + 1) - 1 = n /\ \A i \in 1..n : i \in 1..n + 1  BY <1>3
  <2>2. q[n + 1] = Conversion!Chunk("call", (n + 1) - 1, d[n + 1].id)  BY <1>10, <2>1
  <2>3. \A i \in 1..n : q[i] = Conversion!Chunk("call", i - 1, d[i].id)  BY <1>10, <2>1
  <2> QED  BY <1>3, <1>5, <1>6, <2>1, <2>2, <2>3
<1>12. q = Append(p, c)
  <2>1. \A i \in 1..n + 1 : q[i] \in X  BY <1>3, <1>7, <1>11
  <2>2. q \in Seq(X) /\ Len(q) = n + 1  BY <1>3, <1>10, <2>1
  <2>3. Append(p, c) \in Seq(X) /\ Len(Append(p, c)) = n + 1 /\ Append(p, c)[n + 1] = c
        /\ \A i \in 1..n : Append(p, c)[i] = p[i]
    BY <1>8, AppendProperties
  <2>4. \A i \in 1..n + 1 : q[i] = Append(p, c)[i]  BY <1>3, <1>11, <2>3
  <2> QED  BY <2>2, <2>3, <2>4, SeqEqual
<1>13. q = p \o <<c>>  BY <1>8, <1>12, AppendIsConcat
<1>14. ASSUME NEW i \in Int
       PROVE ArgsAt(d, i) = IF i = n THEN b.args ELSE ArgsAt(calls, i)
  <2>1. CASE i = n
    <3>1. i \in 0..Len(d) - 1  BY <1>3, <2>1
    <3> QED  BY <1>3, <2>1, <3>1 DEF ArgsAt
  <2>2. CASE i \in 0..n - 1
    <3>1. i \in 0..Len(d) - 1 /\ i # n /\ i + 1 \in 1..n  BY <1>3, <2>2
    <3> QED  BY <1>1, <1>3, <2>2, <3>1 DEF ArgsAt
  <2>3. CASE i \notin 0..n
    <3>1. i \notin 0..Len(d) - 1 /\ i \notin 0..n - 1 /\ i # n  BY <1>3, <2>3
    <3> QED  BY <1>1, <3>1 DEF ArgsAt
  <2>4. i = n \/ i \in 0..n - 1 \/ i \notin 0..n  BY <1>3
  <2> QED  BY <2>1, <2>2, <2>3, <2>4
<1> QED  BY <1>1, <1>2, <1>4, <1>6, <1>9, <1>13, <1>14

\* What the chunks of some blocks say.
Tells(bs) ==
    LET cs == Out(Opening(bs))
        calls == Mapped(bs, CallOf)
    IN /\ cs \in Seq(Talk)
       /\ Place(Opening(bs)) = Len(calls) - 1
       /\ Mapped(cs, TextF) = Mapped(bs, Spell)
       /\ Mapped(cs, CallF) = Placed(calls)
       /\ \A i \in Int : Mapped(cs, ArgsF(i)) = ArgsAt(calls, i)

LEMMA TellsNone == Tells(<<>>)
<1>1. PICK es : es = Opening(<<>>)  OBVIOUS
<1>2. PICK p : p = [event |-> "message_start"]  OBVIOUS
<1>3. PICK q : q = [event |-> "ping"]  OBVIOUS
<1>4. p \in Event /\ q \in Event /\ ~OpensCall(p) /\ ~OpensCall(q)
  BY <1>2, <1>3 DEF Event, Middle, Quiet, OpensCall
<1>5. es = Append(Append(<<>>, p), q)
  <2>1. Body(<<>>) = <<>>
    <3>1. Len(<<>>) = 0  OBVIOUS
    <3>2. Body(<<>>) = Joined([i \in 1..0 |-> Conversion!BlockEvents(<<>>[i], i - 1)], 0)
      BY <3>1 DEF Body, Joined
    <3> QED  BY <3>2, JoinedNone
  <2>2. <<p, q>> \in Seq(Event)  BY <1>4
  <2>3. <<p, q>> \o <<>> = <<p, q>>  BY <2>2, ConcatEmptySeq
  <2>4. Append(Append(<<>>, p), q) = <<p, q>>
    <3>1. PICK u : u = Append(<<>>, p)  OBVIOUS
    <3>2. u \in Seq(Event) /\ Len(u) = 1 /\ u[1] = p  BY <1>4, <3>1
    <3>3. PICK v : v = Append(u, q)  OBVIOUS
    <3>4. v \in Seq(Event) /\ Len(v) = 2 /\ v[1] = p /\ v[2] = q
      <4>1. u \in Seq(Event) /\ q \in Event  BY <1>4, <3>2
      <4>2. /\ Append(u, q) \in Seq(Event) /\ Len(Append(u, q)) = Len(u) + 1
            /\ Append(u, q)[Len(u) + 1] = q
            /\ \A i \in 1..Len(u) : Append(u, q)[i] = u[i]
        BY <4>1, AppendProperties
      <4> QED  BY <3>2, <3>3, <4>2
    <3>5. Len(<<p, q>>) = 2 /\ <<p, q>>[1] = p /\ <<p, q>>[2] = q  OBVIOUS
    <3>6. \A i \in 1..Len(v) : v[i] = <<p, q>>[i]  BY <3>4, <3>5
    <3>7. v = <<p, q>>  BY <2>2, <3>4, <3>5, <3>6, SeqEqual
    <3> QED  BY <3>1, <3>3, <3>7
  <2>5. es = <<p, q>> \o Body(<<>>)  BY <1>1, <1>2, <1>3 DEF Opening
  <2> QED  BY <2>1, <2>3, <2>4, <2>5
<1>6. PICK c : c = Conversion!Chunk("role", 0, "assistant")  OBVIOUS
<1>7. c \in Talk /\ c \in Chunks /\ c.kind = "role"
  BY <1>6 DEF Conversion!Chunk, Talk, Chunks, Value
<1>8. PICK fs : fs = Append(<<>>, p)  OBVIOUS
<1>9. <<>> \in Seq(Event) /\ fs \in Seq(Event)  BY <1>4, <1>8
<1>10. Out(fs) = <<c>> /\ Place(fs) = -1
  <2>1. ChunksOf(p, -1) = <<c>>  BY <1>2, <1>6 DEF ChunksOf
  <2>2. Out(fs) = <<>> \o ChunksOf(p, -1)  BY <1>4, <1>8, <1>9, OutNone, OutMoves
  <2>3. Place(fs) = -1  BY <1>4, <1>8, <1>9, OutNone, PlaceMoves
  <2> QED  BY <2>1, <2>2, <2>3
<1>11. Out(es) = <<c>> /\ Place(es) = -1
  <2>1. ChunksOf(q, -1) = <<>>  BY <1>3 DEF ChunksOf, OpensCall
  <2>2. Out(es) = <<c>> \o ChunksOf(q, -1)  BY <1>4, <1>5, <1>8, <1>9, <1>10, OutMoves
  <2>3. Place(es) = -1  BY <1>4, <1>5, <1>8, <1>9, <1>10, PlaceMoves
  <2>4. <<c>> \o <<>> = <<c>>
    <3>1. <<c>> \in Seq(Chunks)  BY <1>7
    <3> QED  BY <3>1, ConcatEmptySeq
  <2> QED  BY <2>1, <2>2, <2>3, <2>4
<1>12. TextF[c] = <<>> /\ CallF[c] = <<>> /\ \A i \in Int : ArgsF(i)[c] = <<>>
  BY <1>7 DEF TextF, CallF, ArgsF
<1>13. Mapped(<<c>>, TextF) = <<>>
  <2>1. Maps(TextF, Chunks, Value)  BY ChunkTestsMap
  <2> QED  BY <1>7, <1>12, <2>1, MappedOne
<1>14. Mapped(<<c>>, CallF) = <<>>
  <2>1. Maps(CallF, Chunks, Chunks)  BY ChunkTestsMap
  <2> QED  BY <1>7, <1>12, <2>1, MappedOne
<1>15. ASSUME NEW i \in Int  PROVE Mapped(<<c>>, ArgsF(i)) = <<>>
  <2>1. PICK g : g = ArgsF(i)  OBVIOUS
  <2>2. Maps(g, Chunks, Value)  BY <2>1, ChunkTestsMap
  <2>3. Mapped(<<c>>, g) = g[c]  BY <1>7, <2>2, MappedOne
  <2> QED  BY <1>12, <2>1, <2>3
<1>16. Placed(<<>>) = <<>> /\ \A i \in Int : ArgsAt(<<>>, i) = <<>>  BY DEF Placed, ArgsAt
<1>17. Mapped(<<>>, CallOf) = <<>> /\ Mapped(<<>>, Spell) = <<>> /\ Len(<<>>) = 0  BY MappedNone
<1>18. <<c>> \in Seq(Talk)  BY <1>7
<1>19. Out(Opening(<<>>)) = <<c>> /\ Place(Opening(<<>>)) = -1  BY <1>1, <1>11
<1>20. Len(<<>>) - 1 = -1  OBVIOUS
<1> QED  BY <1>13, <1>14, <1>15, <1>16, <1>17, <1>18, <1>19, <1>20 DEF Tells

LEMMA TellsMore ==
  ASSUME NEW bs \in Seq(Block), NEW b \in Block, Tells(bs)  PROVE Tells(Append(bs, b))
<1>1. PICK cs : cs = Out(Opening(bs))  OBVIOUS
<1>2. PICK calls : calls = Mapped(bs, CallOf)  OBVIOUS
<1>3. PICK p : p = Place(Opening(bs))  OBVIOUS
<1>4. PICK t : t = IF IsText(b) THEN p ELSE p + 1  OBVIOUS
<1>5. PICK A : A = Announced(b, t)  OBVIOUS
<1>6. PICK W : W = Written(b, t)  OBVIOUS
<1>7. /\ cs \in Seq(Talk) /\ p = Len(calls) - 1
      /\ Mapped(cs, TextF) = Mapped(bs, Spell) /\ Mapped(cs, CallF) = Placed(calls)
      /\ \A i \in Int : Mapped(cs, ArgsF(i)) = ArgsAt(calls, i)
  BY <1>1, <1>2, <1>3 DEF Tells
<1>8. calls \in Seq(ToolBlock) /\ Len(calls) \in Nat
  <2>1. Maps(CallOf, Block, ToolBlock)  BY BlockTestsMap
  <2>2. calls \in Seq(ToolBlock)  BY <1>2, <2>1, MappedIsSeq
  <2> QED  BY <2>2, LenProperties
<1>9. PICK ds : ds = Out(Opening(Append(bs, b)))  OBVIOUS
<1>10. t \in Int /\ Place(Opening(Append(bs, b))) = t /\ ds = (cs \o A) \o W
  <2>0. PlaceWith(bs, b) = t  BY <1>3, <1>4 DEF PlaceWith
  <2>1. /\ t \in Int /\ Place(Opening(Append(bs, b))) = t
        /\ Out(Opening(Append(bs, b))) = (Out(Opening(bs)) \o Announced(b, t)) \o Written(b, t)
    BY <2>0, BlockOut
  <2> QED  BY <1>1, <1>5, <1>6, <1>9, <2>1
<1>11. A \in Seq(Talk) /\ W \in Seq(Talk)  BY <1>5, <1>6, <1>10, WrittenIs
<1>12. ds \in Seq(Talk)
  <2>1. cs \o A \in Seq(Talk)  BY <1>7, <1>11, ConcatProperties
  <2> QED  BY <1>10, <1>11, <2>1, ConcatProperties
<1>13. cs \in Seq(Chunks) /\ A \in Seq(Chunks) /\ W \in Seq(Chunks)  BY <1>7, <1>11, TalkIsChunks
<1>14. Mapped(ds, TextF) = (Mapped(cs, TextF) \o Mapped(A, TextF)) \o Mapped(W, TextF)
  <2>1. Maps(TextF, Chunks, Value)  BY ChunkTestsMap
  <2>2. Distributes(TextF, Chunks)
    BY <2>1, ThreeParts
  <2> QED  BY <1>10, <1>13, <2>2 DEF Distributes
<1>15. Mapped(ds, CallF) = (Mapped(cs, CallF) \o Mapped(A, CallF)) \o Mapped(W, CallF)
  <2>1. Maps(CallF, Chunks, Chunks)  BY ChunkTestsMap
  <2>2. Distributes(CallF, Chunks)
    BY <2>1, ThreeParts
  <2> QED  BY <1>10, <1>13, <2>2 DEF Distributes
<1>16. ASSUME NEW i \in Int
       PROVE Mapped(ds, ArgsF(i)) = (Mapped(cs, ArgsF(i)) \o Mapped(A, ArgsF(i))) \o Mapped(W, ArgsF(i))
  <2>1. PICK g : g = ArgsF(i)  OBVIOUS
  <2>2. Maps(g, Chunks, Value)  BY <2>1, ChunkTestsMap
  <2>4. Distributes(g, Chunks)
    BY <2>2, ThreeParts
  <2>3. Mapped(ds, g) = (Mapped(cs, g) \o Mapped(A, g)) \o Mapped(W, g)  BY <1>10, <1>13, <2>4 DEF Distributes
  <2> QED  BY <2>1, <2>3
<1>17. /\ Mapped(A, TextF) = <<>> /\ Mapped(A, CallF) = A
       /\ \A i \in Int : Mapped(A, ArgsF(i)) = <<>>
  BY <1>5, <1>10, AnnouncedTests
<1>18. /\ Mapped(W, TextF) = IF IsText(b) THEN b.text ELSE <<>>
       /\ Mapped(W, CallF) = <<>>
       /\ \A i \in Int : Mapped(W, ArgsF(i)) = IF ~IsText(b) /\ i = t THEN b.args ELSE <<>>
  BY <1>6, <1>10, WrittenTests
<1>19. PICK u : u = Mapped(bs, Spell)  OBVIOUS
<1>20. u \in Seq(Value) /\ Mapped(Append(bs, b), Spell) = u \o Spell[b]
  <2>1. Maps(Spell, Block, Value)  BY BlockTestsMap
  <2>2. \A s \in Seq(Block) : \A x \in Block : Mapped(Append(s, x), Spell) = Mapped(s, Spell) \o Spell[x]
    BY <2>1, MappedAppend
  <2>3. u \in Seq(Value)  BY <1>19, <2>1, MappedIsSeq
  <2> QED  BY <1>19, <2>2, <2>3
<1>21. Mapped(Append(bs, b), CallOf) = calls \o CallOf[b]
  <2>1. Maps(CallOf, Block, ToolBlock)  BY BlockTestsMap
  <2>2. \A s \in Seq(Block) : \A x \in Block : Mapped(Append(s, x), CallOf) = Mapped(s, CallOf) \o CallOf[x]
    BY <2>1, MappedAppend
  <2> QED  BY <1>2, <2>2
<1>22. Mapped(ds, TextF) = Mapped(Append(bs, b), Spell)
  <2>1. Mapped(W, TextF) = Spell[b]  BY <1>18 DEF Spell
  <2>2. u \o <<>> = u  BY <1>20, ConcatEmptySeq
  <2> QED  BY <1>7, <1>14, <1>17, <1>19, <1>20, <2>1, <2>2
<1>23. \A i \in Int : ArgsAt(calls, i) \in Seq(Piece)
  <2> SUFFICES ASSUME NEW i \in Int  PROVE ArgsAt(calls, i) \in Seq(Piece)  OBVIOUS
  <2>1. CASE i \in 0..Len(calls) - 1
    <3>1. i + 1 \in 1..Len(calls)  BY <1>8, <2>1
    <3>2. calls[i + 1] \in ToolBlock  BY <1>8, <3>1, ElementOfSeq
    <3>3. calls[i + 1].args \in Seq(Piece)  BY <3>2, PiecesAre DEF ToolBlock
    <3> QED  BY <2>1, <3>3 DEF ArgsAt
  <2>2. CASE i \notin 0..Len(calls) - 1
    <3>1. ArgsAt(calls, i) = <<>>  BY <2>2 DEF ArgsAt
    <3> QED  BY <3>1, EmptySeq
  <2> QED  BY <2>1, <2>2
<1>24. CASE IsText(b)
  <2>1. A = <<>> /\ CallOf[b] = <<>> /\ t = p  BY <1>4, <1>5, <1>24 DEF Announced, CallOf
  <2>2. Mapped(Append(bs, b), CallOf) = calls  BY <1>8, <1>21, <2>1, ConcatEmptySeq
  <2>3. Mapped(ds, CallF) = Placed(calls)
    <3>1. Mapped(cs, CallF) \in Seq(Chunks)
      <4>1. Maps(CallF, Chunks, Chunks)  BY ChunkTestsMap
      <4> QED  BY <1>13, <4>1, MappedIsSeq
    <3>2. PICK v : v = Mapped(cs, CallF)  OBVIOUS
    <3>3. v \o <<>> = v  BY <3>1, <3>2, ConcatEmptySeq
    <3> QED  BY <1>7, <1>15, <1>17, <1>18, <2>1, <3>2, <3>3
  <2>4. ASSUME NEW i \in Int  PROVE Mapped(ds, ArgsF(i)) = ArgsAt(calls, i)
    <3>1. PICK v : v = ArgsAt(calls, i)  OBVIOUS
    <3>2. v \o <<>> = v  BY <1>23, <3>1, ConcatEmptySeq
    <3> QED  BY <1>7, <1>16, <1>17, <1>18, <1>24, <3>1, <3>2
  <2> QED  BY <1>7, <1>9, <1>10, <1>12, <1>22, <2>1, <2>2, <2>3, <2>4 DEF Tells
<1>25. CASE ~IsText(b)
  <2>1. A = <<Conversion!Chunk("call", t, b.id)>> /\ CallOf[b] = <<b>> /\ t = p + 1 /\ b \in ToolBlock
    BY <1>4, <1>5, <1>25 DEF Announced, CallOf, ToolBlock
  <2>2. t = Len(calls)  BY <1>7, <1>8, <2>1
  <2>3. PICK d : d = Append(calls, b)  OBVIOUS
  <2>4. Mapped(Append(bs, b), CallOf) = d  BY <1>8, <1>21, <2>1, <2>3, AppendIsConcat
  <2>5. Len(d) = Len(calls) + 1  BY <1>8, <2>1, <2>3, AppendProperties
  <2>6. /\ Placed(d) = Placed(calls) \o A
        /\ \A i \in Int : ArgsAt(d, i) = IF i = t THEN b.args ELSE ArgsAt(calls, i)
    BY <1>8, <2>1, <2>2, <2>3, PlacedMoves
  <2>7. Mapped(ds, CallF) = Placed(d)
    <3>1. Mapped(cs, CallF) \in Seq(Chunks)
      <4>1. Maps(CallF, Chunks, Chunks)  BY ChunkTestsMap
      <4> QED  BY <1>13, <4>1, MappedIsSeq
    <3>2. PICK v : v = Mapped(cs, CallF)  OBVIOUS
    <3>3. v \o A \in Seq(Chunks)  BY <1>13, <3>1, <3>2, ConcatProperties
    <3>4. (v \o A) \o <<>> = v \o A  BY <3>3, ConcatEmptySeq
    <3> QED  BY <1>7, <1>15, <1>17, <1>18, <2>6, <3>2, <3>4
  <2>8. ASSUME NEW i \in Int  PROVE Mapped(ds, ArgsF(i)) = ArgsAt(d, i)
    <3>1. PICK v : v = ArgsAt(calls, i)  OBVIOUS
    <3>2. v \o <<>> = v  BY <1>23, <3>1, ConcatEmptySeq
    <3>3. Mapped(ds, ArgsF(i)) = v \o Mapped(W, ArgsF(i))  BY <1>7, <1>16, <1>17, <3>1, <3>2
    <3>4. CASE i = t
      <4>1. i \notin 0..Len(calls) - 1  BY <1>8, <2>2, <3>4
      <4>2. v = <<>>  BY <3>1, <4>1 DEF ArgsAt
      <4>3. b.args \in Seq(Piece)  BY <1>25, PiecesAre
      <4>4. PICK w : w = b.args  OBVIOUS
      <4>5. <<>> \o w = w  BY <4>3, <4>4, ConcatEmptySeq
      <4> QED  BY <1>18, <1>25, <2>6, <3>3, <3>4, <4>2, <4>4, <4>5
    <3>5. CASE i # t
      BY <1>18, <2>6, <3>1, <3>2, <3>3, <3>5
    <3> QED  BY <3>4, <3>5
  <2> QED  BY <1>8, <1>9, <1>10, <1>12, <1>22, <2>2, <2>4, <2>5, <2>7, <2>8 DEF Tells
<1> QED  BY <1>24, <1>25

LEMMA BlocksTell == ASSUME NEW bs \in Seq(Block)  PROVE Tells(bs)
<1> DEFINE B == {s \in Seq(Block) : Tells(s)}
<1>1. <<>> \in B  BY TellsNone, EmptySeq
<1>2. ASSUME NEW s \in Seq(Block), NEW b \in Block, s \in B  PROVE Append(s, b) \in B
  <2>1. Append(s, b) \in Seq(Block)  BY AppendProperties
  <2>2. Tells(Append(s, b))  BY <1>2, TellsMore
  <2> QED  BY <2>1, <2>2
<1> HIDE DEF B
<1>3. bs \in B  BY <1>1, <1>2, SetOfSequences
<1> QED  BY <1>3 DEF B

\* More events, more chunks behind the ones there are.
LEMMA OutGrows ==
  ASSUME NEW es \in Seq(Event), NEW fs \in Seq(Event)
  PROVE  \E ys \in Seq(Chunks) : Out(es \o fs) = Out(es) \o ys
<1> DEFINE G(u) == es \o u \in Seq(Event) /\ \E ys \in Seq(Chunks) : Out(es \o u) = Out(es) \o ys
           B == {u \in Seq(Event) : G(u)}
<1>1. <<>> \in B
  <2>1. es \o <<>> = es  BY ConcatEmptySeq
  <2>2. Out(es) \in Seq(Chunks)  BY OutIsSeq
  <2>3. Out(es) \o <<>> = Out(es)  BY <2>2, ConcatEmptySeq
  <2> QED  BY <2>1, <2>3, EmptySeq
<1>2. ASSUME NEW u \in Seq(Event), NEW e \in Event, G(u)  PROVE G(Append(u, e))
  <2>1. PICK v : v = es \o u  OBVIOUS
  <2>2. v \in Seq(Event)  BY <1>2, <2>1
  <2>3. es \o Append(u, e) = Append(v, e)
    <3>1. <<e>> \in Seq(Event)  OBVIOUS
    <3>2. Append(u, e) = u \o <<e>> /\ Append(v, e) = v \o <<e>>  BY <2>2, AppendIsConcat
    <3>3. (es \o u) \o <<e>> = es \o (u \o <<e>>)  BY <3>1, Associates
    <3> QED  BY <2>1, <3>2, <3>3
  <2>4. PICK c : c = ChunksOf(e, Place(v))  OBVIOUS
  <2>5. c \in Seq(Chunks)  BY <2>2, <2>4, PlaceIs, ChunksAre
  <2>6. Out(Append(v, e)) = Out(v) \o c  BY <2>2, <2>4, OutMoves
  <2>7. PICK ys \in Seq(Chunks) : Out(v) = Out(es) \o ys  BY <1>2, <2>1
  <2>8. PICK o : o = Out(es)  OBVIOUS
  <2>9. o \in Seq(Chunks)  BY <2>8, OutIsSeq
  <2>10. (o \o ys) \o c = o \o (ys \o c)
    <3>1. PICK z : z = ys  OBVIOUS
    <3>2. o \in Seq(Chunks) /\ z \in Seq(Chunks) /\ c \in Seq(Chunks)  BY <2>5, <2>9, <3>1
    <3>3. Chained(Chunks)  BY ChainedIs
    <3>4. (o \o z) \o c = o \o (z \o c)  BY <3>2, <3>3 DEF Chained
    <3> QED  BY <3>1, <3>4
  <2>11. ys \o c \in Seq(Chunks)  BY <2>5, ConcatProperties
  <2>12. Append(v, e) \in Seq(Event)  BY <2>2, AppendProperties
  <2> QED  BY <2>3, <2>6, <2>7, <2>8, <2>10, <2>11, <2>12
<1>3. ASSUME NEW u \in Seq(Event), NEW e \in Event, u \in B  PROVE Append(u, e) \in B
  <2> HIDE DEF G
  <2>1. G(u) /\ Append(u, e) \in Seq(Event)  BY <1>3, AppendProperties
  <2> QED  BY <1>2, <2>1
<1> HIDE DEF B
<1>4. fs \in B  BY <1>1, <1>3, SetOfSequences
<1> QED  BY <1>4 DEF B

\* An answer of any length, and what closes it: the reason it stopped, if it is
\* given, and the end.
Stops == {"end_turn", "max_tokens", "tool_use", ""}
WholeAnswer == [blocks : Seq(Block), stop : Stops]
StopEvent(a) == [event |-> "message_delta", stop |-> a.stop]
Final(a) == IF a.stop = "" THEN Over ELSE StopEvent(a)

\* An answer's events: those of its blocks, and the one that ends the stream.
LEMMA EventsAre ==
  ASSUME NEW a \in WholeAnswer, NEW ev, ev = Conversion!Events(a), NEW n, n = Len(Opening(a.blocks))
  PROVE  /\ n \in Nat /\ ev \in Seq(Event) /\ Len(ev) \in Nat /\ n + 1 <= Len(ev)
         /\ Conversion!Sufficient(a) = n + 1
         /\ ev[n + 1] = Final(a) /\ \A i \in 1..n : ev[i] \in Middle
         /\ \A k \in 0..n : First(ev, k) = First(Opening(a.blocks), k)
<1>1. a.blocks \in Seq(Block) /\ a.stop \in Stops  BY DEF WholeAnswer
<1>2. PICK o : o = Opening(a.blocks)  OBVIOUS
<1>3. o \in Seq(Middle) /\ o \in Seq(Event) /\ n = Len(o) /\ n \in Nat
  BY <1>1, <1>2, OpeningIs, LenProperties
<1>4. PICK d : d = StopEvent(a)  OBVIOUS
<1>5. PICK s : s = Over  OBVIOUS
<1>6. d \in Event /\ s \in Event  BY <1>1, <1>4, <1>5 DEF Event, StopEvent, Over, Stops
<1>7. PICK t : t = Conversion!Closing(a)  OBVIOUS
<1>8. t = IF a.stop = "" THEN <<s>> ELSE <<d, s>>
  BY <1>4, <1>5, <1>7 DEF Conversion!Closing, StopEvent, Over
<1>9. t \in Seq(Event) /\ Len(t) \in 1..2 /\ t[1] = Final(a)
  <2>1. CASE a.stop = ""
    <3>1. t = <<s>> /\ Final(a) = s  BY <1>5, <1>8, <2>1 DEF Final
    <3> QED  BY <1>6, <3>1
  <2>2. CASE a.stop # ""
    <3>1. t = <<d, s>> /\ Final(a) = d  BY <1>4, <1>8, <2>2 DEF Final
    <3> QED  BY <1>6, <3>1
  <2> QED  BY <2>1, <2>2
<1>10. ev = o \o t
  BY <1>2, <1>7 DEF Conversion!Events, Opening, Body
<1>11. /\ o \o t \in Seq(Event) /\ Len(o \o t) = Len(o) + Len(t)
       /\ \A i \in 1..Len(o) + Len(t) : (o \o t)[i] = IF i <= Len(o) THEN o[i] ELSE t[i - Len(o)]
  <2>1. o \in Seq(Event) /\ t \in Seq(Event)  BY <1>3, <1>9
  <2> QED  BY <2>1, ConcatProperties
<1>12. /\ n + 1 \in 1..n + Len(t) /\ ~(n + 1 <= n) /\ (n + 1) - n = 1
       /\ \A i \in 1..n : i \in 1..n + Len(t) /\ i <= n
  BY <1>3, <1>9
<1>13. ev[n + 1] = t[1] /\ \A i \in 1..n : ev[i] = o[i]  BY <1>3, <1>10, <1>11, <1>12
<1>14. \A i \in 1..n : o[i] \in Middle  BY <1>3, ElementOfSeq
<1>15. ASSUME NEW k \in 0..n  PROVE First(ev, k) = First(o, k)
  <2>1. k \in 0..Len(o)  BY <1>3
  <2>2. First(o \o t, k) = First(o, k)  BY <1>3, <1>9, <2>1, FirstOfConcat
  <2> QED  BY <1>10, <2>2
<1>16. Len(ev) = n + Len(t) /\ Len(t) \in 1..2  BY <1>3, <1>9, <1>10, <1>11
<1>17. Conversion!Sufficient(a) = Len(ev) + 1 - Len(t)  BY <1>7 DEF Conversion!Sufficient
<1>18. Len(ev) \in Nat /\ n + 1 <= Len(ev) /\ Len(ev) + 1 - Len(t) = n + 1
  <2>1. PICK k : k = Len(t)  OBVIOUS
  <2>2. n \in Nat /\ k \in 1..2 /\ Len(ev) = n + k  BY <1>3, <1>16, <2>1
  <2>3. n + k \in Nat /\ n + 1 <= n + k /\ (n + k) + 1 - k = n + 1  BY <2>2
  <2> QED  BY <2>1, <2>2, <2>3
<1>19. ev \in Seq(Event)  BY <1>10, <1>11
<1> HIDE <1>10, <1>11
<1> QED  BY <1>2, <1>3, <1>9, <1>13, <1>14, <1>15, <1>17, <1>18, <1>19

\* What reading an event does.
LEMMA Handled ==
  ASSUME NEW e \in Event, out = <<>>, toolIndex \in Int, Conversion!HandleEvent(e)
  PROVE  /\ out' = ChunksOf(e, toolIndex) /\ err' = err
         /\ toolIndex' = IF OpensCall(e) THEN toolIndex + 1 ELSE toolIndex
         /\ stopped' = IF e.event \in {"message_delta", "message_stop"} THEN TRUE ELSE stopped
<1>0. e.event \in {"message_start", "content_block_start", "content_block_delta", "message_delta",
                   "ping", "content_block_stop", "message_stop"}
  BY KindIs
<1>1. e.event # "error"  BY <1>0
<1>2. CASE e.event = "message_start"
  BY <1>1, <1>2, Zenon DEF Conversion!HandleEvent, ChunksOf, OpensCall
<1>3. CASE e.event = "content_block_start"
  <2>1. /\ toolIndex' = Conversion!Opened(e.block, e.index)
        /\ out' = IF e.block.type = "tool_use" THEN <<Conversion!Chunk("call", toolIndex', e.block.id)>>
                 ELSE <<>>
        /\ UNCHANGED <<stopped, err>>
    BY <1>1, <1>3, Zenon DEF Conversion!HandleEvent
  <2>2. e.event # "message_start" /\ e.event # "content_block_delta" /\ e.event \notin {"message_delta", "message_stop"}  BY <1>3
  <2> QED  BY <1>3, <2>1, <2>2 DEF Conversion!Opened, ChunksOf, OpensCall
<1>4. CASE e.event = "content_block_delta"
  <2>1. /\ out' = <<IF e.type = "text_delta" THEN Conversion!Chunk("text", 0, e.piece)
                    ELSE Conversion!Chunk("args", toolIndex, e.piece)>>
        /\ UNCHANGED <<stopped, err, toolIndex>>
    BY <1>1, <1>4, Zenon DEF Conversion!HandleEvent
  <2>2. e.event # "message_start" /\ ~OpensCall(e) /\ e.event \notin {"message_delta", "message_stop"}  BY <1>4 DEF OpensCall
  <2> QED  BY <1>4, <2>1, <2>2 DEF ChunksOf
<1>5. CASE e.event = "message_delta"
  <2>1. /\ out' = <<Conversion!Chunk("finish", 0, Conversion!Finish(e.stop)), Conversion!Done>>
        /\ stopped' = TRUE /\ UNCHANGED <<err, toolIndex>>
    BY <1>1, <1>5, Zenon DEF Conversion!HandleEvent
  <2>2. e.event # "message_start" /\ ~OpensCall(e) /\ e.event # "content_block_delta"  BY <1>5 DEF OpensCall
  <2> QED  BY <1>5, <2>1, <2>2 DEF ChunksOf
<1>6. CASE e.event \in {"ping", "content_block_stop"}
  <2>1. UNCHANGED <<out, stopped, err, toolIndex>>
    BY <1>1, <1>6 DEF Conversion!HandleEvent
  <2>2. /\ e.event # "message_start" /\ ~OpensCall(e) /\ e.event # "content_block_delta"
        /\ e.event \notin {"message_delta", "message_stop"}
    BY <1>6 DEF OpensCall
  <2> QED  BY <2>1, <2>2 DEF ChunksOf
<1>7. CASE e.event = "message_stop"
  <2>1. out' = <<Conversion!Done>> /\ stopped' = TRUE /\ UNCHANGED <<err, toolIndex>>
    BY <1>1, <1>7, Zenon DEF Conversion!HandleEvent
  <2>2. /\ e.event # "message_start" /\ ~OpensCall(e) /\ e.event # "content_block_delta"
        /\ e.event # "message_delta"
    BY <1>7 DEF OpensCall
  <2> QED  BY <1>7, <2>1, <2>2 DEF ChunksOf
<1> QED  BY <1>0, <1>2, <1>3, <1>4, <1>5, <1>6, <1>7

\* The tests by which the property looks at what was received.
KindF(kind) == [c \in Chunks |-> IF c.kind = kind THEN <<c>> ELSE <<>>]
IndexF(i) == [c \in Chunks |-> IF c.index = i THEN <<c>> ELSE <<>>]
DoneF == [c \in Chunks |-> IF c = Conversion!Done THEN <<c>> ELSE <<>>]
ValueF == [c \in Chunks |-> <<c.value>>]

LEMMA MoreTestsMap ==
  /\ \A kind : Maps(KindF(kind), Chunks, Chunks)
  /\ \A i : Maps(IndexF(i), Chunks, Chunks)
  /\ Maps(DoneF, Chunks, Chunks) /\ Maps(ValueF, Chunks, Value)
<1>1. \A kind : Maps(KindF(kind), Chunks, Chunks)  BY DEF KindF, Maps
<1>2. \A i : Maps(IndexF(i), Chunks, Chunks)  BY DEF IndexF, Maps
<1>3. Maps(DoneF, Chunks, Chunks)  BY DEF DoneF, Maps
<1>4. \A c \in Chunks : c.value \in Value  BY DEF Chunks
<1>5. Maps(ValueF, Chunks, Value)  BY <1>4 DEF ValueF, Maps
<1> QED  BY <1>1, <1>2, <1>3, <1>5

LEMMA ValuesAre == ASSUME NEW cs \in Seq(Chunks)  PROVE Conversion!Values(cs) = Mapped(cs, ValueF)
<1>1. PICK t : t = Conversion!Values(cs)  OBVIOUS
<1>2. Len(cs) \in Nat /\ \A i \in 1..Len(cs) : cs[i] \in Chunks  BY LenProperties, ElementOfSeq
<1>3. t = [i \in 1..Len(cs) |-> cs[i].value]  BY <1>1 DEF Conversion!Values
<1>4. \A i \in 1..Len(cs) : cs[i].value \in Value  BY <1>2 DEF Chunks
<1>5. t \in Seq(Value) /\ Len(t) = Len(cs)  BY <1>2, <1>3, <1>4
<1>6. \A i \in 1..Len(cs) : ValueF[cs[i]] = <<t[i]>>  BY <1>2, <1>3 DEF ValueF
<1>7. Mapped(cs, ValueF) = t  BY <1>5, <1>6, MappedEach
<1> QED  BY <1>1, <1>7

LEMMA OfIs ==
  ASSUME received \in Seq(Chunks), NEW kind
  PROVE  Conversion!Of(kind) = Mapped(received, KindF(kind)) /\ Conversion!Of(kind) \in Seq(Chunks)
<1>1. \A i \in 1..Len(received) : received[i] \in Chunks  BY ElementOfSeq
<1>2. [i \in 1..Len(received) |-> IF received[i].kind = kind THEN <<received[i]>> ELSE <<>>]
      = [i \in 1..Len(received) |-> KindF(kind)[received[i]]]  BY <1>1 DEF KindF
<1>3. Conversion!Of(kind) = Mapped(received, KindF(kind))
  BY <1>2, MappedIs DEF Conversion!Of, Conversion!Filter
<1>4. Maps(KindF(kind), Chunks, Chunks)  BY MoreTestsMap
<1>5. Mapped(received, KindF(kind)) \in Seq(Chunks)  BY <1>4, MappedIsSeq
<1> QED  BY <1>3, <1>5

\* The reader's views of the chunks.
LEMMA ViewsAre ==
  ASSUME received \in Seq(Chunks)
  PROVE  /\ Conversion!Values(Conversion!Of("text")) = Mapped(received, TextF)
         /\ Conversion!Of("call") = Mapped(received, CallF)
         /\ \A i \in Int : Conversion!Values(Conversion!Filter(Conversion!Of("args"), LAMBDA c : c.index = i))
                             = Mapped(received, ArgsF(i))
         /\ Conversion!Filter(received, LAMBDA c : c = Conversion!Done) = Mapped(received, DoneF)
<1>1. Conversion!Values(Conversion!Of("text")) = Mapped(received, TextF)
  <2>1. PICK g : g = KindF("text")  OBVIOUS
  <2>2. Maps(g, Chunks, Chunks) /\ Maps(ValueF, Chunks, Value)  BY <2>1, MoreTestsMap
  <2>3. Conversion!Of("text") = Mapped(received, g) /\ Mapped(received, g) \in Seq(Chunks)  BY <2>1, OfIs
  <2>4. Conversion!Values(Conversion!Of("text")) = Mapped(Mapped(received, g), ValueF)  BY <2>3, ValuesAre
  <2>5. ASSUME NEW c \in Chunks  PROVE TextF[c] = Mapped(g[c], ValueF)
    <3>1. CASE c.kind = "text"
      <4>1. g[c] = <<c>> /\ TextF[c] = <<c.value>> /\ ValueF[c] = <<c.value>>
        BY <2>1, <3>1 DEF KindF, TextF, ValueF
      <4>2. Mapped(<<c>>, ValueF) = ValueF[c]  BY <2>2, MappedOne
      <4> QED  BY <4>1, <4>2
    <3>2. CASE c.kind # "text"
      <4>1. g[c] = <<>> /\ TextF[c] = <<>>  BY <2>1, <3>2 DEF KindF, TextF
      <4> QED  BY <4>1, MappedNone
    <3> QED  BY <3>1, <3>2
  <2>6. Mapped(Mapped(received, g), ValueF) = Mapped(received, TextF)  BY <2>2, <2>5, MappedTwice
  <2> QED  BY <2>4, <2>6
<1>2. Conversion!Of("call") = Mapped(received, CallF)
  <2>1. KindF("call") = CallF  BY DEF KindF, CallF
  <2> QED  BY <2>1, OfIs
<1>3. ASSUME NEW i \in Int
      PROVE  Conversion!Values(Conversion!Filter(Conversion!Of("args"), LAMBDA c : c.index = i))
               = Mapped(received, ArgsF(i))
  <2>1. PICK g : g = KindF("args")  OBVIOUS
  <2>2. PICK h : h = IndexF(i)  OBVIOUS
  <2>3. Maps(g, Chunks, Chunks) /\ Maps(h, Chunks, Chunks) /\ Maps(ValueF, Chunks, Value)
    BY <2>1, <2>2, MoreTestsMap
  <2>4. PICK s : s = Conversion!Of("args")  OBVIOUS
  <2>5. s = Mapped(received, g) /\ s \in Seq(Chunks)  BY <2>1, <2>4, OfIs
  <2>6. PICK t : t = Conversion!Filter(s, LAMBDA c : c.index = i)  OBVIOUS
  <2>7. t = Mapped(s, h)
    <3>1. \A j \in 1..Len(s) : s[j] \in Chunks  BY <2>5, ElementOfSeq
    <3>2. [j \in 1..Len(s) |-> IF s[j].index = i THEN <<s[j]>> ELSE <<>>] = [j \in 1..Len(s) |-> h[s[j]]]
      BY <2>2, <3>1 DEF IndexF
    <3> QED  BY <2>5, <2>6, <3>2, MappedIs DEF Conversion!Filter
  <2>8. t \in Seq(Chunks)  BY <2>3, <2>5, <2>7, MappedIsSeq
  <2>9. PICK k : k = [c \in Chunks |-> Mapped(g[c], h)]  OBVIOUS
  <2>10. ASSUME NEW c \in Chunks
         PROVE  k[c] = (IF c.kind = "args" /\ c.index = i THEN <<c>> ELSE <<>>)
    <3>1. CASE c.kind = "args"
      <4>1. g[c] = <<c>>  BY <2>1, <3>1 DEF KindF
      <4>2. Mapped(<<c>>, h) = h[c]  BY <2>3, MappedOne
      <4> QED  BY <2>2, <2>9, <3>1, <4>1, <4>2 DEF IndexF
    <3>2. CASE c.kind # "args"
      <4>1. g[c] = <<>>  BY <2>1, <3>2 DEF KindF
      <4> QED  BY <2>9, <3>2, <4>1, MappedNone
    <3> QED  BY <3>1, <3>2
  <2>11. Maps(k, Chunks, Chunks)
    <3>1. ASSUME NEW c \in Chunks  PROVE k[c] \in Seq(Chunks)
      <4>1. PICK d : d = g[c]  OBVIOUS
      <4>2. d \in Seq(Chunks)  BY <2>3, <4>1 DEF Maps
      <4>3. Mapped(d, h) \in Seq(Chunks)  BY <2>3, <4>2, MappedIsSeq
      <4> QED  BY <2>9, <4>1, <4>3
    <3> QED  BY <3>1 DEF Maps
  <2>12. t = Mapped(received, k)
    <3>1. \A c \in Chunks : k[c] = Mapped(g[c], h)  BY <2>9
    <3>2. Mapped(Mapped(received, g), h) = Mapped(received, k)  BY <2>3, <3>1, MappedTwice
    <3> QED  BY <2>5, <2>7, <3>2
  <2>13. ASSUME NEW c \in Chunks  PROVE ArgsF(i)[c] = Mapped(k[c], ValueF)
    <3>1. CASE c.kind = "args" /\ c.index = i
      <4>1. k[c] = <<c>> /\ ArgsF(i)[c] = <<c.value>> /\ ValueF[c] = <<c.value>>
        BY <2>10, <3>1 DEF ArgsF, ValueF
      <4>2. Mapped(<<c>>, ValueF) = ValueF[c]  BY <2>3, MappedOne
      <4> QED  BY <4>1, <4>2
    <3>2. CASE ~(c.kind = "args" /\ c.index = i)
      <4>1. k[c] = <<>> /\ ArgsF(i)[c] = <<>>  BY <2>10, <3>2 DEF ArgsF
      <4> QED  BY <4>1, MappedNone
    <3> QED  BY <3>1, <3>2
  <2>14. Mapped(Mapped(received, k), ValueF) = Mapped(received, ArgsF(i))
    BY <2>3, <2>11, <2>13, MappedTwice
  <2>15. Conversion!Values(t) = Mapped(t, ValueF)  BY <2>8, ValuesAre
  <2> QED  BY <2>4, <2>6, <2>12, <2>14, <2>15
<1>4. Conversion!Filter(received, LAMBDA c : c = Conversion!Done) = Mapped(received, DoneF)
  <2>1. \A i \in 1..Len(received) : received[i] \in Chunks  BY ElementOfSeq
  <2>2. [i \in 1..Len(received) |-> IF received[i] = Conversion!Done THEN <<received[i]>> ELSE <<>>]
        = [i \in 1..Len(received) |-> DoneF[received[i]]]  BY <2>1 DEF DoneF
  <2> QED  BY <2>2, MappedIs DEF Conversion!Filter
<1> QED  BY <1>1, <1>2, <1>3, <1>4

\* The text and the calls of some blocks, as the whole answer has them.
LEMMA WholeIs ==
  ASSUME NEW bs \in Seq(Block)
  PROVE  Conversion!Texts(bs) = Mapped(bs, Spell) /\ Conversion!Tools(bs) = Mapped(bs, CallOf)
<1>1. \A i \in 1..Len(bs) : bs[i] \in Block  BY ElementOfSeq
<1>2. [i \in 1..Len(bs) |-> IF bs[i].type = "text" THEN bs[i].text ELSE <<>>]
      = [i \in 1..Len(bs) |-> Spell[bs[i]]]
  BY <1>1 DEF Spell, IsText
<1>3. [i \in 1..Len(bs) |-> IF bs[i].type = "tool_use" THEN <<bs[i]>> ELSE <<>>]
      = [i \in 1..Len(bs) |-> CallOf[bs[i]]]
  <2>1. \A b \in Block : b.type = "tool_use" <=> ~IsText(b)  BY PiecesAre DEF IsText
  <2>2. \A i \in 1..Len(bs) : (IF bs[i].type = "tool_use" THEN <<bs[i]>> ELSE <<>>) = CallOf[bs[i]]
    BY <1>1, <2>1 DEF CallOf
  <2> QED  BY <2>2
<1>4. Conversion!Texts(bs) = Mapped(bs, Spell)  BY <1>2, MappedIs DEF Conversion!Texts
<1>5. Conversion!Tools(bs) = Mapped(bs, CallOf)  BY <1>3, MappedIs DEF Conversion!Tools, Conversion!Filter
<1> QED  BY <1>4, <1>5

\* The events of the answer, those of them that are handled, and what stands
\* behind these.
Ev == Conversion!Events(answer)
Torn == cut.how # "error" /\ cut.inside
Partial == IF Torn THEN <<Conversion!HalfRead(Ev[cut.after + 1])>> ELSE <<>>
Eff == First(Ev, cut.after) \o Partial
Ending == IF cut.how = "error" THEN <<[event |-> "error", type |-> "overloaded_error"]>> ELSE <<>>

\* The events it takes to end the stream.
Full == Conversion!Sufficient(answer)

\* k events have been handled; the stream goes on, is complete, broke off
\* cleanly, or failed.
Reached(k) ==
    /\ k \in 0..Full /\ k <= Len(Eff)
    /\ received \o out = Out(First(Eff, k)) /\ toolIndex = Place(First(Eff, k))
Reads(k) == ~stopped /\ err = 0 /\ k < Full /\ source = SubSeq(Eff, k + 1, Len(Eff)) \o Ending
Complete(k) == stopped /\ err = 0 /\ k = Full
BrokeOff(k) == stopped /\ err = 0 /\ Len(Eff) < Full /\ cut.how = "eof"
Failed(k) == ~stopped /\ err # 0 /\ Len(Eff) < Full /\ cut.how # "eof"

\* What was received and what waits to be are the chunks of the events handled
\* so far, and the tool index is the place of the last call among those.
Streamed == answer \in WholeAnswer /\ cut \in Conversion!Cuts(answer)
StreamInv ==
    /\ Streamed
    /\ received \in Seq(Chunks) /\ out \in Seq(Chunks)
    /\ \E k \in Nat : Reached(k) /\ (Reads(k) \/ Complete(k) \/ BrokeOff(k) \/ Failed(k))
    /\ ended # "no" => /\ out = <<>> /\ (stopped \/ err # 0)
                       /\ ended = IF err = 0 THEN "eof" ELSE "error"

LEMMA EvIs ==
  ASSUME answer \in WholeAnswer
  PROVE  /\ Ev \in Seq(Event) /\ Len(Ev) \in Nat /\ Full \in Nat /\ 1 <= Full /\ Full <= Len(Ev)
         /\ Ev[Full] = Final(answer)
         /\ \A i \in 1..Full - 1 : Ev[i] \in Middle
         /\ Full - 1 = Len(Opening(answer.blocks))
         /\ \A k \in 0..Full - 1 : First(Ev, k) = First(Opening(answer.blocks), k)
<1>1. PICK n : n = Len(Opening(answer.blocks))  OBVIOUS
<1>2. PICK ev : ev = Ev  OBVIOUS
<1>3. ev = Conversion!Events(answer)  BY <1>2 DEF Ev
<1>4. /\ n \in Nat /\ ev \in Seq(Event) /\ Len(ev) \in Nat /\ n + 1 <= Len(ev)
      /\ Conversion!Sufficient(answer) = n + 1
      /\ ev[n + 1] = Final(answer) /\ \A i \in 1..n : ev[i] \in Middle
      /\ \A k \in 0..n : First(ev, k) = First(Opening(answer.blocks), k)
  BY <1>1, <1>3, EventsAre
<1>5. Full = n + 1 /\ Full - 1 = n  BY <1>4 DEF Full
<1> QED  BY <1>1, <1>2, <1>4, <1>5

LEMMA CutIs ==
  ASSUME Streamed
  PROVE  /\ cut.after \in 0..Len(Ev) /\ cut.inside \in BOOLEAN /\ cut.how \in {"eof", "broken", "error"}
         /\ cut.inside => cut.how # "error" /\ cut.after < Len(Ev)
         /\ Torn <=> cut.inside
<1>1. cut \in [after : 0..Len(Ev), inside : BOOLEAN, how : {"eof", "broken", "error"}]
  BY DEF Streamed, Conversion!Cuts, Ev
<1>2. cut.inside => cut.how # "error" /\ cut.after < Len(Ev)  BY DEF Streamed, Conversion!Cuts, Ev
<1> QED  BY <1>1, <1>2 DEF Torn

\* What is left of an event of which a part was read.
LEMMA HalfIs ==
  ASSUME NEW e \in Event
  PROVE  \E h \in Event :
           /\ h = Conversion!HalfRead(e)
           /\ e \in Middle => h \in Middle /\ (h = e \/ h = [event |-> "ping"])
           /\ e \in {Over, StopEvent(answer)} => h.event = e.event
<1>1. CASE e.event \in {"content_block_start", "content_block_delta"}
  <2>1. PICK h : h = [event |-> "ping"]  OBVIOUS
  <2>2. h \in Middle /\ h \in Event  BY <2>1 DEF Event, Middle, Quiet
  <2>3. e \notin {Over, StopEvent(answer)}  BY <1>1 DEF Over, StopEvent
  <2>4. h = Conversion!HalfRead(e)  BY <1>1, <2>1, Zenon DEF Conversion!HalfRead
  <2> QED  BY <2>1, <2>2, <2>3, <2>4, Zenon
<1>2. CASE e.event = "message_delta"
  <2>1. PICK h : h = [event |-> "message_delta", stop |-> ""]  OBVIOUS
  <2>2. h.event = "message_delta" /\ h \in Event  BY <2>1 DEF Event
  <2>3. e \notin Middle  BY <1>2, KindIs
  <2>4. h = Conversion!HalfRead(e)
    <3>1. e.event \notin {"content_block_start", "content_block_delta"}  BY <1>2
    <3> QED  BY <1>2, <2>1, <3>1, Zenon DEF Conversion!HalfRead
  <2> QED  BY <1>2, <2>2, <2>3, <2>4, Zenon
<1>3. CASE e.event \notin {"content_block_start", "content_block_delta", "message_delta"}
  <2>1. e = Conversion!HalfRead(e)  BY <1>3 DEF Conversion!HalfRead
  <2> QED  BY <2>1, Zenon
<1> QED  BY <1>1, <1>2, <1>3

LEMMA PartialIs ==
  ASSUME Streamed
  PROVE  /\ Partial \in Seq(Event) /\ First(Ev, cut.after) \in Seq(Event) /\ Len(First(Ev, cut.after)) = cut.after
         /\ Torn => /\ cut.after + 1 \in 1..Len(Ev) /\ Ev[cut.after + 1] \in Event /\ Len(Partial) = 1
                    /\ Partial[1] = Conversion!HalfRead(Ev[cut.after + 1])
                    /\ Partial = <<Conversion!HalfRead(Ev[cut.after + 1])>>
         /\ ~Torn => Partial = <<>>
<1>1. Ev \in Seq(Event) /\ Len(Ev) \in Nat /\ cut.after \in 0..Len(Ev)  BY EvIs, CutIs DEF Streamed
<1>2. First(Ev, cut.after) \in Seq(Event) /\ Len(First(Ev, cut.after)) = cut.after  BY <1>1, FirstIs
<1>3. CASE Torn
  <2>1. cut.after < Len(Ev)  BY <1>3, CutIs
  <2>2. cut.after + 1 \in 1..Len(Ev)  BY <1>1, <2>1
  <2>3. PICK e : e = Ev[cut.after + 1]  OBVIOUS
  <2>4. e \in Event  BY <1>1, <2>2, <2>3, ElementOfSeq
  <2>5. PICK h \in Event : h = Conversion!HalfRead(e)  BY <2>4, HalfIs
  <2>6. h \in Event  OBVIOUS
  <2>7. Partial = <<h>>  BY <1>3, <2>3, <2>5 DEF Partial
  <2>8. <<h>> \in Seq(Event) /\ Len(<<h>>) = 1 /\ <<h>>[1] = h  BY <2>6
  <2> QED  BY <1>2, <1>3, <2>2, <2>3, <2>4, <2>5, <2>7, <2>8
<1>4. CASE ~Torn
  <2>1. Partial = <<>>  BY <1>4 DEF Partial
  <2> QED  BY <1>2, <1>4, <2>1, EmptySeq
<1> QED  BY <1>3, <1>4

\* The events that are handled, as those of the answer.
LEMMA EffIs ==
  ASSUME Streamed
  PROVE  /\ Eff \in Seq(Event) /\ Len(Eff) \in Nat /\ Len(Eff) = Conversion!Handled
         /\ \A k \in 0..cut.after : k <= Len(Eff) /\ First(Eff, k) = First(Ev, k)
         /\ \A i \in 1..cut.after : Eff[i] = Ev[i]
         /\ Torn => Len(Eff) = cut.after + 1 /\ Eff[cut.after + 1] = Conversion!HalfRead(Ev[cut.after + 1])
         /\ ~Torn => Len(Eff) = cut.after
<1>1. PICK f : f = First(Ev, cut.after)  OBVIOUS
<1>2. PICK t : t = Partial  OBVIOUS
<1>3. f \in Seq(Event) /\ t \in Seq(Event) /\ Len(f) = cut.after  BY <1>1, <1>2, PartialIs
<1>4. Ev \in Seq(Event) /\ Len(Ev) \in Nat /\ cut.after \in 0..Len(Ev) /\ cut.after \in Nat
  BY EvIs, CutIs DEF Streamed
<1>5. Eff = f \o t  BY <1>1, <1>2 DEF Eff
<1>6. /\ f \o t \in Seq(Event) /\ Len(f \o t) = Len(f) + Len(t)
      /\ \A i \in 1..Len(f) + Len(t) : (f \o t)[i] = IF i <= Len(f) THEN f[i] ELSE t[i - Len(f)]
  BY <1>3, ConcatProperties
<1>7. Len(t) = IF Torn THEN 1 ELSE 0  BY <1>2, PartialIs
<1>8. Len(Eff) = cut.after + Len(t) /\ Len(Eff) \in Nat  BY <1>3, <1>4, <1>5, <1>6, <1>7
<1>9. Len(Eff) = Conversion!Handled  BY <1>7, <1>8, CutIs DEF Conversion!Handled
<1>10. ASSUME NEW k \in 0..cut.after  PROVE k <= Len(Eff) /\ First(Eff, k) = First(Ev, k)
  <2>1. k \in 0..Len(f)  BY <1>3
  <2>2. First(f \o t, k) = First(f, k)  BY <1>3, <2>1, FirstOfConcat
  <2>3. PICK u \in Seq(Event) : Ev = f \o u
    <3>1. PICK ev : ev = Ev  OBVIOUS
    <3>2. PICK n : n = cut.after  OBVIOUS
    <3>3. ev \in Seq(Event) /\ n \in 0..Len(ev)  BY <1>4, <3>1, <3>2
    <3>4. \E u \in Seq(Event) : ev = First(ev, n) \o u  BY <3>3, FirstAndOthers
    <3> QED  BY <1>1, <3>1, <3>2, <3>4
  <2>4. First(f \o u, k) = First(f, k)  BY <1>3, <2>1, FirstOfConcat
  <2>5. k <= Len(Eff)  BY <1>4, <1>7, <1>8
  <2> QED  BY <1>5, <2>2, <2>3, <2>4, <2>5
<1>11. ASSUME NEW i \in 1..cut.after  PROVE Eff[i] = Ev[i]
  <2>1. i \in 1..Len(f) + Len(t) /\ i <= Len(f)  BY <1>3, <1>4, <1>7
  <2>2. f[i] = Ev[i]  BY <1>1, <1>4, FirstIs
  <2> QED  BY <1>5, <1>6, <2>1, <2>2
<1>12. Torn => Eff[cut.after + 1] = Conversion!HalfRead(Ev[cut.after + 1])
  <2> SUFFICES ASSUME Torn  PROVE Eff[cut.after + 1] = Conversion!HalfRead(Ev[cut.after + 1])  OBVIOUS
  <2>1. cut.after + 1 \in 1..Len(f) + Len(t) /\ ~(cut.after + 1 <= Len(f)) /\ (cut.after + 1) - Len(f) = 1
    BY <1>3, <1>4, <1>7
  <2> QED  BY <1>2, <1>5, <1>6, <2>1, PartialIs
<1> QED  BY <1>4, <1>5, <1>6, <1>7, <1>8, <1>9, <1>10, <1>11, <1>12

\* Up to the one that ends the stream, the events handled are of the middle.
LEMMA KindsAre ==
  ASSUME Streamed, NEW i \in 1..Len(Eff), i <= Full
  PROVE  /\ Eff[i] \in Event
         /\ i < Full => Eff[i] \in Middle
         /\ i = Full => Eff[i].event \in {"message_delta", "message_stop"}
<1>1. /\ Ev \in Seq(Event) /\ Len(Ev) \in Nat /\ Full \in Nat /\ Full <= Len(Ev) /\ Ev[Full] = Final(answer)
      /\ \A j \in 1..Full - 1 : Ev[j] \in Middle
  BY EvIs DEF Streamed
<1>2. Eff \in Seq(Event) /\ Len(Eff) \in Nat /\ cut.after \in 0..Len(Ev)  BY EffIs, CutIs
<1>3. Eff[i] \in Event  BY <1>2, ElementOfSeq
<1>4. PICK e : e = Ev[i]  OBVIOUS
<1>5. /\ i < Full => e \in Middle
      /\ i = Full => e \in {Over, StopEvent(answer)}
  <2>1. i < Full => i \in 1..Full - 1  BY <1>1, <1>2
  <2> QED  BY <1>1, <1>4, <2>1 DEF Final
<1>6. Over.event = "message_stop" /\ StopEvent(answer).event = "message_delta"  BY DEF Over, StopEvent
<1>7. CASE i <= cut.after
  <2>1. i \in 1..cut.after  BY <1>2, <1>7
  <2>2. Eff[i] = e  BY <1>4, <2>1, EffIs
  <2> QED  BY <1>3, <1>5, <1>6, <2>2
<1>8. CASE ~(i <= cut.after)
  <2>1. Torn /\ i = cut.after + 1
    <3>1. CASE Torn
      <4>1. Len(Eff) = cut.after + 1  BY <3>1, EffIs
      <4> QED  BY <1>2, <1>8, <3>1, <4>1
    <3>2. CASE ~Torn
      <4>1. Len(Eff) = cut.after  BY <3>2, EffIs
      <4> QED  BY <1>2, <1>8, <4>1
    <3> QED  BY <3>1, <3>2
  <2>2. Eff[i] = Conversion!HalfRead(e) /\ e \in Event  BY <1>4, <2>1, EffIs, PartialIs
  <2>3. PICK h \in Event : /\ h = Conversion!HalfRead(e) /\ (e \in Middle => h \in Middle)
                           /\ e \in {Over, StopEvent(answer)} => h.event = e.event
    BY <2>2, HalfIs
  <2> QED  BY <1>3, <1>5, <1>6, <2>2, <2>3
<1> QED  BY <1>7, <1>8

LEMMA AnswersAre == Conversion!Init =>
  /\ Streamed /\ source = Eff \o Ending
  /\ out = <<>> /\ stopped = FALSE /\ err = 0 /\ toolIndex = -1 /\ received = <<>> /\ ended = "no"
<1> SUFFICES ASSUME Conversion!Init
             PROVE  /\ Streamed /\ source = Eff \o Ending
                    /\ out = <<>> /\ stopped = FALSE /\ err = 0 /\ toolIndex = -1
                    /\ received = <<>> /\ ended = "no"
  OBVIOUS
<1>1. /\ source = Conversion!Script(answer, cut) /\ out = <<>> /\ stopped = FALSE /\ err = 0
      /\ toolIndex = -1 /\ received = <<>> /\ ended = "no"
  BY Zenon DEF Conversion!Init
<1>2. \/ /\ answer = [blocks |-> <<>>, stop |-> "end_turn"]
         /\ cut = [after |-> 0, inside |-> FALSE, how |-> "eof"]
      \/ /\ answer \in [blocks : Conversion!BoundedSeq(Block, MaxBlocks),
                        stop : {"end_turn", "max_tokens", "tool_use", ""}]
         /\ cut \in Conversion!Cuts(answer)
  BY Zenon DEF Conversion!Init
<1>3. Streamed
  <2>1. CASE /\ answer = [blocks |-> <<>>, stop |-> "end_turn"]
             /\ cut = [after |-> 0, inside |-> FALSE, how |-> "eof"]
    <3>1. answer \in WholeAnswer
      <4>1. <<>> \in Seq(Block)  BY EmptySeq
      <4> QED  BY <2>1, <4>1 DEF WholeAnswer, Stops
    <3>2. Len(Ev) \in Nat  BY <3>1, EvIs
    <3>3. 0 \in 0..Len(Ev)  BY <3>2
    <3>4. cut \in Conversion!Cuts(answer)  BY <2>1, <3>3 DEF Conversion!Cuts, Ev
    <3> QED  BY <3>1, <3>4 DEF Streamed
  <2>2. CASE /\ answer \in [blocks : Conversion!BoundedSeq(Block, MaxBlocks),
                            stop : {"end_turn", "max_tokens", "tool_use", ""}]
             /\ cut \in Conversion!Cuts(answer)
    <3>1. MaxBlocks \in Nat  BY ConversionAssumption
    <3>2. Conversion!BoundedSeq(Block, MaxBlocks) \subseteq Seq(Block)  BY <3>1, BoundedIsSeq
    <3>3. answer \in WholeAnswer  BY <2>2, <3>2 DEF WholeAnswer, Stops
    <3> QED  BY <2>2, <3>3 DEF Streamed
  <2> QED  BY <1>2, <2>1, <2>2
<1>4. source = Eff \o Ending
  <2>1. PICK f : f = First(Ev, cut.after)  OBVIOUS
  <2>2. f \in Seq(Event) /\ Partial \in Seq(Event)  BY <1>3, <2>1, PartialIs
  <2>3. f \o <<>> = f /\ (f \o Partial) \o <<>> = f \o Partial
    <3>1. f \o Partial \in Seq(Event)  BY <2>2, ConcatProperties
    <3> QED  BY <2>2, <3>1, ConcatEmptySeq
  <2>4. source = f \o IF cut.how = "error" THEN <<[event |-> "error", type |-> "overloaded_error"]>>
                      ELSE IF cut.inside THEN <<Conversion!HalfRead(Ev[cut.after + 1])>> ELSE <<>>
    BY <1>1, <2>1 DEF Conversion!Script, Ev, First
  <2>5. CASE cut.how = "error"
    <3>1. Partial = <<>>  BY <2>5 DEF Partial, Torn
    <3> QED  BY <2>1, <2>3, <2>4, <2>5, <3>1 DEF Eff, Ending
  <2>6. CASE cut.how # "error"
    <3>1. source = f \o Partial  BY <2>4, <2>6 DEF Partial, Torn
    <3> QED  BY <2>1, <2>3, <2>6, <3>1 DEF Eff, Ending
  <2> QED  BY <2>5, <2>6
<1> QED  BY <1>1, <1>3, <1>4

LEMMA StreamStarts == Conversion!Init => StreamInv
<1> SUFFICES ASSUME Conversion!Init  PROVE StreamInv  OBVIOUS
<1>1. /\ Streamed /\ source = Eff \o Ending
      /\ out = <<>> /\ stopped = FALSE /\ err = 0 /\ toolIndex = -1 /\ received = <<>> /\ ended = "no"
  BY AnswersAre
<1>2. Full \in Nat /\ 1 <= Full /\ Eff \in Seq(Event) /\ Len(Eff) \in Nat  BY <1>1, EvIs, EffIs DEF Streamed
<1>3. First(Eff, 0) = <<>>
  <2>1. 1 \in Int /\ 0 \in Int /\ 0 < 1  OBVIOUS
  <2> QED  BY <2>1, SubSeqEmpty DEF First
<1>4. <<>> \o <<>> = <<>>  OBVIOUS
<1>5. Reached(0)
  <2>1. 0 \in 0..Full /\ 0 <= Len(Eff)  BY <1>2
  <2>2. Out(First(Eff, 0)) = <<>> /\ Place(First(Eff, 0)) = -1  BY <1>3, OutNone
  <2> QED  BY <1>1, <1>4, <2>1, <2>2 DEF Reached
<1>6. Reads(0)
  <2>1. SubSeq(Eff, 1, Len(Eff)) = Eff  BY <1>2, SubSeqFull
  <2>2. 0 + 1 = 1 /\ 0 < Full  BY <1>2
  <2> QED  BY <1>1, <2>1, <2>2 DEF Reads
<1>7. <<>> \in Seq(Chunks)  BY EmptySeq
<1> QED  BY <1>1, <1>5, <1>6, <1>7 DEF StreamInv

\* What the stream is made of stays.
LEMMA SameStream ==
  ASSUME answer' = answer, cut' = cut
  PROVE  Ev' = Ev /\ Eff' = Eff /\ Ending' = Ending /\ Full' = Full /\ Streamed' = Streamed
<1>1. Ev' = Ev /\ Full' = Full /\ Ending' = Ending  BY DEF Ev, Full, Ending
<1>2. Eff' = Eff  BY <1>1 DEF Eff, Partial, Torn
<1>3. Streamed' = Streamed  BY DEF Streamed
<1> QED  BY <1>1, <1>2, <1>3

LEMMA CopyKeeps == ASSUME StreamInv, Conversion!Copy  PROVE StreamInv'
<1>1. /\ out # <<>> /\ received' = Append(received, Head(out)) /\ out' = Tail(out)
      /\ answer' = answer /\ cut' = cut /\ source' = source /\ stopped' = stopped
      /\ err' = err /\ toolIndex' = toolIndex /\ ended' = ended
  BY DEF Conversion!Copy
<1>2. received \in Seq(Chunks) /\ out \in Seq(Chunks) /\ Streamed  BY DEF StreamInv
<1>3. received' \in Seq(Chunks) /\ out' \in Seq(Chunks) /\ received' \o out' = received \o out
  BY <1>1, <1>2, HandedOn
<1>4. Eff' = Eff /\ Ending' = Ending /\ Full' = Full /\ Streamed'  BY <1>1, <1>2, SameStream
<1>5. PICK k \in Nat : Reached(k) /\ (Reads(k) \/ Complete(k) \/ BrokeOff(k) \/ Failed(k))  BY DEF StreamInv
<1>6. Reached(k)'  BY <1>1, <1>3, <1>4, <1>5 DEF Reached
<1>7. (Reads(k) \/ Complete(k) \/ BrokeOff(k) \/ Failed(k))'
  BY <1>1, <1>4, <1>5 DEF Reads, Complete, BrokeOff, Failed
<1>8. ended = "no"  BY <1>1 DEF StreamInv
<1> QED  BY <1>1, <1>3, <1>4, <1>6, <1>7, <1>8 DEF StreamInv

\* While the stream is read, what is left of it.
LEMMA LeftIs ==
  ASSUME Streamed, NEW k \in Nat, k <= Len(Eff), source = SubSeq(Eff, k + 1, Len(Eff)) \o Ending
  PROVE  /\ k = Len(Eff) => source = Ending
         /\ k < Len(Eff) => /\ source # <<>> /\ Head(source) = Eff[k + 1]
                            /\ Tail(source) = SubSeq(Eff, (k + 1) + 1, Len(Eff)) \o Ending
<1>1. PICK X : X = Event \cup {[event |-> "error", type |-> "overloaded_error"]}  OBVIOUS
<1>2. PICK ev : ev = Eff  OBVIOUS
<1>3. ev \in Seq(X) /\ Len(ev) \in Nat
  <2>1. ev \in Seq(Event)  BY <1>2, EffIs
  <2>2. Event \subseteq X  BY <1>1
  <2> QED  BY <2>1, <2>2, SeqMonotonic, LenProperties
<1>4. PICK t : t = Ending  OBVIOUS
<1>5. t \in Seq(X)
  <2>1. PICK r : r = [event |-> "error", type |-> "overloaded_error"]  OBVIOUS
  <2>2. r \in X /\ (t = <<r>> \/ t = <<>>)  BY <1>1, <1>4, <2>1 DEF Ending
  <2>3. CASE t = <<r>>
    <3>1. <<r>> \in Seq(X)  BY <2>2
    <3> QED  BY <2>3, <3>1
  <2>4. CASE t = <<>>  BY <2>4, EmptySeq
  <2> QED  BY <2>2, <2>3, <2>4
<1>6. PICK n : n = Len(ev)  OBVIOUS
<1>7. n \in 0..Len(ev) /\ k \in 0..n  BY <1>2, <1>3, <1>6
<1>8. /\ k = n => Left(ev, k, n, t) = t
      /\ k < n => /\ Left(ev, k, n, t) # <<>> /\ Head(Left(ev, k, n, t)) = ev[k + 1]
                  /\ Tail(Left(ev, k, n, t)) = Left(ev, k + 1, n, t)
  <2>1. ev \in Seq(X) /\ t \in Seq(X) /\ n \in 0..Len(ev) /\ k \in 0..n  BY <1>3, <1>5, <1>7
  <2> QED  BY <2>1, RestIs
<1> QED  BY <1>2, <1>4, <1>6, <1>8 DEF Left

LEMMA NextEventKeeps == ASSUME StreamInv, Conversion!NextEvent  PROVE StreamInv'
<1>1. /\ ended = "no" /\ out = <<>> /\ ~stopped /\ err = 0 /\ source # <<>>
      /\ Conversion!HandleEvent(Head(source)) /\ source' = Tail(source)
      /\ answer' = answer /\ cut' = cut /\ received' = received /\ ended' = ended
  BY DEF Conversion!NextEvent, Conversion!Live
<1>2. Streamed /\ received \in Seq(Chunks)  BY DEF StreamInv
<1>3. Eff' = Eff /\ Ending' = Ending /\ Full' = Full /\ Streamed'  BY <1>1, <1>2, SameStream
<1>4. PICK k \in Nat : Reached(k) /\ Reads(k)
  BY <1>1 DEF StreamInv, Complete, BrokeOff, Failed
<1>5. /\ k \in 0..Full /\ k <= Len(Eff) /\ k < Full
      /\ received \o out = Out(First(Eff, k)) /\ toolIndex = Place(First(Eff, k))
      /\ source = SubSeq(Eff, k + 1, Len(Eff)) \o Ending
  BY <1>4 DEF Reached, Reads
<1>6. received = Out(First(Eff, k))
  <2>1. received \o <<>> = received  BY <1>2, ConcatEmptySeq
  <2> QED  BY <1>1, <1>5, <2>1
<1>7. Eff \in Seq(Event) /\ Len(Eff) \in Nat /\ Full \in Nat  BY <1>2, EffIs, EvIs DEF Streamed
<1>8. CASE k < Len(Eff)
  <2>1. Head(source) = Eff[k + 1] /\ source' = SubSeq(Eff, (k + 1) + 1, Len(Eff)) \o Ending
    BY <1>1, <1>2, <1>5, <1>8, LeftIs
  <2>2. PICK e : e = Eff[k + 1]  OBVIOUS
  <2>3. k + 1 \in 1..Len(Eff) /\ k \in 0..Len(Eff) /\ k < Len(Eff) /\ k + 1 <= Full  BY <1>5, <1>7, <1>8
  <2>4. /\ e \in Event /\ (k + 1 < Full => e \in Middle)
        /\ k + 1 = Full => e.event \in {"message_delta", "message_stop"}
    BY <1>2, <2>2, <2>3, KindsAre
  <2>5. e \in Middle => e.event \notin {"message_delta", "message_stop"}  BY <2>4, KindIs
  <2>6. PICK f : f = First(Eff, k)  OBVIOUS
  <2>7. f \in Seq(Event)  BY <1>7, <2>3, <2>6, FirstIs
  <2>8. toolIndex \in Int  BY <1>5, <2>6, <2>7, PlaceIs
  <2>9. /\ out' = ChunksOf(e, toolIndex) /\ err' = err
        /\ toolIndex' = IF OpensCall(e) THEN toolIndex + 1 ELSE toolIndex
        /\ stopped' = IF e.event \in {"message_delta", "message_stop"} THEN TRUE ELSE stopped
    <3>1. Conversion!HandleEvent(e)  BY <1>1, <2>1, <2>2
    <3> QED  BY <1>1, <2>4, <2>8, <3>1, Handled
  <2>10. First(Eff, k + 1) = Append(f, e)  BY <1>7, <2>2, <2>3, <2>6, FirstMoves
  <2>11. Out(First(Eff, k + 1)) = received' \o out'
    <3>1. Out(Append(f, e)) = Out(f) \o ChunksOf(e, Place(f))  BY <2>4, <2>7, OutMoves
    <3> QED  BY <1>1, <1>5, <1>6, <2>6, <2>9, <2>10, <3>1
  <2>12. toolIndex' = Place(First(Eff, k + 1))
    <3>1. Place(Append(f, e)) = IF OpensCall(e) THEN Place(f) + 1 ELSE Place(f)  BY <2>4, <2>7, PlaceMoves
    <3> QED  BY <1>5, <2>6, <2>9, <2>10, <3>1
  <2>13. out' \in Seq(Chunks)  BY <2>4, <2>8, <2>9, ChunksAre
  <2>14. k + 1 \in Nat /\ k + 1 \in 0..Full /\ k + 1 <= Len(Eff)  BY <1>5, <1>7, <1>8
  <2>15. Reached(k + 1)'  BY <1>1, <1>3, <2>11, <2>12, <2>14 DEF Reached
  <2>16. Reads(k + 1)' \/ Complete(k + 1)'
    <3>1. CASE k + 1 = Full  BY <1>1, <1>3, <2>4, <2>9, <3>1 DEF Complete
    <3>2. CASE k + 1 # Full
      <4>1. k + 1 < Full  BY <1>5, <1>7, <3>2
      <4> QED  BY <1>1, <1>3, <2>1, <2>4, <2>5, <2>9, <4>1 DEF Reads
    <3> QED  BY <3>1, <3>2
  <2> QED  BY <1>1, <1>2, <1>3, <2>13, <2>14, <2>15, <2>16 DEF StreamInv
<1>9. CASE k = Len(Eff)
  <2>1. source = Ending  BY <1>2, <1>5, <1>9, LeftIs
  <2>2. cut.how = "error" /\ Head(source) = [event |-> "error", type |-> "overloaded_error"]
    BY <1>1, <2>1 DEF Ending
  <2>3. err' = Conversion!ErrorStatus("overloaded_error") /\ UNCHANGED <<out, stopped, toolIndex>>
    <3>1. PICK e : e = Head(source)  OBVIOUS
    <3>2. e.event = "error" /\ e.type = "overloaded_error" /\ Conversion!HandleEvent(e)  BY <1>1, <2>2, <3>1
    <3> QED  BY <3>2 DEF Conversion!HandleEvent
  <2>4. err' # 0  BY <2>3 DEF Conversion!ErrorStatus
  <2>5. Reached(k)'  BY <1>1, <1>3, <1>5, <2>3 DEF Reached
  <2>6. Failed(k)'  BY <1>1, <1>3, <1>5, <1>9, <2>2, <2>3, <2>4 DEF Failed
  <2>7. ended' = "no" /\ received' \in Seq(Chunks) /\ out' = <<>>  BY <1>1, <1>2, <2>3
  <2>8. <<>> \in Seq(Chunks)  BY EmptySeq
  <2> QED  BY <1>3, <2>5, <2>6, <2>7, <2>8 DEF StreamInv
<1>10. k < Len(Eff) \/ k = Len(Eff)  BY <1>5, <1>7
<1> QED  BY <1>8, <1>9, <1>10

LEMMA EndOfSourceKeeps == ASSUME StreamInv, Conversion!EndOfSource  PROVE StreamInv'
<1>1. /\ ended = "no" /\ out = <<>> /\ ~stopped /\ err = 0 /\ source = <<>>
      /\ IF cut.how = "broken" THEN err' = 1 /\ UNCHANGED stopped ELSE stopped' = TRUE /\ UNCHANGED err
      /\ answer' = answer /\ cut' = cut /\ received' = received /\ ended' = ended
      /\ out' = out /\ toolIndex' = toolIndex
  BY DEF Conversion!EndOfSource, Conversion!Live
<1>2. Streamed /\ received \in Seq(Chunks) /\ out \in Seq(Chunks)  BY DEF StreamInv
<1>3. Eff' = Eff /\ Full' = Full /\ Streamed'  BY <1>1, <1>2, SameStream
<1>4. PICK k \in Nat : Reached(k) /\ Reads(k)
  BY <1>1 DEF StreamInv, Complete, BrokeOff, Failed
<1>5. /\ k \in 0..Full /\ k <= Len(Eff) /\ k < Full
      /\ source = SubSeq(Eff, k + 1, Len(Eff)) \o Ending
  BY <1>4 DEF Reached, Reads
<1>6. Len(Eff) \in Nat /\ cut.how \in {"eof", "broken", "error"}  BY <1>2, EffIs, CutIs
<1>7. k = Len(Eff)
  <2>1. ~(k < Len(Eff))  BY <1>1, <1>2, <1>5, LeftIs
  <2> QED  BY <1>5, <1>6, <2>1
<1>8. cut.how # "error"
  <2>1. source = Ending  BY <1>2, <1>5, <1>7, LeftIs
  <2> QED  BY <1>1, <2>1 DEF Ending
<1>9. Reached(k)'  BY <1>1, <1>3, <1>4 DEF Reached
<1>10. BrokeOff(k)' \/ Failed(k)'
  <2>1. CASE cut.how = "broken"  BY <1>1, <1>3, <1>5, <1>7, <2>1 DEF Failed
  <2>2. CASE cut.how = "eof"  BY <1>1, <1>3, <1>5, <1>7, <2>2 DEF BrokeOff
  <2> QED  BY <1>6, <1>8, <2>1, <2>2
<1> QED  BY <1>1, <1>2, <1>3, <1>9, <1>10 DEF StreamInv

LEMMA ReturnKeeps == ASSUME StreamInv, Conversion!Return  PROVE StreamInv'
<1>1. /\ out = <<>> /\ (stopped \/ err # 0) /\ ended' = IF err = 0 THEN "eof" ELSE "error"
      /\ answer' = answer /\ cut' = cut /\ received' = received /\ source' = source
      /\ out' = out /\ toolIndex' = toolIndex /\ stopped' = stopped /\ err' = err
  BY DEF Conversion!Return
<1>2. Eff' = Eff /\ Ending' = Ending /\ Full' = Full /\ Streamed'  BY <1>1, SameStream DEF StreamInv
<1>3. PICK k \in Nat : Reached(k) /\ (Reads(k) \/ Complete(k) \/ BrokeOff(k) \/ Failed(k))  BY DEF StreamInv
<1>4. Reached(k)'  BY <1>1, <1>2, <1>3 DEF Reached
<1>5. (Reads(k) \/ Complete(k) \/ BrokeOff(k) \/ Failed(k))'
  BY <1>1, <1>2, <1>3 DEF Reads, Complete, BrokeOff, Failed
<1>6. received' \in Seq(Chunks) /\ out' \in Seq(Chunks)  BY <1>1 DEF StreamInv
<1> QED  BY <1>1, <1>2, <1>4, <1>5, <1>6 DEF StreamInv

LEMMA StreamGoesOn == StreamInv /\ [Conversion!Next]_Conversion!vars => StreamInv'
<1>1. ASSUME StreamInv, UNCHANGED Conversion!vars  PROVE StreamInv'
  <2>1. /\ answer' = answer /\ cut' = cut /\ received' = received /\ source' = source /\ ended' = ended
        /\ out' = out /\ toolIndex' = toolIndex /\ stopped' = stopped /\ err' = err
    BY <1>1 DEF Conversion!vars
  <2>2. Eff' = Eff /\ Ending' = Ending /\ Full' = Full /\ Streamed' = Streamed  BY <2>1, SameStream
  <2> QED  BY <1>1, <2>1, <2>2 DEF StreamInv, Reached, Reads, Complete, BrokeOff, Failed
<1> QED
  BY <1>1, CopyKeeps, NextEventKeeps, EndOfSourceKeeps, ReturnKeeps DEF Conversion!Next

\* The chunks of blocks end nothing.
LEMMA TalkEndsNothing ==
  ASSUME NEW cs \in Seq(Talk)
  PROVE  Mapped(cs, KindF("done")) = <<>> /\ Mapped(cs, KindF("finish")) = <<>> /\ Mapped(cs, DoneF) = <<>>
<1>1. cs \in Seq(Chunks)  BY TalkIsChunks
<1>2. \A i \in 1..Len(cs) : cs[i] \in Talk /\ cs[i] \in Chunks  BY <1>1, ElementOfSeq
<1>3. \A i \in 1..Len(cs) : cs[i].kind # "done" /\ cs[i].kind # "finish"  BY <1>2 DEF Talk
<1>4. \A i \in 1..Len(cs) : cs[i] # Conversion!Done
  <2>1. PICK d : d = Conversion!Done  OBVIOUS
  <2>2. d.kind = "done"  BY <2>1 DEF Conversion!Done, Conversion!Chunk
  <2>3. \A i \in 1..Len(cs) : cs[i] # d  BY <1>3, <2>2
  <2> QED  BY <2>1, <2>3
<1>5. \A i \in 1..Len(cs) : KindF("done")[cs[i]] = <<>>  BY <1>2, <1>3 DEF KindF
<1>6. \A i \in 1..Len(cs) : KindF("finish")[cs[i]] = <<>>  BY <1>2, <1>3 DEF KindF
<1>7. \A i \in 1..Len(cs) : DoneF[cs[i]] = <<>>  BY <1>2, <1>4 DEF DoneF
<1>8. Mapped(cs, KindF("done")) = <<>>  BY <1>5, MappedToNothing
<1>9. Mapped(cs, KindF("finish")) = <<>>  BY <1>6, MappedToNothing
<1>10. Mapped(cs, DoneF) = <<>>  BY <1>7, MappedToNothing
<1> QED  BY <1>8, <1>9, <1>10

\* The first of the chunks that open calls have the first places.
LEMMA PlacesAre ==
  ASSUME NEW calls \in Seq(ToolBlock), NEW s \in Seq(Chunks), NEW t \in Seq(Chunks), s \o t = Placed(calls)
  PROVE  \A i \in 1..Len(s) : s[i].index = i - 1
<1>1. Len(s) \in Nat /\ Len(t) \in Nat /\ Len(calls) \in Nat  BY LenProperties
<1>2. PICK u : u = Placed(calls)  OBVIOUS
<1>3. u = [i \in 1..Len(calls) |-> Conversion!Chunk("call", i - 1, calls[i].id)]  BY <1>2 DEF Placed
<1>4. Len(u) = Len(calls) /\ \A i \in 1..Len(calls) : u[i].index = i - 1
  BY <1>1, <1>3 DEF Conversion!Chunk
<1>5. PICK v : v = s \o t  OBVIOUS
<1>6. /\ Len(v) = Len(s) + Len(t)
      /\ \A i \in 1..Len(s) + Len(t) : v[i] = IF i <= Len(s) THEN s[i] ELSE t[i - Len(s)]
  BY <1>5, ConcatProperties
<1>7. v = u  BY <1>2, <1>5
<1> SUFFICES ASSUME NEW i \in 1..Len(s)  PROVE s[i].index = i - 1  OBVIOUS
<1>8. i \in 1..Len(s) + Len(t) /\ i <= Len(s) /\ i \in 1..Len(calls)  BY <1>1, <1>4, <1>6, <1>7
<1> QED  BY <1>4, <1>6, <1>7, <1>8

\* The reason an answer stopped, as it is sent, or none.
Reasons == {<<>>} \cup {<<Conversion!Chunk("finish", 0, v)>> : v \in Value}

LEMMA ReasonsAre ==
  ASSUME NEW F \in Reasons
  PROVE  /\ F \in Seq(Chunks) /\ Mapped(F, TextF) = <<>> /\ Mapped(F, CallF) = <<>>
         /\ \A i \in Int : Mapped(F, ArgsF(i)) = <<>>
         /\ Mapped(F, KindF("finish")) = F /\ Mapped(F, DoneF) = <<>>
<1>1. CASE F = <<>>
  BY <1>1, MappedNone, EmptySeq
<1>2. CASE F # <<>>
  <2>1. PICK v \in Value : F = <<Conversion!Chunk("finish", 0, v)>>  BY <1>2 DEF Reasons
  <2>2. PICK f : f = Conversion!Chunk("finish", 0, v)  OBVIOUS
  <2>3. f \in Chunks /\ f.kind = "finish" /\ F = <<f>>  BY <2>1, <2>2 DEF Conversion!Chunk, Chunks
  <2>4. f # Conversion!Done
    <3>1. PICK d : d = Conversion!Done  OBVIOUS
    <3>2. d.kind = "done"  BY <3>1 DEF Conversion!Done, Conversion!Chunk
    <3> QED  BY <2>3, <3>1, <3>2
  <2>5. TextF[f] = <<>> /\ CallF[f] = <<>> /\ KindF("finish")[f] = <<f>> /\ DoneF[f] = <<>>
    BY <2>3, <2>4 DEF TextF, CallF, KindF, DoneF
  <2>6. \A i \in Int : ArgsF(i)[f] = <<>>  BY <2>3 DEF ArgsF
  <2>7. \A Y : \A g : Maps(g, Chunks, Y) => Mapped(<<f>>, g) = g[f]  BY <2>3, MappedOne
  <2>8. /\ Maps(TextF, Chunks, Value) /\ Maps(CallF, Chunks, Chunks)
        /\ \A i \in Int : Maps(ArgsF(i), Chunks, Value)
        /\ Maps(KindF("finish"), Chunks, Chunks) /\ Maps(DoneF, Chunks, Chunks)
    BY ChunkTestsMap, MoreTestsMap
  <2>9. Mapped(F, TextF) = <<>>  BY <2>3, <2>5, <2>7, <2>8
  <2>10. Mapped(F, CallF) = <<>>  BY <2>3, <2>5, <2>7, <2>8
  <2>11. \A i \in Int : Mapped(F, ArgsF(i)) = <<>>  BY <2>3, <2>6, <2>7, <2>8
  <2>12. Mapped(F, KindF("finish")) = F  BY <2>3, <2>5, <2>7, <2>8
  <2>13. Mapped(F, DoneF) = <<>>  BY <2>3, <2>5, <2>7, <2>8
  <2>14. F \in Seq(Chunks)  BY <2>3
  <2> QED  BY <2>9, <2>10, <2>11, <2>12, <2>13, <2>14
<1> QED  BY <1>1, <1>2

LEMMA DoneIs ==
  /\ Conversion!Done \in Chunks /\ TextF[Conversion!Done] = <<>> /\ CallF[Conversion!Done] = <<>>
  /\ \A i \in Int : ArgsF(i)[Conversion!Done] = <<>>
  /\ KindF("finish")[Conversion!Done] = <<>> /\ DoneF[Conversion!Done] = <<Conversion!Done>>
<1>1. PICK d : d = Conversion!Done  OBVIOUS
<1>2. d \in Chunks /\ d.kind = "done"
  <2>1. "" \in Value  BY DEF Value
  <2>2. \A v \in Value : Conversion!Chunk("done", 0, v) \in Chunks  BY DEF Conversion!Chunk, Chunks
  <2>3. d = Conversion!Chunk("done", 0, "")  BY <1>1 DEF Conversion!Done
  <2>4. d.kind = "done"  BY <2>3 DEF Conversion!Chunk
  <2> QED  BY <2>1, <2>2, <2>3, <2>4
<1>3. TextF[d] = <<>> /\ CallF[d] = <<>> /\ KindF("finish")[d] = <<>>  BY <1>2 DEF TextF, CallF, KindF
<1>4. \A i \in Int : ArgsF(i)[d] = <<>>  BY <1>2 DEF ArgsF
<1>5. DoneF[d] = <<d>>  BY <1>1, <1>2 DEF DoneF
<1> QED  BY <1>1, <1>2, <1>3, <1>4, <1>5

\* A test of the chunks of blocks, of the reason and of the end.
Splits(g, F, d) ==
    \A cs \in Seq(Chunks) : Mapped((cs \o F) \o <<d>>, g) = (Mapped(cs, g) \o Mapped(F, g)) \o g[d]

LEMMA TestOfWhole ==
  ASSUME NEW Y, NEW g, Maps(g, Chunks, Y), NEW F \in Seq(Chunks), NEW d \in Chunks
  PROVE  Splits(g, F, d)
<1> SUFFICES ASSUME NEW cs \in Seq(Chunks)
             PROVE  Mapped((cs \o F) \o <<d>>, g) = (Mapped(cs, g) \o Mapped(F, g)) \o g[d]
  BY DEF Splits
<1>1. Distributes(g, Chunks)  BY ThreeParts
<1>2. <<d>> \in Seq(Chunks)  OBVIOUS
<1>3. Mapped(<<d>>, g) = g[d]  BY MappedOne
<1>4. PICK q : q = <<d>>  OBVIOUS
<1>5. Mapped((cs \o F) \o q, g) = (Mapped(cs, g) \o Mapped(F, g)) \o Mapped(q, g)
  <2>1. q \in Seq(Chunks)  BY <1>2, <1>4
  <2> QED  BY <1>1, <2>1 DEF Distributes
<1> QED  BY <1>3, <1>4, <1>5

\* A stream that came to its end: the chunks of the blocks, the reason if there
\* was one, and the end. The reason is the answer's if all of it was read.
LEMMA WholeOut ==
  ASSUME Streamed, Full <= Len(Eff), NEW cs, cs = Out(Opening(answer.blocks))
  PROVE  \E F \in Reasons :
           /\ Out(First(Eff, Full)) = (cs \o F) \o <<Conversion!Done>>
           /\ cut.after >= Full /\ answer.stop # ""
                => F = <<Conversion!Chunk("finish", 0, Conversion!Finish(answer.stop))>>
<1>1. PICK n : n = Full - 1  OBVIOUS
<1>2. PICK o : o = Opening(answer.blocks)  OBVIOUS
<1>3. /\ n \in Nat /\ n = Len(o) /\ Full = n + 1 /\ First(Ev, n) = First(o, n) /\ Ev[Full] = Final(answer)
      /\ Eff \in Seq(Event) /\ Len(Eff) \in Nat /\ cut.after \in Nat /\ Full \in Nat
  <2>1. /\ Full \in Nat /\ 1 <= Full /\ Full - 1 = Len(o) /\ Ev[Full] = Final(answer) /\ Len(Ev) \in Nat
        /\ \A k \in 0..Full - 1 : First(Ev, k) = First(o, k)
    BY <1>2, EvIs DEF Streamed
  <2>2. n \in Nat /\ Full = n + 1 /\ n \in 0..Full - 1  BY <1>1, <2>1
  <2>3. cut.after \in Nat  BY <2>1, CutIs
  <2> QED  BY <1>1, <2>1, <2>2, <2>3, EffIs
<1>4. n <= cut.after
  <2>1. Len(Eff) = cut.after \/ Len(Eff) = cut.after + 1  BY EffIs
  <2> QED  BY <1>3, <2>1
<1>5. First(Eff, n) = First(o, n)
  <2>1. n \in 0..cut.after  BY <1>3, <1>4
  <2> QED  BY <1>3, <2>1, EffIs
<1>6. o \in Seq(Event)
  <2>1. answer.blocks \in Seq(Block)  BY DEF Streamed, WholeAnswer
  <2> QED  BY <1>2, <2>1, OpeningIs
<1>7. First(o, n) = o  BY <1>3, <1>6, SubSeqFull DEF First
<1>8. PICK e : e = Eff[n + 1]  OBVIOUS
<1>9. n \in 0..Len(Eff) /\ n < Len(Eff) /\ n + 1 \in 1..Len(Eff)  BY <1>3
<1>10. e \in Event /\ e.event \in {"message_delta", "message_stop"}
  <2>1. Full \in 1..Len(Eff) /\ Full <= Full  BY <1>3, <1>9
  <2> QED  BY <1>3, <1>8, <2>1, KindsAre
<1>11. First(Eff, n + 1) = Append(o, e)  BY <1>3, <1>5, <1>7, <1>8, <1>9, FirstMoves
<1>12. PICK t : t = ChunksOf(e, Place(o))  OBVIOUS
<1>13. Out(First(Eff, Full)) = cs \o t
  <2>1. Out(Append(o, e)) = Out(o) \o ChunksOf(e, Place(o))  BY <1>6, <1>10, OutMoves
  <2> QED  BY <1>2, <1>3, <1>11, <1>12, <2>1
<1>14. PICK d : d = Conversion!Done  OBVIOUS
<1>15. cs \in Seq(Chunks) /\ d \in Chunks  BY <1>2, <1>6, <1>14, OutIsSeq, DoneIs
<1>20. ASSUME cut.after >= Full  PROVE Full \in 1..cut.after
  <2>1. PICK c : c = cut.after  OBVIOUS
  <2>2. PICK u : u = Full  OBVIOUS
  <2>3. c >= u /\ c \in Nat  BY <1>3, <1>20, <2>1, <2>2
  <2>4. u = n + 1 /\ n \in Nat  BY <1>3, <2>2
  <2>5. u \in 1..c  BY <2>3, <2>4
  <2> QED  BY <2>1, <2>2, <2>5
<1>16. CASE e.event = "message_stop"
  <2>1. t = <<d>>  BY <1>12, <1>14, <1>16 DEF ChunksOf, OpensCall
  <2>2. cs \o <<>> = cs  BY <1>15, ConcatEmptySeq
  <2>3. ~(cut.after >= Full /\ answer.stop # "")
    <3> SUFFICES ASSUME cut.after >= Full, answer.stop # ""  PROVE FALSE  OBVIOUS
    <3>1. Full \in 1..cut.after  BY <1>20
    <3>2. e = StopEvent(answer)  BY <1>3, <1>8, <3>1, EffIs DEF Final
    <3> QED  BY <1>16, <3>2 DEF StopEvent
  <2>4. <<>> \in Reasons  BY DEF Reasons
  <2> QED  BY <1>13, <1>14, <2>1, <2>2, <2>3, <2>4
<1>17. CASE e.event = "message_delta"
  <2>1. PICK v : v = Conversion!Finish(e.stop)  OBVIOUS
  <2>2. v \in Value  BY <2>1 DEF Conversion!Finish, Value
  <2>3. PICK f : f = Conversion!Chunk("finish", 0, v)  OBVIOUS
  <2>4. f \in Chunks /\ <<f>> \in Reasons  BY <2>2, <2>3 DEF Conversion!Chunk, Chunks, Reasons
  <2>5. t = <<f, d>>  BY <1>12, <1>14, <1>17, <2>1, <2>3 DEF ChunksOf, OpensCall
  <2>6. cs \o <<f, d>> = (cs \o <<f>>) \o <<d>>
    <3>1. PICK p : p = <<f>>  OBVIOUS
    <3>2. PICK q : q = <<d>>  OBVIOUS
    <3>3. cs \in Seq(Chunks) /\ p \in Seq(Chunks) /\ q \in Seq(Chunks)  BY <1>15, <2>4, <3>1, <3>2
    <3>4. (cs \o p) \o q = cs \o (p \o q)  BY <3>3, ChainedIs DEF Chained
    <3>5. p \o q = <<f, d>>  BY <1>15, <2>4, <3>1, <3>2, PairIs
    <3> QED  BY <3>1, <3>2, <3>4, <3>5
  <2>7. cut.after >= Full /\ answer.stop # "" => f = Conversion!Chunk("finish", 0, Conversion!Finish(answer.stop))
    <3> SUFFICES ASSUME cut.after >= Full, answer.stop # ""
                 PROVE  f = Conversion!Chunk("finish", 0, Conversion!Finish(answer.stop))
      OBVIOUS
    <3>1. Full \in 1..cut.after  BY <1>20
    <3>2. e = StopEvent(answer)  BY <1>3, <1>8, <3>1, EffIs DEF Final
    <3>3. e.stop = answer.stop  BY <3>2 DEF StopEvent
    <3> QED  BY <2>1, <2>3, <3>3
  <2> QED  BY <1>13, <1>14, <2>4, <2>5, <2>6, <2>7
<1> QED  BY <1>10, <1>16, <1>17

\* Such an answer, as its reader puts it together.
LEMMA WholeMatches ==
  ASSUME answer \in WholeAnswer, received \in Seq(Chunks), NEW F \in Reasons,
         received = (Out(Opening(answer.blocks)) \o F) \o <<Conversion!Done>>
  PROVE  /\ Conversion!InPlace
         /\ Conversion!Filter(received, LAMBDA c : c = Conversion!Done) = <<Conversion!Done>>
         /\ Conversion!Last(received) = Conversion!Done
         /\ Conversion!Values(Conversion!Of("text")) = Conversion!AnthropicToOpenAI(answer).text
         /\ Conversion!Regular => Conversion!Calls = Conversion!AnthropicToOpenAI(answer).calls
         /\ Conversion!Of("finish") = F
<1>1. PICK bs : bs = answer.blocks  OBVIOUS
<1>2. PICK cs : cs = Out(Opening(bs))  OBVIOUS
<1>3. PICK calls : calls = Mapped(bs, CallOf)  OBVIOUS
<1>4. F \in Seq(Chunks)  BY ReasonsAre
<1>5. PICK d : d = Conversion!Done  OBVIOUS
<1>6. received = (cs \o F) \o <<d>>  BY <1>1, <1>2, <1>5
<1>7. bs \in Seq(Block) /\ answer.stop \in Stops  BY <1>1 DEF WholeAnswer
<1>8. /\ cs \in Seq(Talk) /\ Mapped(cs, TextF) = Mapped(bs, Spell) /\ Mapped(cs, CallF) = Placed(calls)
      /\ \A i \in Int : Mapped(cs, ArgsF(i)) = ArgsAt(calls, i)
  BY <1>2, <1>3, <1>7, BlocksTell DEF Tells
<1>9. calls \in Seq(ToolBlock) /\ Len(calls) \in Nat /\ \A i \in 1..Len(calls) : calls[i] \in ToolBlock
  <2>1. Maps(CallOf, Block, ToolBlock)  BY BlockTestsMap
  <2>2. calls \in Seq(ToolBlock)  BY <1>3, <1>7, <2>1, MappedIsSeq
  <2> QED  BY <2>2, LenProperties, ElementOfSeq
<1>10. cs \in Seq(Chunks)  BY <1>8, TalkIsChunks
<1>11. /\ d \in Chunks /\ TextF[d] = <<>> /\ CallF[d] = <<>> /\ KindF("finish")[d] = <<>> /\ DoneF[d] = <<d>>
       /\ Mapped(F, TextF) = <<>> /\ Mapped(F, CallF) = <<>>
       /\ \A i \in Int : Mapped(F, ArgsF(i)) = <<>> /\ ArgsF(i)[d] = <<>>
       /\ Mapped(F, KindF("finish")) = F /\ Mapped(F, DoneF) = <<>>
  BY <1>5, DoneIs, ReasonsAre
<1>12. Mapped(received, TextF) = Mapped(bs, Spell)
  <2>1. Maps(TextF, Chunks, Value)  BY ChunkTestsMap
  <2>2. PICK s : s = Mapped(cs, TextF)  OBVIOUS
  <2>3. s \in Seq(Value)  BY <1>10, <2>1, <2>2, MappedIsSeq
  <2>4. Mapped(received, TextF) = (s \o <<>>) \o <<>>
    <3>1. Splits(TextF, F, d)  BY <1>4, <1>11, <2>1, TestOfWhole
    <3> QED  BY <1>6, <1>10, <1>11, <2>2, <3>1 DEF Splits
  <2>5. (s \o <<>>) \o <<>> = s  BY <2>3, Nothings
  <2> QED  BY <1>8, <2>2, <2>4, <2>5
<1>13. Mapped(received, CallF) = Placed(calls) /\ Placed(calls) \in Seq(Chunks)
  <2>1. Maps(CallF, Chunks, Chunks)  BY ChunkTestsMap
  <2>2. PICK s : s = Mapped(cs, CallF)  OBVIOUS
  <2>3. s \in Seq(Chunks)  BY <1>10, <2>1, <2>2, MappedIsSeq
  <2>4. Mapped(received, CallF) = (s \o <<>>) \o <<>>
    <3>1. Splits(CallF, F, d)  BY <1>4, <1>11, <2>1, TestOfWhole
    <3> QED  BY <1>6, <1>10, <1>11, <2>2, <3>1 DEF Splits
  <2>5. (s \o <<>>) \o <<>> = s  BY <2>3, Nothings
  <2> QED  BY <1>8, <2>2, <2>3, <2>4, <2>5
<1>14. ASSUME NEW i \in Int  PROVE Mapped(received, ArgsF(i)) = ArgsAt(calls, i)
  <2>0. PICK g : g = ArgsF(i)  OBVIOUS
  <2>1. Maps(g, Chunks, Value)  BY <2>0, ChunkTestsMap
  <2>2. PICK s : s = Mapped(cs, g)  OBVIOUS
  <2>3. s \in Seq(Value)  BY <1>10, <2>1, <2>2, MappedIsSeq
  <2>4. Mapped(F, g) = <<>> /\ g[d] = <<>>  BY <1>11, <2>0
  <2>5. Mapped(received, g) = (s \o <<>>) \o <<>>
    <3>1. Splits(g, F, d)  BY <1>4, <1>11, <2>1, TestOfWhole
    <3> QED  BY <1>6, <1>10, <2>2, <2>4, <3>1 DEF Splits
  <2>6. (s \o <<>>) \o <<>> = s  BY <2>3, Nothings
  <2> QED  BY <1>8, <2>0, <2>2, <2>5, <2>6
<1>15. Mapped(received, KindF("finish")) = F
  <2>0. PICK g : g = KindF("finish")  OBVIOUS
  <2>1. Maps(g, Chunks, Chunks)  BY <2>0, MoreTestsMap
  <2>2. Mapped(cs, g) = <<>> /\ Mapped(F, g) = F /\ g[d] = <<>>  BY <1>8, <1>11, <2>0, TalkEndsNothing
  <2>3. Mapped(received, g) = (<<>> \o F) \o <<>>
    <3>1. Splits(g, F, d)  BY <1>4, <1>11, <2>1, TestOfWhole
    <3> QED  BY <1>6, <1>10, <2>2, <3>1 DEF Splits
  <2>4. (<<>> \o F) \o <<>> = F  BY <1>4, Nothings
  <2> QED  BY <2>0, <2>3, <2>4
<1>16. Mapped(received, DoneF) = <<d>>
  <2>1. Maps(DoneF, Chunks, Chunks)  BY MoreTestsMap
  <2>2. Mapped(cs, DoneF) = <<>>  BY <1>8, TalkEndsNothing
  <2>3. Mapped(received, DoneF) = (<<>> \o <<>>) \o <<d>>
    <3>1. Splits(DoneF, F, d)  BY <1>4, <1>11, <2>1, TestOfWhole
    <3> QED  BY <1>6, <1>10, <1>11, <2>2, <3>1 DEF Splits
  <2>4. <<d>> \in Seq(Chunks)  BY <1>11
  <2>5. (<<>> \o <<>>) \o <<d>> = <<d>>  BY <2>4, Nothings
  <2> QED  BY <2>3, <2>5
<1>17. Conversion!Of("call") = Placed(calls) /\ Conversion!Of("finish") = F
  <2>1. Conversion!Of("call") = Placed(calls)  BY <1>13, ViewsAre
  <2>2. Conversion!Of("finish") = Mapped(received, KindF("finish"))  BY OfIs
  <2> QED  BY <1>15, <2>1, <2>2
<1>18. Conversion!InPlace
  <2>1. PICK s : s = Placed(calls)  OBVIOUS
  <2>2. s \in Seq(Chunks) /\ <<>> \in Seq(Chunks)  BY <1>13, <2>1, EmptySeq
  <2>3. s \o <<>> = Placed(calls)  BY <2>1, <2>2, ConcatEmptySeq
  <2>4. \A i \in 1..Len(s) : s[i].index = i - 1  BY <1>9, <2>2, <2>3, PlacesAre
  <2> QED  BY <1>17, <2>1, <2>4 DEF Conversion!InPlace
<1>19. Conversion!Filter(received, LAMBDA c : c = Conversion!Done) = <<Conversion!Done>>
  <2>1. Conversion!Filter(received, LAMBDA c : c = Conversion!Done) = Mapped(received, DoneF)  BY ViewsAre
  <2> QED  BY <1>5, <1>16, <2>1
<1>20. Conversion!Last(received) = Conversion!Done
  <2>1. PICK s : s = cs \o F  OBVIOUS
  <2>2. s \in Seq(Chunks)  BY <1>4, <1>10, <2>1, ConcatProperties
  <2>3. received = Append(s, d)  BY <1>6, <1>11, <2>1, <2>2, AppendIsConcat
  <2>4. Len(Append(s, d)) = Len(s) + 1 /\ Append(s, d)[Len(s) + 1] = d  BY <1>11, <2>2, AppendProperties
  <2> QED  BY <1>5, <2>3, <2>4 DEF Conversion!Last
<1>21. Conversion!Values(Conversion!Of("text")) = Conversion!AnthropicToOpenAI(answer).text
  <2>1. Conversion!Texts(bs) = Mapped(bs, Spell)  BY <1>7, WholeIs
  <2>2. Conversion!Values(Conversion!Of("text")) = Conversion!Texts(bs)  BY <1>12, <2>1, ViewsAre
  <2> QED  BY <1>1, <2>2 DEF Conversion!AnthropicToOpenAI
<1>22. ASSUME Conversion!Regular  PROVE Conversion!Calls = Conversion!AnthropicToOpenAI(answer).calls
  <2>1. Conversion!Tools(bs) = calls  BY <1>3, <1>7, WholeIs
  <2>3. PICK P : P = Placed(calls)  OBVIOUS
  <2>4. P = [i \in 1..Len(calls) |-> Conversion!Chunk("call", i - 1, calls[i].id)]  BY <2>3 DEF Placed
  <2>5. Len(P) = Len(calls) /\ DOMAIN P = 1..Len(calls)  BY <1>9, <2>4
  <2>6. ASSUME NEW i \in 1..Len(calls)
        PROVE  /\ (CHOOSE c \in Conversion!ToSet(P) : c.index = i - 1).value = calls[i].id
               /\ Conversion!Values(Conversion!Filter(Conversion!Of("args"), LAMBDA c : c.index = i - 1))
                    = IF calls[i].args = <<>> THEN <<"{}">> ELSE calls[i].args
    <3>1. P[i] \in Conversion!ToSet(P) /\ P[i].index = i - 1 /\ P[i].value = calls[i].id
      BY <2>4, <2>5 DEF Conversion!ToSet, Conversion!Chunk
    <3>2. ASSUME NEW c \in Conversion!ToSet(P), c.index = i - 1  PROVE c = P[i]
      <4>1. PICK j \in 1..Len(calls) : c = P[j]  BY <2>5 DEF Conversion!ToSet
      <4>2. c.index = j - 1  BY <2>4, <4>1 DEF Conversion!Chunk
      <4>3. j = i  BY <1>9, <3>2, <4>2
      <4> QED  BY <4>1, <4>3
    <3>3. (CHOOSE c \in Conversion!ToSet(P) : c.index = i - 1) = P[i]  BY <3>1, <3>2
    <3>4. i - 1 \in Int /\ i - 1 \in 0..Len(calls) - 1 /\ (i - 1) + 1 = i  BY <1>9
    <3>5. Conversion!Values(Conversion!Filter(Conversion!Of("args"), LAMBDA c : c.index = i - 1))
            = Mapped(received, ArgsF(i - 1))
      BY <3>4, ViewsAre
    <3>6. Mapped(received, ArgsF(i - 1)) = calls[i].args  BY <1>14, <3>4 DEF ArgsAt
    <3>7. calls[i].args # <<>>
      <4>1. calls[i] \in Conversion!ToSet(calls)  BY <1>9 DEF Conversion!ToSet
      <4> QED  BY <1>1, <1>22, <2>1, <4>1 DEF Conversion!Regular
    <3> QED  BY <3>1, <3>3, <3>5, <3>6, <3>7
  <2>8. [i \in 1..Len(Conversion!Of("call")) |->
           [id |-> (CHOOSE c \in Conversion!ToSet(Conversion!Of("call")) : c.index = i - 1).value,
            args |-> Conversion!Values(Conversion!Filter(Conversion!Of("args"), LAMBDA c : c.index = i - 1))]]
        = [i \in 1..Len(calls) |->
             [id |-> calls[i].id, args |-> IF calls[i].args = <<>> THEN <<"{}">> ELSE calls[i].args]]
    <3>1. Conversion!Of("call") = P /\ Len(P) = Len(calls)  BY <1>17, <2>3, <2>5
    <3> QED  BY <2>6, <3>1
  <2> QED  BY <1>1, <2>1, <2>8 DEF Conversion!Calls, Conversion!AnthropicToOpenAI
<1> QED  BY <1>17, <1>18, <1>19, <1>20, <1>21, <1>22

\* A stream that broke off: the events handled are turned into what some first
\* events of the answer are turned into.
LEMMA ShortOut ==
  ASSUME Streamed, NEW k \in Nat, k < Full, k <= Len(Eff)
  PROVE  \E j \in 0..Full - 1 : Out(First(Eff, k)) = Out(First(Ev, j))
<1>1. /\ Ev \in Seq(Event) /\ Len(Ev) \in Nat /\ Full \in Nat /\ cut.after \in 0..Len(Ev)
      /\ Eff \in Seq(Event) /\ Len(Eff) \in Nat /\ Full <= Len(Ev)
  BY EvIs, CutIs, EffIs DEF Streamed
<1>2. CASE k <= cut.after
  <2>1. k \in 0..cut.after /\ k \in 0..Full - 1  BY <1>1, <1>2
  <2>2. First(Eff, k) = First(Ev, k)  BY <2>1, EffIs
  <2> QED  BY <2>1, <2>2
<1>3. CASE ~(k <= cut.after)
  <2>1. PICK a : a = cut.after  OBVIOUS
  <2>2. Torn /\ k = a + 1
    <3>1. CASE Torn
      <4>1. Len(Eff) = cut.after + 1  BY <3>1, EffIs
      <4> QED  BY <1>1, <1>3, <2>1, <3>1, <4>1
    <3>2. CASE ~Torn
      <4>1. Len(Eff) = cut.after  BY <3>2, EffIs
      <4> QED  BY <1>1, <1>3, <4>1
    <3> QED  BY <3>1, <3>2
  <2>3. PICK e : e = Ev[a + 1]  OBVIOUS
  <2>4. PICK h : h = Eff[a + 1]  OBVIOUS
  <2>5. h = Conversion!HalfRead(e) /\ Len(Eff) = a + 1  BY <2>1, <2>2, <2>3, <2>4, EffIs
  <2>6. a + 1 \in 1..Full - 1 /\ a \in 0..Full - 1 /\ a \in 0..Len(Ev) /\ a < Len(Ev)
        /\ a \in 0..Len(Eff) /\ a < Len(Eff) /\ a \in 0..cut.after
    BY <1>1, <2>1, <2>2, <2>5
  <2>7. e \in Middle /\ e \in Event
    <3>1. \A i \in 1..Full - 1 : Ev[i] \in Middle  BY EvIs DEF Streamed
    <3> QED  BY <2>3, <2>6, <3>1 DEF Event
  <2>8. h \in Event /\ (h = e \/ h = [event |-> "ping"])
    <3>1. PICK g \in Event : g = Conversion!HalfRead(e) /\ (g = e \/ g = [event |-> "ping"])  BY <2>7, HalfIs
    <3> QED  BY <2>5, <3>1
  <2>9. PICK f : f = First(Ev, a)  OBVIOUS
  <2>10. f \in Seq(Event) /\ First(Eff, a) = f  BY <1>1, <2>6, <2>9, FirstIs, EffIs
  <2>11. First(Eff, a + 1) = Append(f, h)  BY <1>1, <2>4, <2>6, <2>10, FirstMoves
  <2>12. CASE h = e
    <3>1. First(Ev, a + 1) = Append(f, e)  BY <1>1, <2>3, <2>6, <2>9, FirstMoves
    <3>2. a + 1 \in 0..Full - 1  BY <2>6
    <3> QED  BY <2>2, <2>11, <2>12, <3>1, <3>2
  <2>13. CASE h = [event |-> "ping"]
    <3>1. ChunksOf(h, Place(f)) = <<>>  BY <2>13 DEF ChunksOf, OpensCall
    <3>2. Out(Append(f, h)) = Out(f) \o ChunksOf(h, Place(f))  BY <2>8, <2>10, OutMoves
    <3>3. PICK u : u = Out(f)  OBVIOUS
    <3>4. u \in Seq(Chunks)  BY <2>10, <3>3, OutIsSeq
    <3>5. u \o <<>> = u  BY <3>4, ConcatEmptySeq
    <3> QED  BY <2>2, <2>6, <2>9, <2>11, <3>1, <3>2, <3>3, <3>5
  <2> QED  BY <2>8, <2>12, <2>13
<1> QED  BY <1>2, <1>3

\* Such a stream is a beginning of the chunks of the answer's blocks.
LEMMA ShortMatches ==
  ASSUME answer \in WholeAnswer, received \in Seq(Chunks),
         NEW k \in 0..Full - 1, received = Out(First(Ev, k))
  PROVE  /\ Conversion!InPlace /\ Conversion!Of("done") = <<>> /\ Conversion!Of("finish") = <<>>
         /\ Conversion!IsPrefix(Conversion!Values(Conversion!Of("text")),
                                Conversion!AnthropicToOpenAI(answer).text)
<1>1. PICK bs : bs = answer.blocks  OBVIOUS
<1>2. PICK o : o = Opening(bs)  OBVIOUS
<1>3. PICK cs : cs = Out(o)  OBVIOUS
<1>4. PICK calls : calls = Mapped(bs, CallOf)  OBVIOUS
<1>5. bs \in Seq(Block)  BY <1>1 DEF WholeAnswer
<1>6. /\ cs \in Seq(Talk) /\ Mapped(cs, TextF) = Mapped(bs, Spell) /\ Mapped(cs, CallF) = Placed(calls)
  BY <1>2, <1>3, <1>4, <1>5, BlocksTell DEF Tells
<1>7. calls \in Seq(ToolBlock)
  <2>1. Maps(CallOf, Block, ToolBlock)  BY BlockTestsMap
  <2> QED  BY <1>4, <1>5, <2>1, MappedIsSeq
<1>8. o \in Seq(Event) /\ k \in 0..Len(o) /\ First(Ev, k) = First(o, k)
  <2>1. Full - 1 = Len(Opening(answer.blocks))
        /\ \A j \in 0..Full - 1 : First(Ev, j) = First(Opening(answer.blocks), j)
    BY EvIs
  <2> QED  BY <1>1, <1>2, <1>5, <2>1, OpeningIs
<1>9. PICK ys \in Seq(Chunks) : cs = received \o ys
  <2>1. PICK u : u = First(o, k)  OBVIOUS
  <2>2. u \in Seq(Event)  BY <1>8, <2>1, FirstIs
  <2>3. \E t \in Seq(Event) : o = u \o t
    <3>1. o \in Seq(Event) /\ k \in 0..Len(o)  BY <1>8
    <3>2. \E t \in Seq(Event) : o = First(o, k) \o t  BY <3>1, FirstAndOthers
    <3> QED  BY <2>1, <3>2
  <2>4. PICK t \in Seq(Event) : o = u \o t  BY <2>3
  <2>5. \E ys \in Seq(Chunks) : Out(u \o t) = Out(u) \o ys  BY <2>2, OutGrows
  <2> QED  BY <1>3, <1>8, <2>1, <2>4, <2>5
<1>10. received \in Seq(Talk)  BY <1>6, <1>9, HalvesAre
<1>11. Conversion!Of("done") = <<>> /\ Conversion!Of("finish") = <<>>
  <2>1. Mapped(received, KindF("done")) = <<>> /\ Mapped(received, KindF("finish")) = <<>>
    BY <1>10, TalkEndsNothing
  <2>2. Conversion!Of("done") = Mapped(received, KindF("done"))  BY OfIs
  <2>3. Conversion!Of("finish") = Mapped(received, KindF("finish"))  BY OfIs
  <2> QED  BY <2>1, <2>2, <2>3
<1>12. Conversion!InPlace
  <2>1. Maps(CallF, Chunks, Chunks)  BY ChunkTestsMap
  <2>2. PICK s : s = Mapped(received, CallF)  OBVIOUS
  <2>3. PICK t : t = Mapped(ys, CallF)  OBVIOUS
  <2>4. s \in Seq(Chunks) /\ t \in Seq(Chunks)
    <3>1. s \in Seq(Chunks)  BY <2>1, <2>2, MappedIsSeq
    <3>2. t \in Seq(Chunks)  BY <2>1, <2>3, MappedIsSeq
    <3> QED  BY <3>1, <3>2
  <2>5. s \o t = Placed(calls)
    <3>1. \A x, y \in Seq(Chunks) : Mapped(x \o y, CallF) = Mapped(x, CallF) \o Mapped(y, CallF)
      BY <2>1, MappedConcat
    <3> QED  BY <1>6, <1>9, <2>2, <2>3, <3>1
  <2>6. \A i \in 1..Len(s) : s[i].index = i - 1  BY <1>7, <2>4, <2>5, PlacesAre
  <2>7. Conversion!Of("call") = s  BY <2>2, ViewsAre
  <2> QED  BY <2>6, <2>7 DEF Conversion!InPlace
<1>13. Conversion!IsPrefix(Conversion!Values(Conversion!Of("text")),
                                Conversion!AnthropicToOpenAI(answer).text)
  <2>1. Maps(TextF, Chunks, Value)  BY ChunkTestsMap
  <2>2. PICK s : s = Mapped(received, TextF)  OBVIOUS
  <2>3. PICK t : t = Mapped(ys, TextF)  OBVIOUS
  <2>4. s \in Seq(Value) /\ t \in Seq(Value)
    <3>1. s \in Seq(Value)  BY <2>1, <2>2, MappedIsSeq
    <3>2. t \in Seq(Value)  BY <2>1, <2>3, MappedIsSeq
    <3> QED  BY <3>1, <3>2
  <2>5. s \o t = Mapped(bs, Spell)
    <3>1. \A x, y \in Seq(Chunks) : Mapped(x \o y, TextF) = Mapped(x, TextF) \o Mapped(y, TextF)
      BY <2>1, MappedConcat
    <3> QED  BY <1>6, <1>9, <2>2, <2>3, <3>1
  <2>6. Conversion!IsPrefix(s, s \o t)  BY <2>4, PrefixIs
  <2>7. Conversion!Values(Conversion!Of("text")) = s  BY <2>2, ViewsAre
  <2>8. Conversion!AnthropicToOpenAI(answer).text = s \o t
    <3>1. Conversion!Texts(bs) = s \o t  BY <1>5, <2>5, WholeIs
    <3> QED  BY <1>1, <3>1 DEF Conversion!AnthropicToOpenAI
  <2> QED  BY <2>6, <2>7, <2>8
<1> QED  BY <1>11, <1>12, <1>13

\* An Anthropic stream whose last block was read, and the beginning of what
\* follows, says what the answer would have said whole and says once, at the end,
\* that it is over, with the answer's reason if that was read whole; one that
\* breaks off before, be it inside an event, gives a beginning of the text, no
\* reason and no end; calls of tools are numbered from 0 in both
\* (streamTransformer, anthropic.go 434-651).
THEOREM StreamsMatch == Conversion!Spec => []StreamMatches
<1>1. StreamInv => StreamMatches
  <2> SUFFICES ASSUME StreamInv, ended # "no"
               PROVE  /\ Conversion!InPlace
                      /\ IF Conversion!Handled >= Full
                         THEN /\ ended = "eof"
                              /\ Conversion!Filter(received, LAMBDA c : c = Conversion!Done) = <<Conversion!Done>>
                              /\ Conversion!Last(received) = Conversion!Done
                              /\ Conversion!Values(Conversion!Of("text")) = Conversion!AnthropicToOpenAI(answer).text
                              /\ Conversion!Regular => Conversion!Calls = Conversion!AnthropicToOpenAI(answer).calls
                              /\ Conversion!Expected /\ cut.after >= Full =>
                                    Conversion!Values(Conversion!Of("finish"))
                                      = <<Conversion!AnthropicToOpenAI(answer).finish>>
                         ELSE /\ Conversion!Of("done") = <<>> /\ Conversion!Of("finish") = <<>>
                              /\ Conversion!IsPrefix(Conversion!Values(Conversion!Of("text")),
                                                     Conversion!AnthropicToOpenAI(answer).text)
                              /\ cut.how # "eof" => ended = "error"
    BY DEF StreamMatches, Conversion!StreamMatches, Full
  <2>1. /\ Streamed /\ answer \in WholeAnswer
        /\ received \in Seq(Chunks) /\ out = <<>> /\ (stopped \/ err # 0)
        /\ ended = IF err = 0 THEN "eof" ELSE "error"
    BY DEF StreamInv, Streamed
  <2>2. PICK k \in Nat : Reached(k) /\ (Complete(k) \/ BrokeOff(k) \/ Failed(k))
    <3>1. PICK k \in Nat : Reached(k) /\ (Reads(k) \/ Complete(k) \/ BrokeOff(k) \/ Failed(k))
      BY DEF StreamInv
    <3> QED  BY <2>1, <3>1 DEF Reads
  <2>3. k \in 0..Full /\ k <= Len(Eff) /\ received = Out(First(Eff, k))
    <3>1. received \o <<>> = received  BY <2>1, ConcatEmptySeq
    <3> QED  BY <2>1, <2>2, <3>1 DEF Reached
  <2>4. Full \in Nat /\ Len(Eff) \in Nat /\ Conversion!Handled = Len(Eff)  BY <2>1, EvIs, EffIs
  <2>5. CASE Len(Eff) >= Full
    <3>1. Complete(k)  BY <2>2, <2>4, <2>5 DEF BrokeOff, Failed
    <3>2. k = Full /\ ended = "eof"  BY <2>1, <3>1 DEF Complete
    <3>3. PICK F \in Reasons :
             /\ received = (Out(Opening(answer.blocks)) \o F) \o <<Conversion!Done>>
             /\ cut.after >= Full /\ answer.stop # ""
                  => F = <<Conversion!Chunk("finish", 0, Conversion!Finish(answer.stop))>>
      BY <2>1, <2>3, <2>4, <2>5, <3>2, WholeOut
    <3>4. /\ Conversion!InPlace
          /\ Conversion!Filter(received, LAMBDA c : c = Conversion!Done) = <<Conversion!Done>>
          /\ Conversion!Last(received) = Conversion!Done
          /\ Conversion!Values(Conversion!Of("text")) = Conversion!AnthropicToOpenAI(answer).text
          /\ Conversion!Regular => Conversion!Calls = Conversion!AnthropicToOpenAI(answer).calls
          /\ Conversion!Of("finish") = F
      BY <2>1, <3>3, WholeMatches
    <3>5. ASSUME Conversion!Expected, cut.after >= Full
          PROVE  Conversion!Values(Conversion!Of("finish")) = <<Conversion!AnthropicToOpenAI(answer).finish>>
      <4>1. PICK v : v = Conversion!Finish(answer.stop)  OBVIOUS
      <4>2. Conversion!Of("finish") = <<Conversion!Chunk("finish", 0, v)>>
        BY <3>3, <3>4, <3>5, <4>1 DEF Conversion!Expected
      <4>3. PICK s : s = Conversion!Of("finish")  OBVIOUS
      <4>4. Len(s) = 1 /\ s[1].value = v  BY <4>2, <4>3 DEF Conversion!Chunk
      <4>5. Conversion!Values(s) = <<v>>  BY <4>4 DEF Conversion!Values
      <4>6. Conversion!AnthropicToOpenAI(answer).finish = v
        <5>1. Conversion!AnthropicToOpenAI(answer).finish
                = IF Conversion!Tools(answer.blocks) # <<>> THEN "tool_calls" ELSE Conversion!Finish(answer.stop)
          BY DEF Conversion!AnthropicToOpenAI
        <5>2. Conversion!Tools(answer.blocks) # <<>> <=> answer.stop = "tool_use"  BY <3>5 DEF Conversion!Expected
        <5> QED  BY <4>1, <5>1, <5>2 DEF Conversion!Finish
      <4> QED  BY <4>3, <4>5, <4>6
    <3> QED  BY <2>4, <2>5, <3>2, <3>4, <3>5
  <2>6. CASE ~(Len(Eff) >= Full)
    <3>1. k < Full  BY <2>3, <2>4, <2>6
    <3>2. PICK j \in 0..Full - 1 : received = Out(First(Ev, j))  BY <2>1, <2>3, <3>1, ShortOut
    <3>3. /\ Conversion!InPlace /\ Conversion!Of("done") = <<>> /\ Conversion!Of("finish") = <<>>
          /\ Conversion!IsPrefix(Conversion!Values(Conversion!Of("text")),
                                 Conversion!AnthropicToOpenAI(answer).text)
      BY <2>1, <3>2, ShortMatches
    <3>4. cut.how # "eof" => ended = "error"
      BY <2>1, <2>2, <3>1 DEF Complete, BrokeOff, Failed
    <3> QED  BY <2>4, <2>6, <3>3, <3>4
  <2> QED  BY <2>5, <2>6
<1> QED  BY <1>1, StreamStarts, StreamGoesOn, PTL DEF Conversion!Spec
=============================================================================
