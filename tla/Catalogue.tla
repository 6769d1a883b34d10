------------------------------ MODULE Catalogue ------------------------------
\* The administration of channels, groups, API keys and ratio groups (api/admin.go,
\* api/ratio.go) statement by statement, and the requests that authenticate
\* meanwhile (api/auth.go, api/proxy.go). A channel and a key are owners of links
\* to groups; the database locks rows, and ends a deadlock by failing somebody.
EXTENDS Naturals, FiniteSets

CONSTANTS Upstream, Key, Group, DefaultGroup, Model,
          Editor,      \* administrators' requests under way, one operation each
          Request,     \* callers' requests under way
          Operation,   \* the operations administrators may ask for
          Nothing      \* a field left out, a row that is not there

\* Channels and keys are rows of different tables, and only channels join groups
\* that are created with them.
ASSUME OwnersApart ==
    /\ Upstream \cap Key = {}
    /\ \A ask \in Operation :
          /\ "op" \in DOMAIN ask
          /\ ask.op = "CreateGroup" => "channels" \in DOMAIN ask /\ ask.channels \subseteq Upstream

VARIABLES groups,       \* channel_groups: "gone", "on" or "off"
          owner,        \* upstreams and api_keys
          links,        \* channel_group_members and api_key_groups
          mapping,      \* the models each channel maps
          ratio,        \* channel_ratio_groups, one per channel
          handler, request,
          scope         \* history: the groups in force for a key, {} for any

catalogueVars == <<groups, owner, links, mapping, ratio, handler, request, scope>>
tables == <<groups, owner, links, mapping, ratio>>

Owner == Upstream \cup Key
Done == [at |-> "done"]
Absent == [live |-> FALSE, on |-> FALSE]
Row(kind, o, g) == <<kind, o, g>>
OwnerRow(o) == Row("owner", o, Nothing)
LinkRow(o, g) == Row("link", o, g)
GroupRow(g) == Row("group", Nothing, g)
NameRow(g) == Row("name", Nothing, g)   \* the row as its other columns are changed, which references do not lock
LinkRows(o) == {LinkRow(o, g) : g \in links[o]}

Target(h) == handler[h].ask.owner
Creates(h) == handler[h].ask.op \in {"CreateChannel", "CreateKey"}

CatalogueInit ==
    /\ groups \in [Group -> {"gone", "on", "off"}]
    /\ owner \in [Owner -> {Absent, [live |-> TRUE, on |-> TRUE]}]
    /\ links \in [Owner -> SUBSET Group] /\ \A o \in Owner : links[o] \subseteq {g \in Group : owner[o].live /\ groups[g] # "gone"}
    /\ mapping = [c \in Upstream |-> Model]
    /\ ratio \in [Upstream -> {Nothing} \cup {[default |-> m, models |-> Model] : m \in Model}]
    /\ \A c \in Upstream : ratio[c] # Nothing => owner[c].live
    /\ handler \in [Editor -> {[at |-> "start", ask |-> a, held |-> {}, shared |-> {}] : a \in Operation}]
    /\ \A h \in Editor : Creates(h) =>   \* under an identifier of its own
          /\ ~owner[Target(h)].live
          /\ \A o \in Editor \ {h} : Creates(o) => Target(o) # Target(h)
    /\ request \in [Request -> [at : {"new", "refused"}, key : Key, spec : Group \cup {Nothing}]]
    /\ scope = [k \in Key |-> links[k]]

-----------------------------------------------------------------------------
\* Row locks: exclusive for changed and deleted rows, shared for referenced ones.

Free(row, h) == \A o \in Editor \ {h} : handler[o].at # "done" => row \notin handler[o].held
Unused(row, h) == Free(row, h) /\ \A o \in Editor \ {h} : handler[o].at # "done" => row \notin handler[o].shared

Is(h, op, at) == handler[h].at = at /\ handler[h].ask.op \in op
Go(h, at) == handler' = [handler EXCEPT ![h].at = at]
Hold(h, rows, at) == handler' = [handler EXCEPT ![h].at = at, ![h].held = @ \cup rows]
End(h) == handler' = [handler EXCEPT ![h] = Done]

\* Failing ends the transaction; what it wrote was its own until the commit.
Fail(h) == End(h) /\ UNCHANGED <<tables, scope>>

-----------------------------------------------------------------------------
\* Channels and keys: one transaction replaces the links of an owner.

\* SELECT ... FOR UPDATE of the row whose links are to be replaced.
LockOwner(h) ==
    /\ Is(h, {"UpdateChannel"}, "start") \/ Is(h, {"UpdateKey", "CreateKey"}, "sync")
    /\ Free(OwnerRow(Target(h)), h)
    /\ IF ~owner[Target(h)].live THEN End(h)
       ELSE IF handler[h].ask.groups = Nothing THEN Hold(h, {OwnerRow(Target(h))}, "commit")
       ELSE Hold(h, {OwnerRow(Target(h))}, IF Target(h) \in Upstream THEN "ensure" ELSE "clear")
    /\ UNCHANGED <<tables, request, scope>>

\* Explicit groups of a channel must exist and be enabled; those of a key need not.
\* As a bug: a refusal without the rollback.
EnsureWithoutRollback(h) ==
    /\ handler[h].at = "ensure"
    /\ Go(h, IF \E g \in handler[h].ask.groups : groups[g] # "on" THEN "answered"
             ELSE IF handler[h].ask.op = "CreateChannel" THEN "insert" ELSE "clear")
    /\ UNCHANGED <<tables, request, scope>>

EnsureGroupsExist(h) ==
    /\ handler[h].at = "ensure"
    /\ IF \A g \in handler[h].ask.groups : groups[g] = "on"
       THEN Go(h, IF handler[h].ask.op = "CreateChannel" THEN "insert" ELSE "clear") ELSE End(h)
    /\ UNCHANGED <<tables, request, scope>>

\* As a bug: deleting and inserting in transactions of their own.
ClearAtOnce(h) ==
    /\ handler[h].at = "clear" /\ \A row \in LinkRows(Target(h)) : Free(row, h)
    /\ Go(h, "insert")
    /\ links' = [links EXCEPT ![Target(h)] = {}]
    /\ UNCHANGED <<groups, owner, mapping, ratio, request, scope>>

ClearLinks(h) ==
    /\ handler[h].at = "clear" /\ \A row \in LinkRows(Target(h)) : Free(row, h)
    /\ Hold(h, LinkRows(Target(h)), "insert")
    /\ UNCHANGED <<tables, request, scope>>

\* Inserting a link refers to the group: it must be there, and stays till the end.
Inserted(h) == {g \in handler[h].ask.groups : GroupRow(g) \in handler[h].shared}
InsertLink(h) ==
    /\ handler[h].at = "insert"
    /\ \E g \in handler[h].ask.groups \ Inserted(h) :
          /\ Free(GroupRow(g), h)
          /\ IF groups[g] = "gone" /\ NameRow(g) \notin handler[h].held THEN Fail(h)
             ELSE /\ handler' = [handler EXCEPT ![h].shared = @ \cup {GroupRow(g)}]
                  /\ UNCHANGED <<tables, scope>>
    /\ UNCHANGED request

\* In force from now on, also for the requests under way.
PutInForce(new) ==
    /\ scope' = new
    /\ request' = [r \in Request |-> IF request[r].at \in {"known", "bound"}
                                     THEN [request[r] EXCEPT !.inForce = @ \cup {new[request[r].key]}]
                                     ELSE request[r]]

CommitLinks(h) ==
    /\ handler[h].at \in {"insert", "commit"}
    /\ LET ask == handler[h].ask
           o == Target(h)
           new == IF handler[h].at = "commit" THEN links[o] ELSE ask.groups
       IN /\ handler[h].at = "insert" => Inserted(h) = new
          /\ links' = [links EXCEPT ![o] = new]
          /\ IF o \in Upstream
             THEN /\ mapping' = IF ask.models = Nothing THEN mapping ELSE [mapping EXCEPT ![o] = ask.models]
                  /\ groups' = [g \in Group |-> IF groups[g] = "gone" /\ NameRow(g) \in handler[h].held THEN "on" ELSE groups[g]]
                  /\ owner' = [owner EXCEPT ![o] = IF ask.op = "CreateChannel" THEN [live |-> TRUE, on |-> TRUE] ELSE @]
                  /\ UNCHANGED <<request, scope>>
             ELSE /\ PutInForce([scope EXCEPT ![o] = new])
                  /\ UNCHANGED <<mapping, owner, groups>>
    /\ End(h) /\ UNCHANGED ratio

\* Without groups a new channel goes to the default group, enabled or not, which
\* is only looked up: it may be gone again when the link refers to it.
CreateChannel(h) ==
    /\ Is(h, {"CreateChannel"}, "start") /\ ~owner[Target(h)].live
    /\ IF handler[h].ask.groups # {} THEN Go(h, "ensure")
       ELSE handler' = [handler EXCEPT ![h].at = IF groups[DefaultGroup] = "gone" THEN "default" ELSE "insert",
                                       ![h].ask.groups = {DefaultGroup}]
    /\ UNCHANGED <<tables, request, scope>>

\* INSERT ... ON CONFLICT of the default group that was missing: a row of its own
\* till the commit, or the row somebody else created meanwhile.
CreateDefaultGroup(h) ==
    /\ handler[h].at = "default"
    /\ Free(NameRow(DefaultGroup), h) /\ Free(GroupRow(DefaultGroup), h)
    /\ handler' = [handler EXCEPT ![h].at = "insert", ![h].held = {NameRow(DefaultGroup)},
                                  ![h].shared = IF groups[DefaultGroup] = "gone" THEN {} ELSE {GroupRow(DefaultGroup)}]
    /\ UNCHANGED <<tables, request, scope>>

\* A key is inserted first and bound in a second transaction; when that fails the
\* key is handed out all the same.
CreateKey(h) ==
    /\ Is(h, {"CreateKey"}, "start") /\ ~owner[Target(h)].live
    /\ owner' = [owner EXCEPT ![Target(h)] = [live |-> TRUE, on |-> TRUE]]
    /\ PutInForce([scope EXCEPT ![Target(h)] = {}])
    /\ IF handler[h].ask.groups = {} THEN End(h) ELSE Go(h, "sync")
    /\ UNCHANGED <<groups, links, mapping, ratio>>

\* Enabling is a statement of its own, before the groups are touched.
UpdateKey(h) ==
    /\ Is(h, {"UpdateKey"}, "start") /\ Free(OwnerRow(Target(h)), h)
    /\ LET ask == handler[h].ask
           found == ask.on = Nothing \/ owner[ask.owner].live
       IN /\ owner' = IF ask.on # Nothing /\ found THEN [owner EXCEPT ![ask.owner].on = ask.on] ELSE owner
          /\ IF found /\ ask.groups # Nothing THEN Go(h, "sync") ELSE End(h)
    /\ UNCHANGED <<groups, links, mapping, ratio, request, scope>>

\* DELETE of a channel or key: its row, then its links and what else it owns.
DeleteOwner(h) ==
    /\ Is(h, {"DeleteChannel", "DeleteKey"}, "start") /\ Free(OwnerRow(Target(h)), h)
    /\ IF owner[Target(h)].live THEN Hold(h, {OwnerRow(Target(h))}, "cascade") ELSE End(h)
    /\ UNCHANGED <<tables, request, scope>>

CascadeOwner(h) ==
    /\ Is(h, {"DeleteChannel", "DeleteKey"}, "cascade") /\ \A row \in LinkRows(Target(h)) : Free(row, h)
    /\ LET o == Target(h)
       IN /\ owner' = [owner EXCEPT ![o] = Absent]
          /\ links' = [links EXCEPT ![o] = {}]
          /\ ratio' = [c \in Upstream |-> IF c = o THEN Nothing ELSE ratio[c]]
          /\ PutInForce([k \in Key |-> IF k = o THEN {} ELSE scope[k]])
    /\ End(h) /\ UNCHANGED <<groups, mapping>>

-----------------------------------------------------------------------------
\* Groups

\* Channels the request names join afterwards, one statement each; a failing one
\* is passed over.
CreateGroup(h) ==
    /\ Is(h, {"CreateGroup"}, "start") /\ Free(NameRow(handler[h].ask.group), h)
    /\ LET g == handler[h].ask.group
       IN IF groups[g] # "gone" THEN End(h) /\ UNCHANGED groups
          ELSE Go(h, "join") /\ groups' = [groups EXCEPT ![g] = "on"]
    /\ UNCHANGED <<owner, links, mapping, ratio, request, scope>>

JoinGroup(h) ==
    /\ Is(h, {"CreateGroup"}, "join")
    /\ LET g == handler[h].ask.group
       IN IF handler[h].ask.channels = {} THEN End(h) /\ UNCHANGED links
          ELSE \E c \in handler[h].ask.channels :
                  /\ Free(OwnerRow(c), h) /\ Free(GroupRow(g), h)
                  /\ handler' = [handler EXCEPT ![h].ask.channels = @ \ {c}]
                  /\ links' = [links EXCEPT ![c] = IF owner[c].live /\ groups[g] # "gone" THEN @ \cup {g} ELSE @]
    /\ UNCHANGED <<groups, owner, mapping, ratio, request, scope>>

UpdateGroup(h) ==
    /\ Is(h, {"UpdateGroup"}, "start")
    /\ groups[handler[h].ask.group] # "gone" =>
          Free(GroupRow(handler[h].ask.group), h) /\ Free(NameRow(handler[h].ask.group), h)
    /\ groups' = [groups EXCEPT ![handler[h].ask.group] = IF @ = "gone" THEN @ ELSE handler[h].ask.enabled]
    /\ End(h) /\ UNCHANGED <<owner, links, mapping, ratio, request, scope>>

DeleteGroup(h) ==
    /\ Is(h, {"DeleteGroup"}, "start")
    /\ IF groups[handler[h].ask.group] = "gone" THEN End(h)
       ELSE /\ Unused(GroupRow(handler[h].ask.group), h) /\ Free(NameRow(handler[h].ask.group), h)
            /\ Hold(h, {GroupRow(handler[h].ask.group)}, "cascade")
    /\ UNCHANGED <<tables, request, scope>>

CascadeGroup(h) ==
    /\ Is(h, {"DeleteGroup"}, "cascade")
    /\ LET g == handler[h].ask.group
       IN /\ \A o \in Owner : g \in links[o] => Free(LinkRow(o, g), h)
          /\ groups' = [groups EXCEPT ![g] = "gone"]
          /\ links' = [o \in Owner |-> links[o] \ {g}]
          /\ PutInForce([k \in Key |-> IF links[k] = {g} THEN {} ELSE scope[k]])
    /\ End(h) /\ UNCHANGED <<owner, mapping, ratio>>

-----------------------------------------------------------------------------
\* Ratio groups: read, check, write, without a transaction.

ValidGroupModels(models, default) == models # {} /\ default \in models
Given(new, old) == IF new = Nothing THEN old ELSE new

LoadRatioGroup(h) ==
    /\ Is(h, {"CreateRatioGroup", "UpdateRatioGroup"}, "start")
    /\ LET ask == handler[h].ask
           old == ratio[ask.channel]
       IN IF (ask.op = "UpdateRatioGroup" /\ old = Nothing) \/ ~owner[ask.channel].live THEN End(h)
          ELSE LET models == IF old = Nothing THEN ask.models ELSE Given(ask.models, old.models)
                   default == IF old = Nothing THEN ask.default ELSE Given(ask.default, old.default)
               IN IF ~ValidGroupModels(models, default) THEN End(h)
                  ELSE handler' = [handler EXCEPT ![h] =
                          [at |-> IF ask.models = Nothing THEN "write" ELSE "check", ask |-> ask, held |-> {},
                           shared |-> {}, new |-> [default |-> default, models |-> models]]]
    /\ UNCHANGED <<tables, request, scope>>

\* Models that are named must be mapped by the channel now.
CheckMapping(h) ==
    /\ Is(h, {"CreateRatioGroup", "UpdateRatioGroup"}, "check")
    /\ LET c == handler[h].ask.channel
       IN IF owner[c].live /\ handler[h].new.models \subseteq mapping[c] THEN Go(h, "write") ELSE End(h)
    /\ UNCHANGED <<tables, request, scope>>

\* As a bug: only the columns of the request, checked against older ones.
ChangedColumns(h, old) ==
    IF old = Nothing THEN handler[h].new
    ELSE [default |-> Given(handler[h].ask.default, old.default), models |-> Given(handler[h].ask.models, old.models)]

\* All columns are written, whichever the request changed.
Columns(h, old) == handler[h].new

WriteRatioGroup(h) ==
    /\ Is(h, {"CreateRatioGroup", "UpdateRatioGroup"}, "write")
    /\ LET c == handler[h].ask.channel
           create == handler[h].ask.op = "CreateRatioGroup"
       IN ratio' = IF owner[c].live /\ create = (ratio[c] = Nothing)
                   THEN [ratio EXCEPT ![c] = Columns(h, @)] ELSE ratio
    /\ End(h) /\ UNCHANGED <<groups, owner, links, mapping, request, scope>>

DeleteRatioGroup(h) ==
    /\ Is(h, {"DeleteRatioGroup"}, "start")
    /\ ratio' = [ratio EXCEPT ![handler[h].ask.channel] = Nothing]
    /\ End(h) /\ UNCHANGED <<groups, owner, links, mapping, request, scope>>

-----------------------------------------------------------------------------
\* Requests: the key first, its groups in a second query, then the group asked for.

\* The text of a key is known once its creation has been answered.
KnownKey(k) == \A h \in Editor : handler[h].at # "done" => ~(Creates(h) /\ Target(h) = k)
Reply(r, at) == request' = [request EXCEPT ![r].at = at]

Authenticate(r) ==
    /\ request[r].at = "new" /\ KnownKey(request[r].key)
    /\ request' = [request EXCEPT ![r] =
          IF owner[@.key].live /\ owner[@.key].on
          THEN [at |-> "known", key |-> @.key, spec |-> @.spec, inForce |-> {scope[@.key]}]
          ELSE [@ EXCEPT !.at = "refused"]]
    /\ UNCHANGED <<tables, handler, scope>>

LoadKeyGroups(r) ==
    /\ request[r].at = "known"
    /\ request' = [request EXCEPT ![r] = [at |-> "bound", key |-> @.key, spec |-> @.spec,
                                          inForce |-> @.inForce, groups |-> links[@.key]]]
    /\ UNCHANGED <<tables, handler, scope>>

\* A group that is asked for must exist, be enabled, and be one of the key's.
\* Without one, all the key's groups are searched, a single one as if it had been
\* asked for; without links, all channels.
Resolved(g) == groups[g] = "on"
ChooseGroups(r) ==
    /\ request[r].at = "bound"
    /\ LET spec == request[r].spec
           bound == request[r].groups
       IN IF spec = Nothing
          THEN Reply(r, IF \E g \in Group : bound = {g} /\ ~Resolved(g) THEN "refused" ELSE "routed")
          ELSE IF ~Resolved(spec) \/ (bound # {} /\ spec \notin bound) THEN Reply(r, "refused")
          ELSE request' = [request EXCEPT ![r].at = "routed", ![r].groups = {spec}]
    /\ UNCHANGED <<tables, handler, scope>>

-----------------------------------------------------------------------------
\* The database fails one of the transactions that wait for each other.

Needs(h) ==
    CASE Is(h, {"UpdateChannel", "UpdateKey", "DeleteChannel", "DeleteKey"}, "start")
           \/ Is(h, {"UpdateKey", "CreateKey"}, "sync") -> {OwnerRow(Target(h))}
      [] Is(h, {"UpdateGroup", "DeleteGroup"}, "start") -> {GroupRow(handler[h].ask.group), NameRow(handler[h].ask.group)}
      [] Is(h, {"CreateGroup"}, "start") -> {NameRow(handler[h].ask.group)}
      [] handler[h].at = "default" -> {NameRow(DefaultGroup), GroupRow(DefaultGroup)}
      [] handler[h].at = "clear" \/ Is(h, {"DeleteChannel", "DeleteKey"}, "cascade") -> LinkRows(Target(h))
      [] Is(h, {"CreateGroup"}, "join") -> {OwnerRow(c) : c \in handler[h].ask.channels}
      [] handler[h].at = "insert" -> {GroupRow(g) : g \in handler[h].ask.groups \ Inserted(h)}
      [] Is(h, {"DeleteGroup"}, "cascade") ->
            {LinkRow(o, handler[h].ask.group) : o \in {p \in Owner : handler[h].ask.group \in links[p]}}
      [] OTHER -> {}

WaitsFor(h, o) ==
    /\ h # o /\ handler[h].at # "done" /\ handler[o].at # "done"
    /\ \/ Needs(h) \cap handler[o].held # {}
       \/ Is(h, {"DeleteGroup"}, "start") /\ Needs(h) \cap handler[o].shared # {}

BreakDeadlock(h) ==
    /\ \E o \in Editor : WaitsFor(h, o) /\ WaitsFor(o, h)
    /\ Fail(h) /\ UNCHANGED request

-----------------------------------------------------------------------------
Administer(h) ==
    \/ LockOwner(h) \/ EnsureGroupsExist(h) \/ ClearLinks(h) \/ InsertLink(h) \/ CommitLinks(h)
    \/ CreateChannel(h) \/ CreateDefaultGroup(h) \/ CreateKey(h) \/ UpdateKey(h) \/ DeleteOwner(h) \/ CascadeOwner(h)
    \/ CreateGroup(h) \/ JoinGroup(h) \/ UpdateGroup(h) \/ DeleteGroup(h) \/ CascadeGroup(h)
    \/ LoadRatioGroup(h) \/ CheckMapping(h) \/ WriteRatioGroup(h) \/ DeleteRatioGroup(h)
    \/ BreakDeadlock(h)
Call(r) == Authenticate(r) \/ LoadKeyGroups(r) \/ ChooseGroups(r)

CatalogueNext == (\E h \in Editor : Administer(h)) \/ (\E r \in Request : Call(r))
CatalogueFairness == \A h \in Editor : WF_catalogueVars(Administer(h))
CatalogueSpec == CatalogueInit /\ [][CatalogueNext]_catalogueVars /\ CatalogueFairness

-----------------------------------------------------------------------------
\* A request is routed within the groups that were in force for its key at some
\* moment of the request, in whatever order the statements of administrators and
\* of the request fall (syncKeyGroups in one transaction, loadKeyGroupIDs). No
\* groups means any group: that is in force for a key bound to none, and for one
\* that lost its last group or was deleted, or whose binding is still to come.
Within(chosen, allowed) == allowed = {} \/ (chosen # {} /\ chosen \subseteq allowed)
ScopeStays ==
    \A r \in Request : request[r].at = "routed" =>
        \E allowed \in request[r].inForce : Within(request[r].groups, allowed)

\* The model a ratio group is measured with is one of its models, whatever
\* updates overlap, since each writes what it has checked as a whole.
DefaultIsListed ==
    \A c \in Upstream : ratio[c] # Nothing => ratio[c].default \in ratio[c].models

\* Replacing links and deleting a group lock the same rows in opposite orders;
\* every operation ends all the same.
EditsEnd == \A h \in Editor : <>(handler[h].at = "done")
=============================================================================
