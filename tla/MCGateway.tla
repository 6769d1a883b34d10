------------------------------ MODULE MCGateway ------------------------------
(* The gateway's components that share no variable, in one state space: a    *)
(* behaviour is one of the failover loop, of the catalogue or of the         *)
(* conversion, as "live" says; the others stay where they are.               *)
EXTENDS ProxyFailover, Catalogue

CONSTANTS m1, m2, Question, Block, MaxMessages, MaxBlocks

VARIABLES live,
          question, answer, cut, source, out, stopped, err, toolIndex, received, ended

conversionVars == <<question, answer, cut, source, out, stopped, err, toolIndex, received, ended>>
allVars == <<live, vars, catalogueVars, conversionVars>>

-----------------------------------------------------------------------------
(* The operations administrators may ask for.                                *)
KeyOps ==
       [op : {"CreateKey"}, owner : Key, groups : {{}, {2}}]
  \cup [op : {"UpdateKey"}, owner : Key, groups : {{}, {2}, {1, 2}, Nothing}, on : {Nothing, TRUE, FALSE}]
  \cup [op : {"DeleteKey"}, owner : Key]
GroupOps ==
       [op : {"CreateGroup"}, group : {2}, channels : {Upstream}]
  \cup [op : {"UpdateGroup"}, group : {1}, enabled : {"on", "off"}]
  \cup [op : {"DeleteGroup"}, group : {1, 2}]
ChannelOps ==
       [op : {"UpdateChannel"}, owner : Upstream, groups : {{}, {1}, {1, 2}}, models : {Nothing}]
  \cup [op : {"UpdateChannel"}, owner : Upstream, groups : {Nothing}, models : {{m1}}]
  \cup [op : {"CreateChannel"}, owner : Upstream, groups : {{}, {2}}, models : {Nothing}]
  \cup [op : {"DeleteChannel"}, owner : Upstream]
RatioOps ==
       [op : {"CreateRatioGroup"}, channel : Upstream, default : {m1}, models : {{m1}, {m1, m2}}]
  \cup [op : {"UpdateRatioGroup"}, channel : Upstream, default : {Nothing, m2}, models : {Nothing, {m1}, {m1, m2}}]
  \cup [op : {"DeleteRatioGroup"}, channel : Upstream]
MCOperation == KeyOps \cup GroupOps \cup ChannelOps \cup RatioOps

(* Messages and blocks.                                                      *)
Text(t) == [type |-> "text", text |-> t]
ToolCall(n, a) == [type |-> "tool_use", id |-> n, name |-> n, args |-> a]
Message(role, plain, parts, calls, id) == [role |-> role, plain |-> plain, parts |-> parts, calls |-> calls, id |-> id]
MCQuestion == {
    Message("system", TRUE, <<Text(<<"s">>)>>, <<>>, ""),
    Message("user", TRUE, <<Text(<<"a">>)>>, <<>>, ""),
    Message("user", FALSE, <<Text(<<"b">>), [type |-> "image", text |-> <<"u">>], [type |-> "audio", text |-> <<"x">>]>>, <<>>, ""),
    Message("assistant", TRUE, <<Text(<<>>)>>, <<ToolCall("t1", <<"1">>), ToolCall("", <<>>)>>, ""),
    Message("tool", FALSE, <<Text(<<"r">>)>>, <<>>, "t1"),
    Message("function", TRUE, <<Text(<<"f">>)>>, <<>>, "")}
MCBlock == {Text(<<"a">>), Text(<<"b", "c">>), ToolCall("t1", <<"1", "2">>), ToolCall("t2", <<"3">>), ToolCall("t3", <<>>)}

(* An answer's block is a text or a call, with its pieces.                    *)
List(s) == s \in Seq(ToSet(s))
ASSUME ConversionAssumption ==
    /\ {MaxMessages, MaxBlocks} \subseteq Nat
    /\ \A b \in Block : \/ b.type = "text" /\ List(b.text)
                        \/ b.type = "tool_use" /\ List(b.args)

Conversion == INSTANCE Conversion

-----------------------------------------------------------------------------
NoFailover ==
    /\ req = [r \in Requests |-> [at |-> "done", index |-> 1, calls |-> 0, probe |-> FALSE,
                                  streaming |-> FALSE, committed |-> FALSE, gone |-> FALSE]]
    /\ order = [r \in Requests |-> SetToSeq(Channels)] /\ reports = [r \in Requests |-> <<>>]
    /\ slots = [c \in Channels |-> 0] /\ expires = [c \in Channels |-> FALSE] /\ overrun = {}

NoCatalogue ==
    /\ groups = [g \in Group |-> "gone"] /\ owner = [o \in Upstream \cup Key |-> [live |-> FALSE, on |-> FALSE]]
    /\ links = [o \in Upstream \cup Key |-> {}] /\ mapping = [c \in Upstream |-> {}]
    /\ ratio = [c \in Upstream |-> Nothing] /\ handler = [h \in Editor |-> [at |-> "done"]]
    /\ request = [r \in Request |-> [at |-> "refused"]] /\ scope = <<>>

NoConversion ==
    /\ question = <<>> /\ answer = <<>> /\ cut = <<>> /\ source = <<>> /\ out = <<>> /\ stopped = TRUE
    /\ err = 0 /\ toolIndex = 0 /\ received = <<>> /\ ended = "no"

(* Keys beside groups, with a request; channels beside groups; ratio groups  *)
(* beside channels.                                                          *)
Asks(S) == \A h \in Editor : handler[h].ask \in S
NoRequest == \A r \in Request : request[r].at = "refused" /\ request[r].spec = Nothing
CatalogueCases ==
    /\ groups[1] = "on"
    /\ \A c \in Upstream, k \in Key :
          \/ /\ Asks(KeyOps \cup GroupOps) /\ ~Asks(GroupOps) /\ ~owner[c].live /\ groups[2] # "off"
             /\ (owner[k].live => 1 \in links[k]) /\ \A r \in Request : request[r].at = "new"
          \/ Asks(ChannelOps \cup GroupOps) /\ NoRequest /\ ~owner[k].live /\ ratio[c] = Nothing
          \/ /\ Asks(RatioOps \cup ChannelOps) /\ ~Asks(ChannelOps) /\ NoRequest /\ ~owner[k].live
             /\ groups[2] = "on" /\ links[c] = {}

MCInit ==
    \/ live = "failover" /\ Init /\ NoCatalogue /\ NoConversion
    \/ live = "catalogue" /\ NoFailover /\ CatalogueInit /\ CatalogueCases /\ NoConversion
    \/ live = "conversion" /\ NoFailover /\ NoCatalogue /\ Conversion!Init

MCNext ==
    \/ live = "failover" /\ Next /\ UNCHANGED <<live, catalogueVars, conversionVars>>
    \/ live = "catalogue" /\ CatalogueNext /\ UNCHANGED <<live, vars, conversionVars>>
    \/ live = "conversion" /\ Conversion!Next /\ UNCHANGED <<live, vars, catalogueVars>>

(* The fairness of the components, each where it is live.                    *)
MCSpec ==
    /\ MCInit /\ [][MCNext]_allVars
    /\ \A r \in Requests : WF_allVars(live = "failover" /\ Handle(r) /\ UNCHANGED <<live, catalogueVars, conversionVars>>)
    /\ \A c \in Channels : WF_allVars(live = "failover" /\ Expire(c) /\ UNCHANGED <<live, catalogueVars, conversionVars>>)
    /\ \A h \in Editor : WF_allVars(live = "catalogue" /\ Administer(h) /\ UNCHANGED <<live, vars, conversionVars>>)

-----------------------------------------------------------------------------
\* A stream is the answer that would have come whole (Conversion).
StreamMatches == Conversion!StreamMatches
\* A result of a tool follows the call it answers (Conversion).
ResultsFollowCalls == Conversion!ResultsFollowCalls
=============================================================================
