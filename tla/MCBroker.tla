------------------------------ MODULE MCBroker ------------------------------
(* Three consumers over both vendors.  The first poll brings usual replies,   *)
(* or one on which a discriminator raises; the second brings for one key,     *)
(* whichever, any of its replies, so that every reply is met by fresh         *)
(* consumers as well as by ones that hold an older slice.                     *)
EXTENDS Broker, Replies

CONSTANTS hud, cockpit, ai

MCConsumers == {hud, cockpit, ai}
MCKind == [c \in MCConsumers |-> CASE c = hud -> "widget" [] c = ai -> "ai" [] OTHER -> "cockpit"]
MCManifest ==
    [v \in {"arista", "juniper"} |->
        [c \in MCConsumers |-> CASE c = ai -> {"ospf"}
                                 [] c = hud -> {"bgp", "mlag"}   \* refused on Junos
                                 [] OTHER -> VENDOR_MANIFESTS[v]]]

NoOdd == [key \in capabilities("arista") \cup capabilities("juniper") |-> {}]
MCUsual == [arista |-> AristaUsual, juniper |-> JuniperUsual]
MCOdd == [arista |-> <<With(Field("ospf", {One("vrfs", One("default", Str("n/a")))}), NoOdd),
                       AristaReplies>>,
          juniper |-> <<NoOdd, JuniperReplies>>]

\* None of the replies has inside it what it opens with.
ASSUME RepliesOpenApart ==
    \A key \in SingleReads : \A reply \in {AristaUsual[key]} \cup AristaReplies[key] :
        OpensApart(key, reply)

\* What an environment lists is walked from its first part to its last.
ASSUME RepliesWalked ==
    \A reply \in {AristaUsual["environment"]} \cup AristaReplies["environment"] : Walked(reply)
==============================================================================
