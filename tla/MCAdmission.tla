---------------------------- MODULE MCAdmission ----------------------------
EXTENDS AdmissionProperties, TLC

CONSTANTS public, rpc, internal, steve, merged, u1, u2, p1

(* A public key that may queue once a minute, a key of the RPC service, a  *)
(* key that is neither, a Minecraft session, and the one JWT of queue.go's *)
(* documentation.                                                          *)
MCClaims ==
    public   :> [aud |-> {"api-key"}, rpc |-> FALSE, player |-> None,
                 api |-> [uid |-> u1, permissions |-> {"queue"}, ratelimit |-> 1]] @@
    rpc      :> [aud |-> {"api-key"}, rpc |-> TRUE, player |-> None, api |-> None] @@
    internal :> [aud |-> {"api-key"}, rpc |-> FALSE, player |-> None, api |-> None] @@
    steve    :> [aud |-> {"minecraft-session"}, rpc |-> FALSE, player |-> p1, api |-> None] @@
    merged   :> [aud |-> {"public-api", "minecraft-session"}, rpc |-> FALSE, player |-> p1,
                 api |-> [uid |-> u1, permissions |-> {"queue"}, ratelimit |-> -1]]

To(route, auth) == [route |-> route, ip |-> "1.1.1.1", auth |-> auth]

(* Callers of /queue, complete, in another order, and each with one thing  *)
(* missing; one of the RPC service; and callers of other routes.           *)
MCQueueCalls ==
    {To("queue", <<public, steve>>), To("queue", <<None, steve, public>>),
     To("queue", <<internal, steve>>), To("queue", <<rpc, steve>>),
     To("queue", <<public>>), To("check", <<internal>>), To("verify", <<>>)}

(* Callers that pay a quota: with a key that has a limit of its own, one,  *)
(* and with a key and without one, who have the limit of all others, two.  *)
MCQuotaCalls ==
    {To("check", <<public>>), To("check", <<internal>>), To("verify", <<>>)}

(* Callers that wait for the connection to the database, for the store,    *)
(* for Mojang or for messages.                                             *)
MCAnsweredCalls ==
    {To("queue", <<public, steve>>), To("challenge", <<>>),
     [To("verify", <<>>) EXCEPT !.ip = "2.2.2.2"], To("gateway", <<>>)}

MCMergedCalls == {To("queue", <<merged>>)}

Symmetry == Permutations(Requests)
=============================================================================
