------------------------------ MODULE MCActors ------------------------------
(***************************************************************************)
(* Small instances of five services whose actors are interchangeable.      *)
(* They share no state in these models; the initial state picks one, which *)
(* then runs alone.                                                        *)
(***************************************************************************)
EXTENDS Explore, Bots, Sections, Catalog, Limits, TLC

CONSTANTS
    Running,       \* the services of this run
    u1, pack,      \* a user and a pack of one credit
    e1, e2, e3,    \* explorations, updates of a chat, runs of the worker
    x1, x2         \* processes, reports

VARIABLE running   \* the service that runs

MCOwner == e1 :> u1 @@ e2 :> u1 @@ e3 :> u1 @@ pack :> u1
MCAmount == e1 :> 1 @@ e2 :> 1 @@ e3 :> 1 @@ pack :> 1

\* A pack of the catalogue, a plan that is retired, a price.
MCSeedCost(o) == 1
MCSeedSale(o) == CASE o = "credit3" -> "unsaid" [] o = "gold" -> "off" [] OTHER -> "on"

Symmetric ==
    Permutations({e1, e2, e3}) \union Permutations({x1, x2})

-----------------------------------------------------------------------------

ActorsInit ==
    /\ running \in Running
    /\ ExploreInit /\ BotsInit /\ SecInit /\ CatalogInit /\ LimitsInit
    \* The bots are at rest in one way.
    /\ running # "bots" => row.at = "none" /\ \A u \in Updates : msg[u] = "cancel"
    /\ running # "catalog" => \A o \in Offers : offer[o] = NoOffer
    /\ running # "limits" => backend = "redis"

\* All but service s stay as they are.
OnlyIn(s) ==
    /\ IF s = "explore" THEN TRUE ELSE UNCHANGED exploreVars
    /\ IF s = "bots" THEN TRUE ELSE UNCHANGED botsVars
    /\ IF s = "sections" THEN TRUE ELSE UNCHANGED secVars
    /\ IF s = "catalog" THEN TRUE ELSE UNCHANGED catalogVars
    /\ IF s = "limits" THEN TRUE ELSE UNCHANGED limitVars

ActorsNext ==
    /\ UNCHANGED running
    /\ \/ running = "explore" /\ ExploreNext /\ OnlyIn("explore")
       \/ running = "bots" /\ BotsNext /\ OnlyIn("bots")
       \/ running = "sections" /\ SecNext /\ OnlyIn("sections")
       \/ running = "catalog" /\ CatalogNext /\ OnlyIn("catalog")
       \/ running = "limits" /\ LimitsNext /\ OnlyIn("limits")

actorsVars ==
    <<running, exploreVars, botsVars, secVars, catalogVars, limitVars>>

ActorsSpec == ActorsInit /\ [][ActorsNext]_actorsVars

\* The type of the service that runs.
ActorTypesOK ==
    /\ running = "explore" => ExploreTypeOK
    /\ running = "bots" => BotsTypeOK
    /\ running = "sections" => SecTypeOK
    /\ running = "catalog" => CatalogTypeOK
    /\ running = "limits" => LimitsTypeOK
=============================================================================
