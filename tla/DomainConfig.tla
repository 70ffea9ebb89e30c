----------------------------- MODULE DomainConfig -----------------------------
(***************************************************************************)
(* A parsed JEUS configuration (domain.xml or JEUSMain.xml), and what the  *)
(* parsers of JeusDomain make of it for each server.                       *)
(***************************************************************************)

CONSTANTS
    Versions,
    Config,       \* Config[v]: the parsed configuration, see ConfigAssumption
    Instances, Sources, Apps, Clusters, Conns

Configs ==
    [new : BOOLEAN,                                \* domain.xml or JEUSMain.xml
     servers : SUBSET Instances,
     databases : SUBSET Sources,                   \* resources of the domain
     uses : [Instances -> SUBSET Sources],         \* data-sources of a server
     apps : SUBSET Apps,
     targets : [Apps -> SUBSET Instances],         \* target-server, targets
     onClusters : [Apps -> SUBSET Clusters],       \* target-cluster
     members : [Clusters -> SUBSET Instances],
     conns : [Instances -> SUBSET Conns]]          \* web-connections

ASSUME ConfigAssumption == Config \in [Versions -> Configs]

ServersOf(v) == Config[v].servers

\* domain.xml names the datasources of each server; with JEUSMain.xml every
\* server is linked to all datasources of the domain.
UsedBy(v, i) == IF Config[v].new THEN Config[v].uses[i] ELSE Config[v].databases

\* An application runs on its target servers and on the members of its
\* target clusters.
AppsOn(v, i) ==
    {a \in Config[v].apps : \/ i \in Config[v].targets[a]
                            \/ \E c \in Config[v].onClusters[a] : i \in Config[v].members[c]}

ConnsOf(v, i) == Config[v].conns[i]
===============================================================================
