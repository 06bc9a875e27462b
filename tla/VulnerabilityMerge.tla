-------------------------- MODULE VulnerabilityMerge --------------------------
(***************************************************************************)
(* Deduplication of vulnerability records across tools and runs.            *)
(*                                                                         *)
(* Tools name one issue by different identifiers (CVE, GHSA, OSV).  Records  *)
(* of the same package that share an identifier, directly or through other   *)
(* records, become one; records of different packages never do.             *)
(*                                                                         *)
(* A record: [package, ids, severity, exploited, sources], where package is   *)
(* the name, ecosystem and version together.                                *)
(***************************************************************************)
EXTENDS Naturals, Sequences, FiniteSets, FiniteSetsExt

\* The root of an index in the forest of merged records.
Find(parents, index) ==
    LET root[i \in DOMAIN parents] == IF parents[i] = i THEN i ELSE root[parents[i]]
    IN  root[index]

\* The later root is hung under the earlier one.
Union(parents, left, right) ==
    LET roots == {Find(parents, left), Find(parents, right)}
    IN  IF Cardinality(roots) = 1 THEN parents
        ELSE [parents EXCEPT ![Max(roots)] = Min(roots)]

\* Mutant: an identifier is looked up whatever package it was named for.
MutFirstSeen(records, index, id) == Min({i \in 1..index : id \in records[i].ids})

\* The record that named an identifier of a package first.
FirstSeen(records, index, id) ==
    Min({i \in 1..index : records[i].package = records[index].package
                          /\ id \in records[i].ids})

Links(records) ==
    UNION {{<<i, FirstSeen(records, i, id)>> : id \in records[i].ids} : i \in DOMAIN records}

Forest(records) ==
    FoldSet(LAMBDA link, parents : Union(parents, link[1], link[2]),
            [i \in DOMAIN records |-> i], Links(records))

\* The strongest statement of each record of a group is kept.
MergeGroup(group) ==
    [package |-> (CHOOSE r \in group : TRUE).package,
     ids |-> UNION {r.ids : r \in group},
     severity |-> Max({r.severity : r \in group}),
     exploited |-> \E r \in group : r.exploited,
     sources |-> UNION {r.sources : r \in group}]

MergeVulnerabilities(records) ==
    LET parents == Forest(records)
        roots == SelectSeq([i \in DOMAIN records |-> i], LAMBDA i : parents[i] = i)
    IN  [k \in DOMAIN roots |->
            MergeGroup({records[i] : i \in {j \in DOMAIN records :
                                               Find(parents, j) = roots[k]}})]
=============================================================================
