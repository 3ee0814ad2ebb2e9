------------------------------- MODULE MCRefs -------------------------------
(***************************************************************************)
(* A history of four commits -- 1 <- 2 <- 3, and 4 rewritten on top of 1 - *)
(* of which two are fetched at most, and one row of each kind: a branch, a *)
(* tag and a pull request, stable, and latest with and without a           *)
(* default_branch, of projects on each kind of host.                       *)
(***************************************************************************)
EXTENDS Refs

MCBranches == {"main", "dev", "stable"}
MCTags     == {"stable"}
MCCommits  == 1 .. 4
MCAncestors == <<{1}, {1, 2}, {1, 2, 3}, {1, 4}>>
MCRecent    == <<{1}, {1, 2}, {2, 3}, {1, 4}>>
MCFiles     == <<{1}, {1, 2}, {}, {2}>>

MCRemote == [head |-> "main", branch |-> [main |-> 1, dev |-> 1, stable |-> NoCommit],
             tag |-> [stable |-> 1], pull |-> 1]

Github == [explicit |-> FALSE, host |-> "exact", custom |-> FALSE, hooks |-> FALSE]

Row(type, machine, slug, name, identifier) ==
  [type |-> type, machine |-> machine, slug |-> slug, name |-> name, identifier |-> identifier]

TagRow    == Row("tag", FALSE, "v1", "stable", Hash(1))
PullRow   == Row("external", FALSE, "7", "7", Hash(1))
LatestRow(id) == Row("branch", TRUE, "latest", "latest", id)

MCRequests ==
  {<<Row("branch", FALSE, "main", "main", Named("main")), [Github EXCEPT !.hooks = TRUE]>>,
   <<TagRow, Github>>,
   <<Row("tag", TRUE, "stable", "stable", Hash(1)), Github>>,
   <<LatestRow(Named("main")), Github>>,
   <<LatestRow(Unnamed), [Github EXCEPT !.custom = TRUE]>>,
   <<LatestRow(Unnamed), [Github EXCEPT !.explicit = TRUE]>>,
   <<LatestRow(Named("main")), [Github EXCEPT !.explicit = TRUE]>>,
   <<[LatestRow(Named("stable")) EXCEPT !.type = "tag"], [Github EXCEPT !.explicit = TRUE]>>}
  \cup {<<PullRow, [Github EXCEPT !.host = h]>> : h \in {"exact", "inexact", "elsewhere"}}
=============================================================================
