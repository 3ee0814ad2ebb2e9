SPECIFICATION FairSpec
CONSTANTS
  Branches <- MCBranches
  Tags <- MCTags
  Commits <- MCCommits
  Ancestors <- MCAncestors
  Recent <- MCRecent
  Files <- MCFiles
  FirstRemote <- MCRemote
  Requests <- MCRequests
  MaxMoves = 2
INVARIANTS
  RefsTypeOK
  
  ConfigsAgree
  CommitIsWhatIsBuilt
PROPERTIES
  LatestNamesBuiltBranch
  RowCatchesUp
