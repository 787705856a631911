SPECIFICATION ImagesSpec
CONSTANTS
  Image = {"zac:1", "zac:2", "my-zac:2"}
  RepositoryOf <- MCRepositoryOf
  Ends <- MCEnds
  Digest = {"a", "b"}
  BatchSize = 2
  PullsFail = FALSE
  ImportsCut = FALSE
  MaxChanges = 3
  MaxEnds = 1
INVARIANTS HostTagTells RunsPinned
