SPECIFICATION MCSpec
CONSTANTS
  MAXARGS = 3
  NPROC = 7
  NOFILE = 6
  NPipes <- MCPipes
  Tokens <- MCTokens
  MaxTokens = 4
  RunLines <- MCRunLines
  HeapTop = 10
  NALLOC = 4
  Requests = {1, 2, 5}
INVARIANTS ParserAgrees PromptMeansDone HeapExact
PROPERTIES LineEnds
CHECK_DEADLOCK FALSE
