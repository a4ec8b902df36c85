SPECIFICATION BaseSpec
CONSTANTS
  th1 = th1
  th2 = th2
  SysTick = SysTick
  Usart = Usart
  Threads <- MCThreads
  Handlers <- MCHandlers
  Priority <- MCPriority
  MaxDepth = 2
  Wrap = 9
  n1 = n1
  n2 = n2
  n3 = n3
  n4 = n4
  Nodes <- MCNodes
  Key <- MCKey
  Null = Null
INVARIANTS
  GuardsAddUp
PROPERTIES
  ListIsASequence
  WalkEnds
