SPECIFICATION FairSpec
CONSTANTS
  source = source
  filter = filter
  sink = sink
  Order <- JoinOrder
  Outs <- JoinOuts
  Delay <- JoinDelay
  Length = 3
  Chunk = 2
  PipeSize = 1
  BufferSize = 2
  Endless <- TheSource
  Prompt = TRUE
  Interrupts = TRUE
INVARIANTS TypeOK EverySampleKept EndsNaturally
PROPERTIES Finishes ObeysInterrupt
CHECK_DEADLOCK FALSE
